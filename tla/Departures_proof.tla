--------------------------- MODULE Departures_proof ---------------------------
(***************************************************************************)
(* What holds of the stored departures for any tenants, rides, timetables  *)
(* and calendars, and for every order of decisions, timetable edits,       *)
(* bookings and nights.                                                    *)
(***************************************************************************)
EXTENDS Departures, TLAPS

-----------------------------------------------------------------------------
(* The inductive invariant *)

Timetable == [Ride -> TimetableRow]
Rows == [DepartureId -> Departure \cup {None}]
Records == [ExceptionId -> Exception \cup {None}]
References == [DepartureId -> Time \cup {None}]

\* The departure stored under a ride and a date is of that ride and date,
\* and links no exception.
Filed(rows) ==
    \A b \in ScheduleId : rows[b] # None =>
        rows[b].ride = b[1] /\ rows[b].date = b[2] /\ rows[b].exception = None

\* No departure is stored past the horizon.
WithinHorizon(rows) ==
    \A b \in DepartureId : rows[b] # None => rows[b].date <= today + Horizon

\* An extra that names an ADDITIONAL is in service and of its ride and date;
\* one that names none is cancelled, or an orphan the timetable dropped.
LinkAgrees(row, records) ==
    LET e == row.exception
    IN  IF e = None THEN row.cancelled \/ row.dropped
        ELSE /\ ~row.cancelled
             /\ records[e] # None /\ records[e].type = "ADDITIONAL" /\ records[e].time # None
             /\ records[e].ride = row.ride /\ records[e].date = row.date

LinksAgree(rows, records) ==
    \A x \in ExtraId : rows[x] # None => LinkAgrees(rows[x], records)

\* A timetable departure of the window is cancelled exactly where its date
\* is skipped.
SkipsApplied(rows, records) ==
    \A b \in ScheduleId : rows[b] # None /\ b[2] \in DepartureWindow =>
        (rows[b].cancelled <=> Skips(records, b[1], b[2]) # {})

CopiesTell(rows, references) ==
    \A b \in DepartureId :
        references[b] # None => rows[b] # None /\ rows[b].time = references[b]

RowsOK(rows, records, references) ==
    /\ Filed(rows)
    /\ WithinHorizon(rows)
    /\ LinksAgree(rows, records)
    /\ SkipsApplied(rows, records)
    /\ CopiesTell(rows, references)

\* The departures of the window follow the timetable: the bus of a date it
\* does not produce is dropped, and an extra that names an ADDITIONAL is
\* dropped exactly while its ride does not run.
ExtraFollows(tt, row) ==
    /\ ~RideRuns(tt, row.ride) => row.dropped
    /\ row.exception # None /\ row.dropped => ~RideRuns(tt, row.ride)

RowFollows(tt, rows, b) ==
    IF b \in ScheduleId
    THEN /\ rows[b].dropped <=> ~Produces(tt, b[1], b[2])
         /\ Produces(tt, b[1], b[2]) => rows[b].time = tt[b[1]].base[b[2]]
    ELSE ExtraFollows(tt, rows[b])

Follows(tt, rows) ==
    \A b \in DepartureId :
        rows[b] # None /\ rows[b].date \in DepartureWindow => RowFollows(tt, rows, b)

Complete(tt, rows, records, t) ==
    MissingScheduled(tt, rows, t) = {} /\ MissingExtras(rows, records, t) = {}

\* Whom the night's pass has been to, it has served, edits since included.
NightServes ==
    night.begun => \A t \in Tenant \ (night.left \cup night.failed) : NothingMissing(t)

Inv ==
    /\ TypeOK
    /\ RowsOK(departure, exception, copy)
    /\ Follows(timetable, departure)
    /\ NightServes

-----------------------------------------------------------------------------
(* Rows *)

LEMMA NoneIsNoRow ==
    /\ \A row \in Departure : row # None
    /\ \A record \in Exception : record # None
    /\ \A t \in Time : t # None
    /\ \A e \in ExceptionId : e # None
BY RowsAssumption

LEMMA DepartureIds ==
    /\ ScheduleId \subseteq DepartureId /\ ExtraId \subseteq DepartureId
    /\ \A b \in DepartureId : b \in ExtraId <=> b \notin ScheduleId
    /\ \A b \in ScheduleId : b[1] \in Ride /\ b[2] \in Date /\ b = <<b[1], b[2]>>
    /\ \A r \in Ride, d \in Date : /\ <<r, d>> \in ScheduleId
                                   /\ <<r, d>>[1] = r /\ <<r, d>>[2] = d
BY RowsAssumption DEF DepartureId, ScheduleId

LEMMA DateOfRide ==
    ASSUME NEW r \in Ride, NEW d \in Date
    PROVE  \E b \in ScheduleId : b = <<r, d>> /\ b[1] = r /\ b[2] = d
<1>1. <<r, d>> \in ScheduleId /\ <<r, d>>[1] = r /\ <<r, d>>[2] = d
  BY DepartureIds
<1> DEFINE b == <<r, d>>
<1>2. b \in ScheduleId /\ b = <<r, d>> /\ b[1] = r /\ b[2] = d
  BY <1>1
<1> HIDE DEF b
<1> QED
  BY <1>2

LEMMA Dates == Date \subseteq Int /\ Horizon \in Int /\ (today \in Date => today \in Int)
BY CalendarAssumption DEF Date

\* The ride, the date, the link and the decision stay.
SameBus(row, next) ==
    /\ next # None
    /\ next.ride = row.ride /\ next.date = row.date
    /\ next.cancelled = row.cancelled /\ next.exception = row.exception

\* The row a sync makes of the date of a ride that has none.
NewScheduled(tt, records, row, b) ==
    /\ row \in Departure /\ row.ride = b[1] /\ row.date = b[2]
    /\ row.time = tt[b[1]].base[b[2]] /\ ~row.dropped /\ row.exception = None
    /\ row.cancelled <=> Skips(records, b[1], b[2]) # {}

\* The row made of the ADDITIONAL e, at a time t.
NewFor(tt, row, r, d, t, e) ==
    /\ row \in Departure /\ row.ride = r /\ row.date = d /\ row.time = t
    /\ row.exception = e /\ ~row.cancelled
    /\ row.dropped <=> ~RideRuns(tt, r)

LEMMA ProducedType ==
    ASSUME NEW tt \in Timetable, NEW r \in Ride, NEW d \in Date, Produces(tt, r, d),
           NEW cancelled \in BOOLEAN
    PROVE  [Produced(tt, r, d) EXCEPT !.cancelled = cancelled] \in Departure
<1>1. /\ tt[r].base[d] \in Time /\ tt[r].capacity \in Capacity /\ tt[r].path \in Path
  BY DEF Timetable, TimetableRow, Produces
<1>2. Produced(tt, r, d) \in Departure
  BY <1>1 DEF Produced, Departure
<1> QED
  BY <1>2 DEF Departure

LEMMA NewExtraType ==
    ASSUME NEW tt \in Timetable, NEW r \in Ride, NEW d \in Date, NEW t \in Time,
           NEW c \in Capacity, NEW e \in ExceptionId
    PROVE  NewFor(tt, NewExtra(tt, r, d, t, c, e), r, d, t, e)
<1> DEFINE runs == RideRuns(tt, r)
           row == [ride |-> r, date |-> d, time |-> t, capacity |-> c, path |-> tt[r].path,
                   dropped |-> ~runs, cancelled |-> FALSE, exception |-> e]
<1>1. tt[r].path \in Path
  BY DEF Timetable, TimetableRow
<1>2. NewExtra(tt, r, d, t, c, e) = row
  BY DEF NewExtra
<1> HIDE DEF runs
<1>3. /\ row \in Departure /\ row.ride = r /\ row.date = d /\ row.time = t
      /\ row.exception = e /\ ~row.cancelled
      /\ row.dropped <=> ~runs
  BY <1>1 DEF Departure
<1> HIDE DEF row
<1> QED
  BY <1>2, <1>3 DEF NewFor, runs

\* What the creates of a sync leave: a row of its own for every date and
\* every ADDITIONAL that has none, and what was stored as it was.
LEMMA InsertedRows ==
    ASSUME NEW tt \in Timetable, NEW rows \in Rows, NEW records \in Records, NEW t \in Tenant,
           NEW missing, missing = MissingExtras(rows, records, t),
           NEW placed \in Placements(rows, missing),
           NEW next, next = Inserted(tt, rows, records, t, placed)
    PROVE  /\ next \in Rows
           /\ \A b \in MissingScheduled(tt, rows, t) :
                 rows[b] = None /\ NewScheduled(tt, records, next[b], b)
           /\ \A e \in missing :
                 /\ placed[e] \in ExtraId /\ rows[placed[e]] = None
                 /\ NewFor(tt, next[placed[e]], records[e].ride, records[e].date,
                           records[e].time, e)
           /\ \A b \in DepartureId :
                 \/ next[b] = rows[b]
                 \/ b \in MissingScheduled(tt, rows, t)
                 \/ \E e \in missing : placed[e] = b
<1> DEFINE M == MissingScheduled(tt, rows, t)
           New(b) == [Produced(tt, b[1], b[2]) EXCEPT
                         !.cancelled = Skips(records, b[1], b[2]) # {}]
           For(e) == NewExtra(tt, records[e].ride, records[e].date, records[e].time,
                              tt[records[e].ride].capacity, e)
<1>1. /\ placed \in [missing -> Free(ExtraId, rows)]
      /\ \A e, g \in missing : placed[e] = placed[g] => e = g
      /\ DOMAIN placed = missing
  BY DEF Placements
<1>2. \A e \in missing : placed[e] \in ExtraId /\ rows[placed[e]] = None
  BY <1>1 DEF Free
<1>3. \A b \in M : b \in ScheduleId /\ Produces(tt, b[1], b[2]) /\ rows[b] = None
  BY DEF MissingScheduled
<1>4. \A e \in missing :
         /\ e \in ExceptionId /\ records[e] \in Exception
         /\ records[e].time \in Time /\ records[e].ride \in Ride /\ records[e].date \in Date
  <2> SUFFICES ASSUME NEW e \in missing
               PROVE  /\ e \in ExceptionId /\ records[e] \in Exception
                      /\ records[e].time \in Time /\ records[e].ride \in Ride
                      /\ records[e].date \in Date
    OBVIOUS
  <2>1. e \in ExceptionId /\ records[e] # None /\ records[e].time # None
    BY DEF MissingExtras
  <2>2. records[e] \in Exception
    BY <2>1 DEF Records
  <2> QED
    BY <2>1, <2>2 DEF Exception
<1>5. \A b \in DepartureId :
         next[b] = IF b \in M THEN New(b)
                   ELSE IF \E e \in missing : placed[e] = b
                   THEN For(CHOOSE e \in missing : placed[e] = b)
                   ELSE rows[b]
  BY <1>1 DEF Inserted
<1>6. \A b \in M : NewScheduled(tt, records, next[b], b)
  <2> SUFFICES ASSUME NEW b \in M PROVE NewScheduled(tt, records, next[b], b)
    OBVIOUS
  <2> DEFINE skipped == Skips(records, b[1], b[2]) # {}
  <2>1. b \in DepartureId /\ b[1] \in Ride /\ b[2] \in Date
    BY <1>3, DepartureIds
  <2>2. next[b] = [Produced(tt, b[1], b[2]) EXCEPT !.cancelled = skipped]
    BY <1>5, <2>1
  <2>3. skipped \in BOOLEAN
    OBVIOUS
  <2> HIDE DEF skipped
  <2>4. next[b] \in Departure
    BY <1>3, <2>1, <2>2, <2>3, ProducedType
  <2>5. /\ next[b].ride = b[1] /\ next[b].date = b[2] /\ next[b].time = tt[b[1]].base[b[2]]
        /\ next[b].dropped = FALSE /\ next[b].exception = None /\ next[b].cancelled = skipped
    BY <2>2 DEF Produced
  <2> QED
    BY <2>4, <2>5 DEF NewScheduled, skipped
<1>7. \A e \in missing : (CHOOSE g \in missing : placed[g] = placed[e]) = e
  BY <1>1
<1>8. \A e \in missing : NewFor(tt, next[placed[e]], records[e].ride, records[e].date,
                                records[e].time, e)
  <2> SUFFICES ASSUME NEW e \in missing
               PROVE  NewFor(tt, next[placed[e]], records[e].ride, records[e].date,
                             records[e].time, e)
    OBVIOUS
  <2>1. placed[e] \in DepartureId /\ placed[e] \notin M
    BY <1>2, <1>3, DepartureIds
  <2>2. next[placed[e]] = For(e)
    BY <1>5, <1>7, <2>1
  <2>3. tt[records[e].ride].capacity \in Capacity
    BY <1>4 DEF Timetable, TimetableRow
  <2> QED
    BY <1>4, <2>2, <2>3, NewExtraType
<1>9. \A b \in DepartureId :
         \/ next[b] = rows[b]
         \/ b \in M
         \/ \E e \in missing : placed[e] = b
  BY <1>5
<1>10. \A b \in DepartureId : next[b] \in Departure \cup {None}
  BY <1>6, <1>8, <1>9 DEF NewScheduled, NewFor, Rows
<1>11. next \in Rows
  BY <1>10 DEF Inserted, Rows
<1> QED
  BY <1>2, <1>3, <1>6, <1>8, <1>9, <1>11

\* An extra that follows its ride.
LEMMA FollowingRow ==
    ASSUME NEW tt \in Timetable, NEW row \in Departure
    PROVE  /\ Following(tt, row) \in Departure /\ Following(tt, row) # None
           /\ Following(tt, row).ride = row.ride /\ Following(tt, row).date = row.date
           /\ Following(tt, row).time = row.time /\ Following(tt, row).cancelled = row.cancelled
           /\ Following(tt, row).exception = row.exception
           /\ Following(tt, row).dropped <=> ExtraDropped(tt, row)
<1> DEFINE next == Following(tt, row)
           gone == ExtraDropped(tt, row)
           path == tt[row.ride].path
<1>1. next = [row EXCEPT !.path = path, !.dropped = gone]
  BY DEF Following
<1>2. path \in Path /\ gone \in BOOLEAN
  BY DEF Timetable, TimetableRow, Departure, ExtraDropped
<1> HIDE DEF gone, path, next
<1>3. next \in Departure
  BY <1>1, <1>2 DEF Departure
<1>4. /\ next.ride = row.ride /\ next.date = row.date /\ next.time = row.time
      /\ next.cancelled = row.cancelled /\ next.exception = row.exception
      /\ next.dropped = gone
  BY <1>1 DEF Departure
<1> QED
  BY <1>3, <1>4, NoneIsNoRow DEF next, gone

\* What a sync leaves of a row it finds: the decision on it stays; only a
\* timetable departure is retimed, and only one that carries nothing goes.
ShapedFacts(tt, row, references, next, b) ==
    /\ b \in ExtraId =>
          /\ next \in Departure /\ SameBus(row, next) /\ next.time = row.time
          /\ ExtraDropped(tt, row) => next.dropped
          /\ next.dropped => ExtraDropped(tt, row) \/ row.exception = None
    /\ b \in ScheduleId /\ Produces(tt, row.ride, row.date) =>
          /\ next \in Departure /\ SameBus(row, next)
          /\ next.time = tt[row.ride].base[row.date] /\ ~next.dropped
    /\ b \in ScheduleId /\ ~Produces(tt, row.ride, row.date) =>
          \/ /\ next \in Departure /\ SameBus(row, next) /\ next.time = row.time
             /\ next.dropped
          \/ next = None /\ references[b] = None

LEMMA ShapedRow ==
    ASSUME NEW tt \in Timetable, NEW rows, NEW b \in DepartureId, rows[b] \in Departure,
           NEW references
    PROVE  ShapedFacts(tt, rows[b], references, Shaped(tt, rows, references, b), b)
<1> DEFINE row == rows[b]
           next == Shaped(tt, rows, references, b)
<1>1. /\ row.ride \in Ride /\ row.date \in Date /\ row.cancelled \in BOOLEAN
      /\ row.exception \in ExceptionId \cup {None}
  BY DEF Departure
<1>2. CASE b \in ExtraId
  <2>1. next = Following(tt, row)
    BY <1>2 DEF Shaped
  <2>2. b \notin ScheduleId
    BY <1>2, DepartureIds
  <2> QED
    BY <2>1, <2>2, FollowingRow DEF ShapedFacts, SameBus
<1>3. CASE b \in ScheduleId /\ Produces(tt, row.ride, row.date)
  <2> DEFINE made == [Produced(tt, row.ride, row.date) EXCEPT !.cancelled = row.cancelled]
  <2>1. b \notin ExtraId
    BY <1>3, DepartureIds
  <2>2. made \in Departure
    BY <1>1, <1>3, ProducedType
  <2>3. next = [made EXCEPT !.exception = row.exception]
    BY <1>3, <2>1 DEF Shaped, Produced
  <2>4. /\ made.ride = row.ride /\ made.date = row.date /\ made.cancelled = row.cancelled
        /\ made.time = tt[row.ride].base[row.date] /\ made.dropped = FALSE
    BY DEF Produced
  <2> HIDE DEF made, next
  <2>5. next \in Departure
    BY <1>1, <2>2, <2>3 DEF Departure
  <2>6. /\ next.ride = row.ride /\ next.date = row.date /\ next.cancelled = row.cancelled
        /\ next.exception = row.exception /\ next.time = tt[row.ride].base[row.date]
        /\ next.dropped = FALSE
    BY <2>2, <2>3, <2>4 DEF Departure
  <2>7. next # None
    BY <2>5, NoneIsNoRow
  <2> QED
    BY <1>3, <2>1, <2>5, <2>6, <2>7 DEF ShapedFacts, SameBus, next
<1>4. CASE b \in ScheduleId /\ ~Produces(tt, row.ride, row.date)
  <2>1. b \notin ExtraId
    BY <1>4, DepartureIds
  <2>2. CASE Kept(row, references[b])
    <3>1. next = [row EXCEPT !.dropped = TRUE]
      BY <1>4, <2>1, <2>2 DEF Shaped
    <3> HIDE DEF next
    <3>2. next \in Departure
      BY <3>1 DEF Departure
    <3>3. /\ next.ride = row.ride /\ next.date = row.date /\ next.cancelled = row.cancelled
          /\ next.exception = row.exception /\ next.time = row.time /\ next.dropped = TRUE
      BY <3>1 DEF Departure
    <3>4. next # None
      BY <3>2, NoneIsNoRow
    <3> QED
      BY <1>4, <2>1, <3>2, <3>3, <3>4 DEF ShapedFacts, SameBus, next
  <2>3. CASE ~Kept(row, references[b])
    BY <1>4, <2>1, <2>3 DEF Shaped, Kept, ShapedFacts
  <2> QED
    BY <2>2, <2>3
<1> QED
  BY <1>2, <1>3, <1>4, DepartureIds

\* What a sync of tenant t leaves of the rows it reads.
SyncedAs(tt, rows, records, references, t, placed, next) ==
    LET missing == MissingExtras(rows, records, t)
    IN  /\ \A b \in MissingScheduled(tt, rows, t) :
              rows[b] = None /\ NewScheduled(tt, records, next[b], b)
        /\ \A e \in missing :
              /\ placed[e] \in ExtraId /\ rows[placed[e]] = None
              /\ NewFor(tt, next[placed[e]], records[e].ride, records[e].date,
                        records[e].time, e)
        /\ \A b \in DepartureId :
              \/ InReach(rows, t, b) /\ ShapedFacts(tt, rows[b], references, next[b], b)
              \/ ~InReach(rows, t, b) /\ next[b] = rows[b]
              \/ b \in MissingScheduled(tt, rows, t)
              \/ \E e \in missing : placed[e] = b

LEMMA SyncedRows ==
    ASSUME NEW tt \in Timetable, NEW rows \in Rows, NEW records \in Records, NEW references,
           NEW t \in Tenant,
           NEW placed \in Placements(rows, MissingExtras(rows, records, t))
    PROVE  /\ Synced(tt, rows, records, references, t, placed) \in Rows
           /\ SyncedAs(tt, rows, records, references, t, placed,
                       Synced(tt, rows, records, references, t, placed))
<1> DEFINE missing == MissingExtras(rows, records, t)
           created == Inserted(tt, rows, records, t, placed)
           next == Synced(tt, rows, records, references, t, placed)
<1>1. /\ created \in Rows
      /\ \A b \in MissingScheduled(tt, rows, t) :
            rows[b] = None /\ NewScheduled(tt, records, created[b], b)
      /\ \A e \in missing :
            /\ placed[e] \in ExtraId /\ rows[placed[e]] = None
            /\ NewFor(tt, created[placed[e]], records[e].ride, records[e].date,
                      records[e].time, e)
      /\ \A b \in DepartureId :
            \/ created[b] = rows[b]
            \/ b \in MissingScheduled(tt, rows, t)
            \/ \E e \in missing : placed[e] = b
  BY InsertedRows
<1>2. \A b \in DepartureId : InReach(rows, t, b) =>
         rows[b] \in Departure /\ next[b] = Shaped(tt, rows, references, b)
  BY DEF Synced, InReach, Rows
<1>3. \A b \in DepartureId : ~InReach(rows, t, b) => next[b] = created[b]
  BY DEF Synced
<1>4. \A b \in DepartureId : rows[b] = None => ~InReach(rows, t, b)
  BY DEF InReach
<1>5. MissingScheduled(tt, rows, t) \subseteq DepartureId /\ ExtraId \subseteq DepartureId
  BY DepartureIds DEF MissingScheduled
<1>6. \A b \in DepartureId : InReach(rows, t, b) =>
         ShapedFacts(tt, rows[b], references, next[b], b)
  BY <1>2, ShapedRow
<1>7. next \in Rows
  <2>1. \A b \in DepartureId : next[b] \in Departure \cup {None}
    <3> SUFFICES ASSUME NEW b \in DepartureId PROVE next[b] \in Departure \cup {None}
      OBVIOUS
    <3>1. CASE InReach(rows, t, b)
      BY <1>6, <3>1, DepartureIds DEF ShapedFacts
    <3>2. CASE ~InReach(rows, t, b)
      BY <1>1, <1>3, <3>2 DEF Rows
    <3> QED
      BY <3>1, <3>2
  <2> QED
    BY <2>1 DEF Synced, Rows
<1> HIDE DEF created, next, missing
<1>8. /\ \A b \in MissingScheduled(tt, rows, t) :
            rows[b] = None /\ NewScheduled(tt, records, next[b], b)
      /\ \A e \in missing :
            /\ placed[e] \in ExtraId /\ rows[placed[e]] = None
            /\ NewFor(tt, next[placed[e]], records[e].ride, records[e].date,
                      records[e].time, e)
  BY <1>1, <1>3, <1>4, <1>5
<1>9. \A b \in DepartureId :
         \/ InReach(rows, t, b) /\ ShapedFacts(tt, rows[b], references, next[b], b)
         \/ ~InReach(rows, t, b) /\ next[b] = rows[b]
         \/ b \in MissingScheduled(tt, rows, t)
         \/ \E e \in missing : placed[e] = b
  BY <1>1, <1>3, <1>6
<1> QED
  BY <1>7, <1>8, <1>9 DEF SyncedAs, next, missing

LEMMA RowType ==
    ASSUME NEW rows \in Rows, NEW b \in DepartureId, rows[b] # None
    PROVE  /\ rows[b] \in Departure
           /\ rows[b].ride \in Ride /\ rows[b].date \in Date /\ rows[b].time \in Time
           /\ rows[b].exception \in ExceptionId \cup {None}
           /\ rows[b].cancelled \in BOOLEAN /\ rows[b].dropped \in BOOLEAN
<1>1. rows[b] \in Departure
  BY DEF Rows
<1> QED
  BY <1>1 DEF Departure

\* An ADDITIONAL of tenant t that asks for a bus in the window.
Wanted(records, t, e) ==
    /\ records[e] # None
    /\ records[e].type = "ADDITIONAL" /\ records[e].time # None
    /\ TenantOf[records[e].ride] = t /\ records[e].date \in DepartureWindow

Served(rows, t, e) == \E x \in ExtraId : InReach(rows, t, x) /\ rows[x].exception = e

LEMMA MissingIsUnserved ==
    ASSUME NEW rows, NEW records, NEW t, NEW e
    PROVE  e \in MissingExtras(rows, records, t)
              <=> e \in ExceptionId /\ Wanted(records, t, e) /\ ~Served(rows, t, e)
BY DEF MissingExtras, Wanted, Served, LinkedTo, InReach

LEMMA AllServed ==
    ASSUME NEW rows, NEW records, NEW t,
           \A e \in ExceptionId : Wanted(records, t, e) => Served(rows, t, e)
    PROVE  MissingExtras(rows, records, t) = {}
BY MissingIsUnserved DEF MissingExtras

\* Where a departure found after a sync comes from.
LEMMA SyncedFrom ==
    ASSUME NEW tt, NEW rows, NEW records, NEW references, NEW t, NEW placed, NEW next,
           SyncedAs(tt, rows, records, references, t, placed, next),
           NEW b \in DepartureId, next[b] # None
    PROVE  \/ /\ rows[b] # None /\ SameBus(rows[b], next[b])
              /\ \/ InReach(rows, t, b) /\ ShapedFacts(tt, rows[b], references, next[b], b)
                 \/ ~InReach(rows, t, b) /\ next[b] = rows[b]
           \/ /\ rows[b] = None
              /\ b \in MissingScheduled(tt, rows, t) /\ NewScheduled(tt, records, next[b], b)
           \/ /\ rows[b] = None /\ b \in ExtraId
              /\ \E e \in MissingExtras(rows, records, t) :
                    NewFor(tt, next[b], records[e].ride, records[e].date, records[e].time, e)
<1>1. CASE InReach(rows, t, b) /\ ShapedFacts(tt, rows[b], references, next[b], b)
  <2>1. SameBus(rows[b], next[b])
    BY <1>1, DepartureIds DEF ShapedFacts
  <2> QED
    BY <1>1, <2>1 DEF InReach
<1>2. CASE ~InReach(rows, t, b) /\ next[b] = rows[b]
  BY <1>2 DEF SameBus
<1>3. CASE b \in MissingScheduled(tt, rows, t)
  BY <1>3 DEF SyncedAs
<1>4. CASE \E e \in MissingExtras(rows, records, t) : placed[e] = b
  BY <1>4 DEF SyncedAs
<1> QED
  BY <1>1, <1>2, <1>3, <1>4 DEF SyncedAs

LEMMA SyncRowsOK ==
    ASSUME NEW tt \in Timetable, NEW rows \in Rows, NEW records \in Records,
           NEW references \in References, NEW t \in Tenant, NEW placed, NEW next \in Rows,
           today \in Date,
           SyncedAs(tt, rows, records, references, t, placed, next),
           RowsOK(rows, records, references)
    PROVE  RowsOK(next, records, Recopied(references, rows, next))
<1>1. Filed(next)
  <2> SUFFICES ASSUME NEW b \in ScheduleId, next[b] # None
               PROVE  /\ next[b].ride = b[1] /\ next[b].date = b[2]
                      /\ next[b].exception = None
    BY DEF Filed
  <2>1. b \in DepartureId /\ b \notin ExtraId
    BY DepartureIds
  <2>2. \/ rows[b] # None /\ SameBus(rows[b], next[b])
        \/ NewScheduled(tt, records, next[b], b)
    BY <2>1, SyncedFrom
  <2> QED
    BY <2>2 DEF RowsOK, Filed, SameBus, NewScheduled
<1>2. WithinHorizon(next)
  <2> SUFFICES ASSUME NEW b \in DepartureId, next[b] # None
               PROVE  next[b].date <= today + Horizon
    BY DEF WithinHorizon
  <2>1. CASE rows[b] # None /\ SameBus(rows[b], next[b])
    BY <2>1 DEF RowsOK, WithinHorizon, SameBus
  <2>2. CASE b \in MissingScheduled(tt, rows, t) /\ NewScheduled(tt, records, next[b], b)
    BY <2>2 DEF MissingScheduled, DepartureWindow, NewScheduled
  <2>3. ASSUME NEW e \in MissingExtras(rows, records, t),
               NewFor(tt, next[b], records[e].ride, records[e].date, records[e].time, e)
        PROVE  next[b].date <= today + Horizon
    BY <2>3 DEF MissingExtras, DepartureWindow, NewFor
  <2> QED
    BY <2>1, <2>2, <2>3, SyncedFrom
<1>3. LinksAgree(next, records)
  <2> SUFFICES ASSUME NEW x \in ExtraId, next[x] # None
               PROVE  LinkAgrees(next[x], records)
    BY DEF LinksAgree
  <2>1. x \in DepartureId /\ x \notin ScheduleId
    BY DepartureIds
  <2>2. x \notin MissingScheduled(tt, rows, t)
    BY <2>1 DEF MissingScheduled
  <2>3. CASE rows[x] # None /\ SameBus(rows[x], next[x])
             /\ \/ ShapedFacts(tt, rows[x], references, next[x], x)
                \/ next[x] = rows[x]
    <3>1. rows[x].exception = None /\ ~rows[x].cancelled /\ rows[x].dropped => next[x].dropped
      BY <2>3 DEF ShapedFacts, ExtraDropped
    <3> QED
      BY <2>3, <3>1 DEF RowsOK, LinksAgree, LinkAgrees, SameBus
  <2>4. ASSUME NEW e \in MissingExtras(rows, records, t),
               NewFor(tt, next[x], records[e].ride, records[e].date, records[e].time, e)
        PROVE  /\ next[x].exception = e /\ e # None /\ ~next[x].cancelled
               /\ records[e] # None /\ records[e].type = "ADDITIONAL" /\ records[e].time # None
               /\ records[e].ride = next[x].ride /\ records[e].date = next[x].date
    BY <2>4, NoneIsNoRow DEF MissingExtras, NewFor
  <2> QED
    BY <2>1, <2>2, <2>3, <2>4, SyncedFrom DEF LinkAgrees
<1>4. SkipsApplied(next, records)
  <2> SUFFICES ASSUME NEW b \in ScheduleId, next[b] # None, b[2] \in DepartureWindow
               PROVE  next[b].cancelled <=> Skips(records, b[1], b[2]) # {}
    BY DEF SkipsApplied
  <2>1. b \in DepartureId /\ b \notin ExtraId
    BY DepartureIds
  <2>2. \/ rows[b] # None /\ SameBus(rows[b], next[b])
        \/ NewScheduled(tt, records, next[b], b)
    BY <2>1, SyncedFrom
  <2> QED
    BY <2>2 DEF RowsOK, SkipsApplied, SameBus, NewScheduled
<1>5. CopiesTell(next, Recopied(references, rows, next))
  <2> DEFINE copies == Recopied(references, rows, next)
  <2> SUFFICES ASSUME NEW b \in DepartureId, copies[b] # None
               PROVE  next[b] # None /\ next[b].time = copies[b]
    BY DEF CopiesTell
  <2>1. references[b] # None
    BY DEF Recopied
  <2>2. rows[b] # None /\ rows[b].time = references[b]
    BY <2>1 DEF RowsOK, CopiesTell
  <2>3. next[b] # None
    <3>1. b \notin MissingScheduled(tt, rows, t)
      BY <2>2 DEF MissingScheduled
    <3>2. ~\E e \in MissingExtras(rows, records, t) : placed[e] = b
      BY <2>2 DEF SyncedAs
    <3>3. \/ ShapedFacts(tt, rows[b], references, next[b], b)
          \/ next[b] = rows[b]
      BY <3>1, <3>2 DEF SyncedAs
    <3> QED
      BY <2>1, <2>2, <3>3, DepartureIds DEF ShapedFacts, SameBus
  <2> QED
    BY <2>1, <2>2, <2>3 DEF Recopied
<1> QED
  BY <1>1, <1>2, <1>3, <1>4, <1>5 DEF RowsOK

\* Only rows of tenant t differ.
OnlyOf(S, old, new, t) ==
    \A i \in S : old[i] # new[i] =>
        /\ old[i] # None => TenantOf[old[i].ride] = t
        /\ new[i] # None => TenantOf[new[i].ride] = t

\* The row made of an ADDITIONAL serves it.
LEMMA NewServes ==
    ASSUME NEW tt, NEW rows, NEW records, NEW next, NEW t,
           NEW e \in MissingExtras(rows, records, t), NEW x \in ExtraId,
           NewFor(tt, next[x], records[e].ride, records[e].date, records[e].time, e)
    PROVE  Served(next, t, e)
<1>1. next[x] # None
  BY NoneIsNoRow DEF NewFor
<1> QED
  BY <1>1 DEF MissingExtras, NewFor, Served, InReach

LEMMA SyncFollows ==
    ASSUME NEW tt \in Timetable, NEW old \in Timetable, NEW before \in Rows,
           NEW rows \in Rows, NEW records \in Records, NEW references, NEW t \in Tenant,
           NEW placed, NEW next \in Rows,
           SyncedAs(tt, rows, records, references, t, placed, next),
           Filed(rows), Filed(next), Follows(old, before), OnlyOf(DepartureId, before, rows, t),
           \A r \in Ride : TenantOf[r] # t => tt[r] = old[r]
    PROVE  Follows(tt, next)
<1> SUFFICES ASSUME NEW b \in DepartureId, next[b] # None, next[b].date \in DepartureWindow
             PROVE  RowFollows(tt, next, b)
  BY DEF Follows
<1>1. CASE InReach(rows, t, b) /\ ShapedFacts(tt, rows[b], references, next[b], b)
  <2>1. CASE b \in ScheduleId
    <3>1. rows[b].ride = b[1] /\ rows[b].date = b[2]
      BY <1>1, <2>1 DEF Filed, InReach
    <3> QED
      BY <1>1, <2>1, <3>1 DEF ShapedFacts, RowFollows, ExtraFollows
  <2>2. CASE b \in ExtraId
    BY <1>1, <2>2, DepartureIds DEF ShapedFacts, RowFollows, ExtraFollows, ExtraDropped, SameBus
  <2> QED
    BY <2>1, <2>2, DepartureIds
<1>2. CASE rows[b] # None /\ ~InReach(rows, t, b) /\ next[b] = rows[b]
  <2>1. TenantOf[rows[b].ride] # t
    BY <1>2 DEF InReach
  <2>2. before[b] = rows[b]
    BY <1>2, <2>1 DEF OnlyOf
  <2>3. RowFollows(old, before, b)
    BY <1>2, <2>2 DEF Follows
  <2>4. tt[rows[b].ride] = old[rows[b].ride] /\ (b \in ScheduleId => rows[b].ride = b[1])
    BY <1>2, <2>1, RowType DEF Filed
  <2> QED
    BY <1>2, <2>2, <2>3, <2>4 DEF RowFollows, ExtraFollows, Produces, RideRuns
<1>3. CASE b \in MissingScheduled(tt, rows, t) /\ NewScheduled(tt, records, next[b], b)
  BY <1>3 DEF MissingScheduled, NewScheduled, RowFollows, ExtraFollows
<1>4. ASSUME b \in ExtraId, NEW e \in MissingExtras(rows, records, t),
             NewFor(tt, next[b], records[e].ride, records[e].date, records[e].time, e)
      PROVE  RowFollows(tt, next, b)
  BY <1>4, DepartureIds DEF NewFor, RowFollows, ExtraFollows
<1> QED
  BY <1>1, <1>2, <1>3, <1>4, SyncedFrom

LEMMA SyncCompletes ==
    ASSUME NEW tt \in Timetable, NEW rows \in Rows, NEW records \in Records, NEW references,
           NEW t \in Tenant, NEW placed, NEW next \in Rows,
           SyncedAs(tt, rows, records, references, t, placed, next), Filed(rows)
    PROVE  Complete(tt, next, records, t)
<1>1. MissingScheduled(tt, next, t) = {}
  <2> SUFFICES ASSUME NEW b \in ScheduleId, TenantOf[b[1]] = t, b[2] \in DepartureWindow,
                      Produces(tt, b[1], b[2])
               PROVE  next[b] # None
    BY DEF MissingScheduled
  <2>1. b \in DepartureId
    BY DepartureIds
  <2>2. CASE rows[b] = None
    <3>1. b \in MissingScheduled(tt, rows, t)
      BY <2>2 DEF MissingScheduled
    <3> QED
      BY <3>1, NoneIsNoRow DEF SyncedAs, NewScheduled
  <2>3. CASE rows[b] # None
    <3>1. rows[b].ride = b[1] /\ rows[b].date = b[2]
      BY <2>3 DEF Filed
    <3>2. InReach(rows, t, b)
      BY <2>3, <3>1 DEF InReach
    <3>3. b \notin MissingScheduled(tt, rows, t)
      BY <2>3 DEF MissingScheduled
    <3>4. ~\E e \in MissingExtras(rows, records, t) : placed[e] = b
      BY <2>3 DEF SyncedAs
    <3>5. ShapedFacts(tt, rows[b], references, next[b], b)
      BY <2>1, <3>2, <3>3, <3>4 DEF SyncedAs
    <3> QED
      BY <3>1, <3>5 DEF ShapedFacts, SameBus
  <2> QED
    BY <2>2, <2>3
<1>2. MissingExtras(next, records, t) = {}
  <2> SUFFICES ASSUME NEW e \in ExceptionId, Wanted(records, t, e) PROVE Served(next, t, e)
    BY MissingIsUnserved DEF MissingExtras
  <2>1. CASE Served(rows, t, e)
    <3>1. PICK x \in ExtraId : InReach(rows, t, x) /\ rows[x].exception = e
      BY <2>1 DEF Served
    <3>2. x \in DepartureId /\ x \notin ScheduleId /\ rows[x] # None
      BY <3>1, DepartureIds DEF InReach
    <3>3. x \notin MissingScheduled(tt, rows, t)
      BY <3>2 DEF MissingScheduled
    <3>4. ~\E g \in MissingExtras(rows, records, t) : placed[g] = x
      BY <3>2 DEF SyncedAs
    <3>5. SameBus(rows[x], next[x])
      BY <3>1, <3>2, <3>3, <3>4 DEF SyncedAs, ShapedFacts, SameBus
    <3> QED
      BY <3>1, <3>5 DEF SameBus, InReach, Served
  <2>2. CASE ~Served(rows, t, e)
    <3>1. e \in MissingExtras(rows, records, t)
      BY <2>2, MissingIsUnserved
    <3>2. /\ placed[e] \in ExtraId
          /\ NewFor(tt, next[placed[e]], records[e].ride, records[e].date, records[e].time, e)
      BY <3>1 DEF SyncedAs
    <3> QED
      BY <3>1, <3>2, NewServes
  <2> QED
    BY <2>1, <2>2
<1> QED
  BY <1>1, <1>2 DEF Complete

\* A tenant whose rows, records and rides stay is missing nothing new.
LEMMA CompleteStays ==
    ASSUME NEW tt \in Timetable, NEW old \in Timetable, NEW before \in Rows,
           NEW rows \in Rows, NEW known \in Records, NEW records \in Records, NEW t \in Tenant,
           Filed(before),
           \A r \in Ride : TenantOf[r] = t => tt[r] = old[r],
           \A b \in DepartureId : before[b] # None /\ TenantOf[before[b].ride] = t =>
              rows[b] = before[b],
           \A e \in ExceptionId : records[e] # None /\ TenantOf[records[e].ride] = t =>
              known[e] = records[e],
           Complete(old, before, known, t)
    PROVE  Complete(tt, rows, records, t)
<1>1. MissingScheduled(tt, rows, t) = {}
  <2> SUFFICES ASSUME NEW b \in ScheduleId, TenantOf[b[1]] = t, b[2] \in DepartureWindow,
                      Produces(tt, b[1], b[2])
               PROVE  rows[b] # None
    BY DEF MissingScheduled
  <2>1. b \in DepartureId /\ b[1] \in Ride
    BY DepartureIds
  <2>2. Produces(old, b[1], b[2])
    BY <2>1 DEF Produces, RideRuns
  <2>3. before[b] # None
    BY <2>2 DEF Complete, MissingScheduled
  <2> QED
    BY <2>1, <2>3 DEF Filed
<1>2. MissingExtras(rows, records, t) = {}
  <2> SUFFICES ASSUME NEW e \in ExceptionId, Wanted(records, t, e) PROVE Served(rows, t, e)
    BY MissingIsUnserved DEF MissingExtras
  <2>1. Wanted(known, t, e)
    BY DEF Wanted
  <2>2. Served(before, t, e)
    BY <2>1, MissingIsUnserved DEF Complete
  <2> QED
    BY <2>2, DepartureIds DEF Served, InReach
<1> QED
  BY <1>1, <1>2 DEF Complete

-----------------------------------------------------------------------------
(* Steps within a day *)

\* While the agency's date stays, the invariant holds of what a step leaves.
LEMMA WithinTheDay ==
    ASSUME timetable' \in Timetable, departure' \in Rows, exception' \in Records,
           copy' \in References, today \in Date, today' = today,
           night' \in [left: SUBSET Tenant, failed: SUBSET Tenant, begun: BOOLEAN],
           RowsOK(departure', exception', copy'),
           Follows(timetable', departure'),
           night'.begun => \A u \in Tenant \ (night'.left \cup night'.failed) :
                              Complete(timetable', departure', exception', u)
    PROVE  Inv'
<1>1. DepartureWindow' = DepartureWindow
  BY DEF DepartureWindow
<1>2. TypeOK'
  BY DEF TypeOK, Timetable, Rows, Records, References
<1>3. Filed(departure)' /\ WithinHorizon(departure)' /\ CopiesTell(departure, copy)'
  BY DEF RowsOK, Filed, WithinHorizon, CopiesTell
<1>4. LinksAgree(departure, exception)'
  BY DEF RowsOK, LinksAgree, LinkAgrees
<1>5. SkipsApplied(departure, exception)'
  BY <1>1 DEF RowsOK, SkipsApplied, Skips
<1>6. Follows(timetable, departure)'
  BY <1>1 DEF Follows, RowFollows, ExtraFollows, Produces, RideRuns
<1>7. \A u \in Tenant : Complete(timetable', departure', exception', u) => NothingMissing(u)'
  BY <1>1 DEF Complete, NothingMissing, MissingScheduled, MissingExtras, LinkedTo, InReach,
              Produces, RideRuns
<1>8. NightServes'
  BY <1>7 DEF NightServes
<1> QED
  BY <1>2, <1>3, <1>4, <1>5, <1>6, <1>8 DEF Inv, RowsOK

LEMMA RecopiedType ==
    ASSUME NEW rows \in Rows, NEW next \in Rows, NEW references \in References
    PROVE  Recopied(references, rows, next) \in References
<1>1. \A b \in DepartureId : next[b] # None => next[b].time \in Time
  BY RowType
<1> QED
  BY <1>1 DEF Recopied, References

\* A full sync of tenant t restores the invariant after any edit of that
\* tenant's rows, records and rides that leaves the rows in order.
LEMMA SyncKeeps ==
    ASSUME Inv, NEW tt \in Timetable, NEW rows \in Rows, NEW records \in Records,
           NEW t \in Tenant,
           \A r \in Ride : TenantOf[r] # t => tt[r] = timetable[r],
           RowsOK(rows, records, copy),
           OnlyOf(DepartureId, departure, rows, t), OnlyOf(ExceptionId, exception, records, t),
           FullSync(tt, rows, records, t), UNCHANGED <<today, night>>
    PROVE  Inv'
<1>1. PICK placed \in Placements(rows, MissingExtras(rows, records, t)) :
         /\ departure' = Synced(tt, rows, records, copy, t, placed)
         /\ copy' = Recopied(copy, rows, departure')
         /\ timetable' = tt /\ exception' = records
  BY DEF FullSync
<1>2. PICK next : next = departure'
  OBVIOUS
<1>3. next \in Rows /\ SyncedAs(tt, rows, records, copy, t, placed, next)
  BY <1>1, <1>2, SyncedRows
<1>4. /\ timetable \in Timetable /\ departure \in Rows /\ exception \in Records
      /\ copy \in References /\ today \in Date
      /\ night \in [left: SUBSET Tenant, failed: SUBSET Tenant, begun: BOOLEAN]
  BY DEF Inv, TypeOK, Timetable, Rows, Records, References
<1>5. RowsOK(next, records, Recopied(copy, rows, next))
  BY <1>3, <1>4, SyncRowsOK
<1>6. Follows(tt, next)
  BY <1>3, <1>4, <1>5, SyncFollows DEF Inv, RowsOK
<1>7. ASSUME NEW u \in Tenant, NothingMissing(u)
      PROVE  Complete(tt, next, records, u)
  <2>1. CASE u = t
    BY <1>3, <2>1, SyncCompletes DEF RowsOK
  <2>2. CASE u # t
    <3>1. ASSUME NEW b \in DepartureId, departure[b] # None, TenantOf[departure[b].ride] = u
          PROVE  next[b] = departure[b]
      <4>1. rows[b] = departure[b]
        BY <2>2, <3>1 DEF OnlyOf
      <4>2. ~InReach(rows, t, b) /\ b \notin MissingScheduled(tt, rows, t)
        BY <2>2, <3>1, <4>1 DEF InReach, MissingScheduled
      <4>3. ~\E e \in MissingExtras(rows, records, t) : placed[e] = b
        BY <1>3, <3>1, <4>1 DEF SyncedAs
      <4> QED
        BY <1>3, <4>1, <4>2, <4>3 DEF SyncedAs
    <3>2. \A e \in ExceptionId : records[e] # None /\ TenantOf[records[e].ride] = u =>
             exception[e] = records[e]
      BY <2>2 DEF OnlyOf
    <3>3. \A r \in Ride : TenantOf[r] = u => tt[r] = timetable[r]
      BY <2>2
    <3>4. Complete(timetable, departure, exception, u)
      BY <1>7 DEF NothingMissing, Complete
    <3>5. Filed(departure)
      BY DEF Inv, RowsOK
    <3> QED
      BY <1>3, <1>4, <3>1, <3>2, <3>3, <3>4, <3>5, CompleteStays
  <2> QED
    BY <2>1, <2>2
<1>8. night'.begun => \A u \in Tenant \ (night'.left \cup night'.failed) :
                         Complete(tt, next, records, u)
  BY <1>7 DEF Inv, NightServes
<1>9. Recopied(copy, rows, next) \in References
  BY <1>3, <1>4, RecopiedType
<1> QED
  BY <1>1, <1>2, <1>3, <1>4, <1>5, <1>6, <1>8, <1>9, WithinTheDay

\* An endpoint that runs no sync keeps the invariant where the rows it leaves
\* are in order and follow the timetable, and every bus of a date and every
\* served ADDITIONAL it does not take away is still there.
LEMMA EndpointKeeps ==
    ASSUME Inv, NEW rows \in Rows, NEW records \in Records, NEW references \in References,
           departure' = rows, exception' = records, copy' = references,
           UNCHANGED <<timetable, today, night>>,
           RowsOK(rows, records, references), Follows(timetable, rows),
           \A b \in ScheduleId : departure[b] # None => rows[b] # None,
           \A u \in Tenant, e \in ExceptionId : Wanted(records, u, e) =>
              \/ Served(rows, u, e)
              \/ Wanted(exception, u, e) /\ ~Served(departure, u, e)
    PROVE  Inv'
<1>1. /\ timetable \in Timetable /\ today \in Date
      /\ night \in [left: SUBSET Tenant, failed: SUBSET Tenant, begun: BOOLEAN]
  BY DEF Inv, TypeOK, Timetable
<1>2. ASSUME NEW u \in Tenant, NothingMissing(u)
      PROVE  Complete(timetable, rows, records, u)
  <2>1. MissingScheduled(timetable, rows, u) = {}
    BY <1>2, DepartureIds DEF NothingMissing, MissingScheduled
  <2>2. MissingExtras(rows, records, u) = {}
    <3> SUFFICES ASSUME NEW e \in ExceptionId, Wanted(records, u, e) PROVE Served(rows, u, e)
      BY AllServed
    <3>1. ~(Wanted(exception, u, e) /\ ~Served(departure, u, e))
      BY <1>2, MissingIsUnserved DEF NothingMissing
    <3> QED
      BY <3>1
  <2> QED
    BY <2>1, <2>2 DEF Complete
<1>3. night'.begun => \A u \in Tenant \ (night'.left \cup night'.failed) :
                         Complete(timetable, rows, records, u)
  BY <1>2 DEF Inv, NightServes
<1> QED
  BY <1>1, <1>3, WithinTheDay

-----------------------------------------------------------------------------
(* Cancelling and restoring a bus of the timetable *)

\* The bus, its run and its link stay; the decision is c.
Redecided(row, next, c) ==
    /\ next \in Departure /\ next # None
    /\ next.ride = row.ride /\ next.date = row.date /\ next.time = row.time
    /\ next.dropped = row.dropped /\ next.exception = row.exception
    /\ next.cancelled = c

LEMMA RedecidedRow ==
    ASSUME NEW row \in Departure, NEW c \in BOOLEAN
    PROVE  Redecided(row, [row EXCEPT !.cancelled = c], c)
<1> DEFINE next == [row EXCEPT !.cancelled = c]
<1>1. next \in Departure
  BY DEF Departure
<1>2. /\ next.ride = row.ride /\ next.date = row.date /\ next.time = row.time
      /\ next.dropped = row.dropped /\ next.exception = row.exception /\ next.cancelled = c
  BY DEF Departure
<1> QED
  BY <1>1, <1>2, NoneIsNoRow DEF Redecided

\* The bus of a ride and date, where it is stored, takes a decision.
Marked(rows, b, c) ==
    IF rows[b] = None THEN rows ELSE [rows EXCEPT ![b].cancelled = c]

LEMMA MarkedRows ==
    ASSUME NEW rows \in Rows, NEW b \in ScheduleId, NEW c \in BOOLEAN
    PROVE  /\ Marked(rows, b, c) \in Rows
           /\ \A a \in DepartureId : a # b \/ rows[b] = None => Marked(rows, b, c)[a] = rows[a]
           /\ rows[b] # None => Redecided(rows[b], Marked(rows, b, c)[b], c)
<1>1. b \in DepartureId
  BY DepartureIds
<1>2. CASE rows[b] = None
  BY <1>2 DEF Marked
<1>3. CASE rows[b] # None
  <2>1. rows[b] \in Departure
    BY <1>1, <1>3 DEF Rows
  <2>2. PICK row : row = [rows[b] EXCEPT !.cancelled = c]
    OBVIOUS
  <2>3. Redecided(rows[b], row, c)
    BY <2>1, <2>2, RedecidedRow
  <2>4. Marked(rows, b, c) = [rows EXCEPT ![b] = row]
    BY <1>3, <2>2 DEF Marked
  <2>5. row \in Departure
    BY <2>3 DEF Redecided
  <2>6. Marked(rows, b, c) \in Rows
    BY <2>4, <2>5 DEF Rows
  <2>7. Marked(rows, b, c)[b] = row
    BY <1>1, <2>4 DEF Rows
  <2>8. \A a \in DepartureId : a # b => Marked(rows, b, c)[a] = rows[a]
    BY <2>4 DEF Rows
  <2> QED
    BY <1>3, <2>3, <2>6, <2>7, <2>8
<1> QED
  BY <1>2, <1>3

\* The records of the SKIP of a date and nothing else differ.
SkipsDiffer(records, next, b) ==
    /\ \A a \in ScheduleId : a # b =>
          (Skips(next, a[1], a[2]) = {} <=> Skips(records, a[1], a[2]) = {})
    /\ \A e \in ExceptionId : records[e] # None /\ records[e].type = "ADDITIONAL" =>
          next[e] = records[e]
    /\ \A e \in ExceptionId : next[e] # None /\ next[e].type = "ADDITIONAL" =>
          records[e] = next[e]
    /\ \A e \in ExceptionId : records[e] # next[e] =>
          /\ records[e] # None => records[e].ride = b[1]
          /\ next[e] # None => next[e].ride = b[1]

LEMMA SkipRecord ==
    ASSUME NEW records \in Records, NEW b \in ScheduleId, NEW e \in Free(ExceptionId, records),
           NEW next, next = [records EXCEPT ![e] = [ride |-> b[1], date |-> b[2],
                                                    type |-> "SKIP", time |-> None]]
    PROVE  next \in Records /\ SkipsDiffer(records, next, b) /\ Skips(next, b[1], b[2]) # {}
<1> DEFINE skip == [ride |-> b[1], date |-> b[2], type |-> "SKIP", time |-> None]
<1>1. e \in ExceptionId /\ records[e] = None
  BY DEF Free
<1>2. /\ skip \in Exception /\ skip.ride = b[1] /\ skip.date = b[2] /\ skip.type = "SKIP"
  BY DepartureIds DEF Exception
<1>3. skip # None
  BY <1>2, NoneIsNoRow
<1>4. next = [records EXCEPT ![e] = skip]
  OBVIOUS
<1> HIDE DEF skip
<1>5. next \in Records
  BY <1>2, <1>4 DEF Records
<1>6. \A g \in ExceptionId : next[g] = IF g = e THEN skip ELSE records[g]
  BY <1>4 DEF Records
<1>7. Skips(next, b[1], b[2]) # {}
  BY <1>1, <1>2, <1>3, <1>6 DEF Skips
<1>8. \A a \in ScheduleId : a # b =>
         (Skips(next, a[1], a[2]) = {} <=> Skips(records, a[1], a[2]) = {})
  <2> SUFFICES ASSUME NEW a \in ScheduleId, a # b
               PROVE  Skips(next, a[1], a[2]) = {} <=> Skips(records, a[1], a[2]) = {}
    OBVIOUS
  <2>1. ~(a[1] = b[1] /\ a[2] = b[2])
    BY DepartureIds
  <2> QED
    BY <1>1, <1>2, <1>6, <2>1 DEF Skips
<1>9. /\ \A g \in ExceptionId : records[g] # None /\ records[g].type = "ADDITIONAL" =>
            next[g] = records[g]
      /\ \A g \in ExceptionId : next[g] # None /\ next[g].type = "ADDITIONAL" =>
            records[g] = next[g]
      /\ \A g \in ExceptionId : records[g] # next[g] =>
            /\ records[g] # None => records[g].ride = b[1]
            /\ next[g] # None => next[g].ride = b[1]
  BY <1>1, <1>2, <1>6
<1> QED
  BY <1>5, <1>7, <1>8, <1>9 DEF SkipsDiffer

LEMMA SkipRecordsGo ==
    ASSUME NEW records \in Records, NEW b \in ScheduleId,
           NEW next, next = Without(records, Skips(records, b[1], b[2]))
    PROVE  next \in Records /\ SkipsDiffer(records, next, b) /\ Skips(next, b[1], b[2]) = {}
<1>1. \A g \in ExceptionId :
         next[g] = IF /\ records[g] # None /\ records[g].type = "SKIP"
                      /\ records[g].ride = b[1] /\ records[g].date = b[2]
                   THEN None ELSE records[g]
  BY DEF Without, Skips
<1>2. next \in Records
  BY <1>1 DEF Records, Without
<1>3. Skips(next, b[1], b[2]) = {}
  BY <1>1 DEF Skips
<1>4. \A a \in ScheduleId : a # b =>
         (Skips(next, a[1], a[2]) = {} <=> Skips(records, a[1], a[2]) = {})
  <2> SUFFICES ASSUME NEW a \in ScheduleId, a # b
               PROVE  Skips(next, a[1], a[2]) = {} <=> Skips(records, a[1], a[2]) = {}
    OBVIOUS
  <2>1. ~(a[1] = b[1] /\ a[2] = b[2])
    BY DepartureIds
  <2> QED
    BY <1>1, <2>1 DEF Skips
<1>5. /\ \A g \in ExceptionId : records[g] # None /\ records[g].type = "ADDITIONAL" =>
            next[g] = records[g]
      /\ \A g \in ExceptionId : next[g] # None /\ next[g].type = "ADDITIONAL" =>
            records[g] = next[g]
      /\ \A g \in ExceptionId : records[g] # next[g] =>
            /\ records[g] # None => records[g].ride = b[1]
            /\ next[g] # None => next[g].ride = b[1]
  BY <1>1
<1> QED
  BY <1>2, <1>3, <1>4, <1>5 DEF SkipsDiffer

\* A decision recorded on the bus and in the SKIPs of its date leaves the
\* rows in order.
LEMMA MarkedOK ==
    ASSUME NEW rows \in Rows, NEW records \in Records, NEW references \in References,
           RowsOK(rows, records, references),
           NEW b \in ScheduleId, NEW c \in BOOLEAN, NEW after \in Records,
           SkipsDiffer(records, after, b), c <=> Skips(after, b[1], b[2]) # {}
    PROVE  RowsOK(Marked(rows, b, c), after, references)
<1>1. PICK next : next = Marked(rows, b, c)
  OBVIOUS
<1>2. /\ next \in Rows
      /\ \A a \in DepartureId : a # b \/ rows[b] = None => next[a] = rows[a]
      /\ rows[b] # None => Redecided(rows[b], next[b], c)
  BY <1>1, MarkedRows
<1>3. Filed(next)
  BY <1>2, DepartureIds DEF RowsOK, Filed, Redecided
<1>4. WithinHorizon(next)
  BY <1>2 DEF RowsOK, WithinHorizon, Redecided
<1>5. LinksAgree(next, after)
  <2>1. \A x \in ExtraId : next[x] = rows[x]
    BY <1>2, DepartureIds
  <2>2. \A x \in ExtraId : rows[x] # None /\ rows[x].exception # None =>
           rows[x].exception \in ExceptionId
    BY RowType, DepartureIds
  <2> QED
    BY <2>1, <2>2 DEF RowsOK, LinksAgree, LinkAgrees, SkipsDiffer
<1>6. SkipsApplied(next, after)
  <2> SUFFICES ASSUME NEW a \in ScheduleId, next[a] # None, a[2] \in DepartureWindow
               PROVE  next[a].cancelled <=> Skips(after, a[1], a[2]) # {}
    BY DEF SkipsApplied
  <2>1. a \in DepartureId
    BY DepartureIds
  <2>2. CASE a = b
    BY <1>2, <2>1, <2>2 DEF Redecided
  <2>3. CASE a # b
    BY <1>2, <2>1, <2>3 DEF RowsOK, SkipsApplied, SkipsDiffer
  <2> QED
    BY <2>2, <2>3
<1>7. CopiesTell(next, references)
  BY <1>2 DEF RowsOK, CopiesTell, Redecided
<1> QED
  BY <1>1, <1>3, <1>4, <1>5, <1>6, <1>7 DEF RowsOK

LEMMA InvTypes ==
    ASSUME Inv
    PROVE  /\ timetable \in Timetable /\ departure \in Rows /\ exception \in Records
           /\ copy \in References /\ today \in Date
           /\ RowsOK(departure, exception, copy) /\ Follows(timetable, departure)
BY DEF Inv, TypeOK, Timetable, Rows, Records, References

LEMMA MarkKeeps ==
    ASSUME Inv, NEW b \in ScheduleId, NEW c \in BOOLEAN, NEW after \in Records,
           SkipsDiffer(exception, after, b), c <=> Skips(after, b[1], b[2]) # {},
           departure' = Marked(departure, b, c), exception' = after,
           UNCHANGED <<copy, timetable, today, night>>
    PROVE  Inv'
<1>1. PICK next : next = Marked(departure, b, c)
  OBVIOUS
<1>2. /\ next \in Rows
      /\ \A a \in DepartureId : a # b \/ departure[b] = None => next[a] = departure[a]
      /\ departure[b] # None => Redecided(departure[b], next[b], c)
  BY <1>1, InvTypes, MarkedRows
<1>3. RowsOK(next, after, copy)
  BY <1>1, InvTypes, MarkedOK
<1>4. Follows(timetable, next)
  <2> SUFFICES ASSUME NEW a \in DepartureId, next[a] # None, next[a].date \in DepartureWindow
               PROVE  RowFollows(timetable, next, a)
    BY DEF Follows
  <2>1. /\ departure[a] # None /\ next[a].date = departure[a].date
        /\ next[a].dropped = departure[a].dropped /\ next[a].time = departure[a].time
        /\ a \in ExtraId => next[a] = departure[a]
    BY <1>2, DepartureIds DEF Redecided
  <2>2. RowFollows(timetable, departure, a)
    BY <2>1, InvTypes DEF Follows
  <2> QED
    BY <2>1, <2>2, DepartureIds DEF RowFollows, ExtraFollows
<1>5. \A a \in ScheduleId : departure[a] # None => next[a] # None
  BY <1>2, DepartureIds DEF Redecided
<1>6. ASSUME NEW u \in Tenant, NEW e \in ExceptionId, Wanted(after, u, e)
      PROVE  \/ Served(next, u, e)
             \/ Wanted(exception, u, e) /\ ~Served(departure, u, e)
  <2>1. Wanted(exception, u, e)
    BY <1>6 DEF Wanted, SkipsDiffer
  <2>2. \A x \in ExtraId : next[x] = departure[x]
    BY <1>2, DepartureIds
  <2> QED
    BY <2>1, <2>2 DEF Served, InReach
<1> QED
  BY <1>1, <1>2, <1>3, <1>4, <1>5, <1>6, InvTypes, EndpointKeeps

\* What departure.matchesExceptions reports beyond what the rows in order rule
\* out: an extra that runs without an ADDITIONAL, and a bus of an ADDITIONAL at
\* another time than it says.
Orphaned(rows, x) ==
    /\ rows[x] # None /\ rows[x].exception = None /\ ~rows[x].cancelled
    /\ rows[x].date \in DepartureWindow

Asks(records, e) ==
    /\ records[e] # None /\ records[e].type = "ADDITIONAL" /\ records[e].time # None
    /\ records[e].date \in DepartureWindow

OffTime(rows, records, x, e) ==
    /\ Asks(records, e)
    /\ rows[x] # None /\ rows[x].exception = e /\ rows[x].time # records[e].time

\* No ADDITIONAL has two buses.
OneBusEach(rows) ==
    \A x, y \in ExtraId :
        rows[x] # None /\ rows[y] # None /\ rows[x].exception # None
        /\ rows[x].exception = rows[y].exception => x = y

\* An ADDITIONAL without a bus.
Unserved(rows, records, e) == Asks(records, e) /\ LinkedTo(rows, e) = {}

NothingWorse(rows, records) ==
    OneBusEach(departure) =>
       /\ OneBusEach(rows)
       /\ \A x \in ExtraId : Orphaned(rows, x) => Orphaned(departure, x)
       /\ \A x \in ExtraId, e \in ExceptionId :
             OffTime(rows, records, x, e) => OffTime(departure, exception, x, e)
       /\ \A e \in ExceptionId :
             Unserved(rows, records, e) => Unserved(departure, exception, e)

\* The timetable and exception endpoints: an edit of one tenant's rows, records
\* and rides, and a full sync of that tenant.
EditThenSync ==
    \E tt \in Timetable, rows \in Rows, records \in Records, t \in Tenant :
        /\ \A r \in Ride : TenantOf[r] # t => tt[r] = timetable[r]
        /\ RowsOK(rows, records, copy)
        /\ OnlyOf(DepartureId, departure, rows, t) /\ OnlyOf(ExceptionId, exception, records, t)
        /\ NothingWorse(rows, records)
        /\ FullSync(tt, rows, records, t)
        /\ UNCHANGED <<today, night>>

LEMMA EditThenSyncKeeps == Inv /\ EditThenSync => Inv'
BY SyncKeeps DEF EditThenSync

\* Where the ADDITIONALs and the extras stay, nothing gets worse.
LEMMA MarkNotWorse ==
    ASSUME Inv, NEW b \in ScheduleId, NEW c \in BOOLEAN, NEW after,
           SkipsDiffer(exception, after, b)
    PROVE  NothingWorse(Marked(departure, b, c), after)
<1>1. \A x \in ExtraId : Marked(departure, b, c)[x] = departure[x]
  BY InvTypes, MarkedRows, DepartureIds
<1>2. ASSUME NEW e \in ExceptionId, Asks(after, e) PROVE exception[e] = after[e]
  BY <1>2 DEF SkipsDiffer, Asks
<1> QED
  BY <1>1, <1>2 DEF NothingWorse, OneBusEach, Orphaned, OffTime, Asks, Unserved, LinkedTo

LEMMA MarkSyncs ==
    ASSUME Inv, NEW b \in ScheduleId, NEW c \in BOOLEAN, NEW after \in Records,
           SkipsDiffer(exception, after, b), c <=> Skips(after, b[1], b[2]) # {},
           FullSync(timetable, Marked(departure, b, c), after, TenantOf[b[1]]),
           UNCHANGED <<today, night>>
    PROVE  EditThenSync
<1>1. Marked(departure, b, c) \in Rows /\ RowsOK(Marked(departure, b, c), after, copy)
  BY InvTypes, MarkedRows, MarkedOK
<1>2. OnlyOf(ExceptionId, exception, after, TenantOf[b[1]])
  BY DEF OnlyOf, SkipsDiffer
<1>3. OnlyOf(DepartureId, departure, Marked(departure, b, c), TenantOf[b[1]])
  <2>1. \A a \in DepartureId : departure[a] # Marked(departure, b, c)[a] =>
           /\ a = b /\ departure[b] # None
           /\ Redecided(departure[b], Marked(departure, b, c)[b], c)
    BY InvTypes, MarkedRows
  <2>2. departure[b] # None => departure[b].ride = b[1]
    BY InvTypes DEF RowsOK, Filed
  <2> QED
    BY <2>1, <2>2 DEF OnlyOf, Redecided
<1>4. TenantOf[b[1]] \in Tenant
  BY DepartureIds, RideAssumption
<1> QED
  BY <1>1, <1>2, <1>3, <1>4, InvTypes, MarkNotWorse DEF EditThenSync

\* The SKIP of a cancelled date is there already, or is recorded.
LEMMA SkipIsRecorded ==
    ASSUME Inv, NEW b \in ScheduleId, SkipRecorded(b[1], b[2])
    PROVE  /\ exception' \in Records /\ SkipsDiffer(exception, exception', b)
           /\ Skips(exception', b[1], b[2]) # {}
<1>1. CASE exception' = exception /\ Skips(exception, b[1], b[2]) # {}
  BY <1>1, InvTypes DEF SkipsDiffer
<1>2. ASSUME NEW e \in Free(ExceptionId, exception),
             exception' = [exception EXCEPT ![e] = [ride |-> b[1], date |-> b[2],
                                                    type |-> "SKIP", time |-> None]]
      PROVE  /\ exception' \in Records /\ SkipsDiffer(exception, exception', b)
             /\ Skips(exception', b[1], b[2]) # {}
  <2>1. PICK after : after = exception'
    OBVIOUS
  <2> QED
    BY <1>2, <2>1, InvTypes, SkipRecord
<1> QED
  BY <1>1, <1>2 DEF SkipRecorded

LEMMA CancelScheduledKeeps ==
    ASSUME Inv, NEW b \in DepartureId, CancelScheduled(b)
    PROVE  Inv' /\ NothingWorse(departure', exception')
<1>1. /\ b \in ScheduleId /\ departure[b] # None /\ SkipRecorded(b[1], b[2])
      /\ departure' = [departure EXCEPT ![b].cancelled = TRUE]
      /\ UNCHANGED <<copy, timetable, today, night>>
  BY DEF CancelScheduled, Operated, Decided
<1>2. departure' = Marked(departure, b, TRUE)
  BY <1>1 DEF Marked
<1>3. PICK after : after = exception'
  OBVIOUS
<1>4. /\ after \in Records /\ SkipsDiffer(exception, after, b)
      /\ TRUE <=> Skips(after, b[1], b[2]) # {}
  BY <1>1, <1>3, SkipIsRecorded
<1>5. NothingWorse(Marked(departure, b, TRUE), after)
  BY <1>1, <1>4, MarkNotWorse
<1> QED
  BY <1>1, <1>2, <1>3, <1>4, <1>5, MarkKeeps

LEMMA RestoreScheduledKeeps ==
    ASSUME Inv, NEW b \in DepartureId, RestoreScheduled(b)
    PROVE  Inv' /\ NothingWorse(departure', exception')
<1>1. /\ b \in ScheduleId /\ departure[b] # None
      /\ departure' = [departure EXCEPT ![b].cancelled = FALSE]
      /\ exception' = Without(exception, Skips(exception, b[1], b[2]))
      /\ UNCHANGED <<copy, timetable, today, night>>
  BY DEF RestoreScheduled, Operated, Decided
<1>2. departure' = Marked(departure, b, FALSE)
  BY <1>1 DEF Marked
<1>3. PICK after : after = Without(exception, Skips(exception, b[1], b[2]))
  OBVIOUS
<1>4. /\ after \in Records /\ SkipsDiffer(exception, after, b)
      /\ FALSE <=> Skips(after, b[1], b[2]) # {}
  BY <1>1, <1>3, InvTypes, SkipRecordsGo
<1>5. NothingWorse(Marked(departure, b, FALSE), after)
  BY <1>1, <1>4, MarkNotWorse
<1> QED
  BY <1>1, <1>2, <1>3, <1>4, <1>5, MarkKeeps

LEMMA AddSkipSyncs ==
    ASSUME Inv, NEW r \in Ride, NEW d \in Date, AddSkip(r, d)
    PROVE  EditThenSync
<1>1. PICK e \in Free(ExceptionId, exception) :
         FullSync(timetable,
                  IF departure[<<r, d>>] = None THEN departure
                  ELSE [departure EXCEPT ![<<r, d>>].cancelled = TRUE],
                  [exception EXCEPT ![e] =
                     [ride |-> r, date |-> d, type |-> "SKIP", time |-> None]],
                  TenantOf[r])
  BY DEF AddSkip
<1>2. PICK b \in ScheduleId : b = <<r, d>> /\ b[1] = r /\ b[2] = d
  BY DateOfRide
<1>3. PICK after : after = [exception EXCEPT ![e] = [ride |-> b[1], date |-> b[2],
                                                      type |-> "SKIP", time |-> None]]
  OBVIOUS
<1>4. FullSync(timetable, Marked(departure, b, TRUE), after, TenantOf[b[1]])
  BY <1>1, <1>2, <1>3 DEF Marked
<1>5. /\ after \in Records /\ SkipsDiffer(exception, after, b)
      /\ TRUE <=> Skips(after, b[1], b[2]) # {}
  BY <1>3, InvTypes, SkipRecord
<1>6. UNCHANGED <<today, night>>
  BY DEF AddSkip
<1> QED
  BY <1>4, <1>5, <1>6, MarkSyncs

LEMMA RemoveSkipSyncs ==
    ASSUME Inv, NEW e \in ExceptionId, RemoveSkip(e)
    PROVE  EditThenSync
<1>1. exception[e].ride \in Ride /\ exception[e].date \in Date
  BY InvTypes DEF RemoveSkip, Records, Exception
<1>2. PICK b \in ScheduleId : /\ b = <<exception[e].ride, exception[e].date>>
                              /\ b[1] = exception[e].ride /\ b[2] = exception[e].date
  BY <1>1, DateOfRide
<1>3. PICK after : after = Without(exception, Skips(exception, b[1], b[2]))
  OBVIOUS
<1>4. FullSync(timetable, Marked(departure, b, FALSE), after, TenantOf[b[1]])
  BY <1>2, <1>3 DEF RemoveSkip, Marked
<1>5. /\ after \in Records /\ SkipsDiffer(exception, after, b)
      /\ FALSE <=> Skips(after, b[1], b[2]) # {}
  BY <1>3, InvTypes, SkipRecordsGo
<1>6. UNCHANGED <<today, night>>
  BY DEF RemoveSkip
<1> QED
  BY <1>4, <1>5, <1>6, MarkSyncs

-----------------------------------------------------------------------------
(* Adding, moving, cancelling, restoring and deleting extra buses *)

\* What the rows in order say of one extra and its copies.
ExtraOK(row, records, reference) ==
    /\ row # None => row.date <= today + Horizon /\ LinkAgrees(row, records)
    /\ reference # None => row # None /\ row.time = reference

SkipsStay(records, after) ==
    \A a \in ScheduleId : Skips(after, a[1], a[2]) = {} <=> Skips(records, a[1], a[2]) = {}

\* An edit of extras is judged extra by extra.
LEMMA ExtrasOK ==
    ASSUME NEW rows \in Rows, NEW records, NEW references, RowsOK(rows, records, references),
           NEW next \in Rows, NEW after, NEW copies,
           \A b \in ScheduleId : next[b] = rows[b] /\ copies[b] = references[b],
           SkipsStay(records, after),
           \A x \in ExtraId : ExtraOK(next[x], after, copies[x])
    PROVE  RowsOK(next, after, copies)
<1>1. Filed(next)
  BY DEF RowsOK, Filed
<1>2. WithinHorizon(next)
  BY DepartureIds DEF RowsOK, WithinHorizon, ExtraOK
<1>3. LinksAgree(next, after)
  BY DEF LinksAgree, ExtraOK
<1>4. SkipsApplied(next, after)
  BY DEF RowsOK, SkipsApplied, SkipsStay
<1>5. CopiesTell(next, copies)
  BY DepartureIds DEF RowsOK, CopiesTell, ExtraOK
<1> QED
  BY <1>1, <1>2, <1>3, <1>4, <1>5 DEF RowsOK

\* Every ADDITIONAL has a bus, or is one of before that had none.
NoBusLost(rows, records, next, after) ==
    \A e \in ExceptionId : after[e] # None /\ after[e].type = "ADDITIONAL" =>
        \/ LinkedTo(next, e) # {}
        \/ after[e] = records[e] /\ LinkedTo(rows, e) = {}

LEMMA NoBusLostServes ==
    ASSUME NEW rows, NEW records, NoBusLost(departure, exception, rows, records),
           NEW e \in ExceptionId, Unserved(rows, records, e)
    PROVE  Unserved(departure, exception, e)
BY DEF NoBusLost, Unserved, Asks

LEMMA LinkedIsServed ==
    ASSUME NEW rows, NEW records, LinksAgree(rows, records), NEW u,
           NEW e \in ExceptionId, Wanted(records, u, e), LinkedTo(rows, e) # {}
    PROVE  Served(rows, u, e)
<1>1. PICK x \in ExtraId : rows[x] # None /\ rows[x].exception = e
  BY DEF LinkedTo
<1>2. e # None
  BY NoneIsNoRow
<1>3. records[e].ride = rows[x].ride /\ records[e].date = rows[x].date
  BY <1>1, <1>2 DEF LinksAgree, LinkAgrees
<1> QED
  BY <1>1, <1>3 DEF Wanted, Served, InReach

\* An edit of extras that leaves the rows in order, and in step with the
\* timetable.
ExtraRowsOK(rows, after, references) ==
    /\ rows \in Rows /\ after \in Records /\ references \in References
    /\ \A b \in ScheduleId : rows[b] = departure[b] /\ references[b] = copy[b]
    /\ SkipsStay(exception, after)
    /\ \A x \in ExtraId : ExtraOK(rows[x], after, references[x])

ExtraRowsFollow(rows) ==
    \A x \in ExtraId : rows[x] # None /\ rows[x].date \in DepartureWindow =>
        ExtraFollows(timetable, rows[x])

LEMMA ExtraRowsInOrder ==
    ASSUME Inv, NEW rows, NEW records, NEW references,
           ExtraRowsOK(rows, records, references)
    PROVE  RowsOK(rows, records, references)
<1>1. departure \in Rows /\ RowsOK(departure, exception, copy)
  BY InvTypes
<1> QED
  BY <1>1, ExtrasOK DEF ExtraRowsOK

LEMMA ExtrasKeep ==
    ASSUME Inv, NEW rows, NEW records, NEW references,
           departure' = rows, exception' = records, copy' = references,
           UNCHANGED <<timetable, today, night>>,
           ExtraRowsOK(rows, records, references), ExtraRowsFollow(rows),
           NoBusLost(departure, exception, rows, records)
    PROVE  Inv'
<1>1. /\ rows \in Rows /\ records \in Records /\ references \in References
      /\ RowsOK(rows, records, references)
      /\ \A b \in ScheduleId : rows[b] = departure[b]
  BY ExtraRowsInOrder DEF ExtraRowsOK
<1>2. Follows(timetable, rows)
  <2> SUFFICES ASSUME NEW b \in DepartureId, rows[b] # None, rows[b].date \in DepartureWindow
               PROVE  RowFollows(timetable, rows, b)
    BY DEF Follows
  <2>1. CASE b \in ScheduleId
    <3>1. rows[b] = departure[b]
      BY <1>1, <2>1
    <3>2. RowFollows(timetable, departure, b)
      BY <3>1, InvTypes DEF Follows
    <3> QED
      BY <2>1, <3>1, <3>2 DEF RowFollows
  <2>2. CASE b \in ExtraId
    <3>1. ExtraFollows(timetable, rows[b]) /\ b \notin ScheduleId
      BY <2>2, DepartureIds DEF ExtraRowsFollow
    <3> QED
      BY <3>1 DEF RowFollows
  <2> QED
    BY <2>1, <2>2, DepartureIds
<1>3. ASSUME NEW u \in Tenant, NEW e \in ExceptionId, Wanted(records, u, e)
      PROVE  \/ Served(rows, u, e)
             \/ Wanted(exception, u, e) /\ ~Served(departure, u, e)
  <2>1. CASE LinkedTo(rows, e) # {}
    BY <1>1, <1>3, <2>1, LinkedIsServed DEF RowsOK
  <2>2. CASE records[e] = exception[e] /\ LinkedTo(departure, e) = {}
    <3>1. ~Served(departure, u, e)
      BY <2>2 DEF Served, LinkedTo, InReach
    <3> QED
      BY <1>3, <2>2, <3>1 DEF Wanted
  <2> QED
    BY <1>3, <2>1, <2>2 DEF NoBusLost, Wanted
<1>4. \A b \in ScheduleId : departure[b] # None => rows[b] # None
  BY <1>1
<1> QED
  BY <1>1, <1>2, <1>3, <1>4, EndpointKeeps

\* A link holds while its ADDITIONAL keeps its ride, its date and a time.
LEMMA LinkStays ==
    ASSUME NEW row, NEW records, NEW after, LinkAgrees(row, records),
           row.exception # None =>
              /\ after[row.exception] # None /\ after[row.exception].type = "ADDITIONAL"
              /\ after[row.exception].ride = records[row.exception].ride
              /\ after[row.exception].date = records[row.exception].date
              /\ after[row.exception].time # None
    PROVE  LinkAgrees(row, after)
BY DEF LinkAgrees

LEMMA StoredExtraOK ==
    ASSUME Inv, NEW x \in ExtraId
    PROVE  /\ ExtraOK(departure[x], exception, copy[x])
           /\ departure[x] # None /\ departure[x].date \in DepartureWindow =>
                 ExtraFollows(timetable, departure[x])
<1>1. x \in DepartureId /\ x \notin ScheduleId
  BY DepartureIds
<1> QED
  BY <1>1, InvTypes DEF RowsOK, WithinHorizon, LinksAgree, CopiesTell, Follows, RowFollows,
                        ExtraOK

\* The ADDITIONAL of a bus at a time t.
AdditionalAdded(records, after, r, d, t, e) ==
    /\ after \in Records /\ SkipsStay(records, after)
    /\ e \in ExceptionId /\ e # None /\ records[e] = None
    /\ after[e] # None /\ after[e].type = "ADDITIONAL" /\ after[e].time = t
    /\ after[e].ride = r /\ after[e].date = d
    /\ \A g \in ExceptionId : g # e => after[g] = records[g]

LEMMA AdditionalRecord ==
    ASSUME NEW records \in Records, NEW r \in Ride, NEW d \in Date, NEW t \in Time,
           NEW e \in Free(ExceptionId, records),
           NEW after, after = [records EXCEPT ![e] = [ride |-> r, date |-> d,
                                                      type |-> "ADDITIONAL", time |-> t]]
    PROVE  AdditionalAdded(records, after, r, d, t, e)
<1>1. PICK record : record = [ride |-> r, date |-> d, type |-> "ADDITIONAL", time |-> t]
  OBVIOUS
<1>2. /\ record \in Exception /\ record.ride = r /\ record.date = d /\ record.time = t
      /\ record.type = "ADDITIONAL"
  BY <1>1 DEF Exception
<1>3. e \in ExceptionId /\ e # None /\ records[e] = None /\ record # None
  BY <1>2, NoneIsNoRow DEF Free
<1>4. after = [records EXCEPT ![e] = record]
  BY <1>1
<1>5. after \in Records
  BY <1>2, <1>4 DEF Records
<1>6. after[e] = record /\ \A g \in ExceptionId : g # e => after[g] = records[g]
  BY <1>3, <1>4 DEF Records
<1>7. SkipsStay(records, after)
  BY <1>2, <1>3, <1>6 DEF SkipsStay, Skips
<1> QED
  BY <1>2, <1>3, <1>5, <1>6, <1>7 DEF AdditionalAdded

\* An ADDITIONAL and the bus it adds leave the rows in order.
LEMMA BusAdded ==
    ASSUME Inv, NEW r \in Ride, NEW d \in DepartureWindow, NEW t \in Time, NEW c \in Capacity,
           NEW e \in Free(ExceptionId, exception), NEW x \in Free(ExtraId, departure),
           NEW rows, rows = [departure EXCEPT ![x] = NewExtra(timetable, r, d, t, c, e)],
           NEW after, after = [exception EXCEPT ![e] = [ride |-> r, date |-> d,
                                                        type |-> "ADDITIONAL", time |-> t]]
    PROVE  /\ ExtraRowsOK(rows, after, copy)
           /\ ExtraRowsFollow(rows)
           /\ NoBusLost(departure, exception, rows, after)
           /\ OnlyOf(DepartureId, departure, rows, TenantOf[r])
           /\ OnlyOf(ExceptionId, exception, after, TenantOf[r])
           /\ NothingWorse(rows, after)
<1> DEFINE row == NewExtra(timetable, r, d, t, c, e)
<1>1. d \in Date /\ d <= today + Horizon
  BY DEF DepartureWindow
<1>2. /\ e \in ExceptionId /\ e # None /\ exception[e] = None
      /\ after \in Records /\ SkipsStay(exception, after)
      /\ after[e] # None /\ after[e].type = "ADDITIONAL" /\ after[e].time = t
      /\ after[e].ride = r /\ after[e].date = d
      /\ \A g \in ExceptionId : g # e => after[g] = exception[g]
  <2>1. exception \in Records
    BY InvTypes
  <2>2. AdditionalAdded(exception, after, r, d, t, e)
    BY <1>1, <2>1, AdditionalRecord
  <2> QED
    BY <2>2 DEF AdditionalAdded
<1>3. NewFor(timetable, row, r, d, t, e)
  BY <1>1, <1>2, InvTypes, NewExtraType
<1> HIDE DEF row
<1>4. row \in Departure /\ row # None
  BY <1>3, NoneIsNoRow DEF NewFor
<1>5. x \in ExtraId /\ x \in DepartureId /\ departure[x] = None
  BY DepartureIds DEF Free
<1>6. rows = [departure EXCEPT ![x] = row]
  BY DEF row
<1>7. rows \in Rows /\ rows[x] = row /\ \A b \in DepartureId : b # x => rows[b] = departure[b]
  BY <1>4, <1>5, <1>6, InvTypes DEF Rows
<1>8. \A b \in ScheduleId : rows[b] = departure[b]
  BY <1>5, <1>7, DepartureIds
<1>9. ASSUME NEW y \in ExtraId
      PROVE  /\ ExtraOK(rows[y], after, copy[y])
             /\ rows[y] # None /\ rows[y].date \in DepartureWindow =>
                   ExtraFollows(timetable, rows[y])
  <2>1. CASE y = x
    <3>1. copy[x] = None
      BY <1>5, InvTypes DEF RowsOK, CopiesTell
    <3>2. LinkAgrees(row, after)
      BY <1>2, <1>3, NoneIsNoRow DEF LinkAgrees, NewFor
    <3>3. row.date <= today + Horizon /\ ExtraFollows(timetable, row)
      BY <1>1, <1>3 DEF NewFor, ExtraFollows
    <3> QED
      BY <1>7, <2>1, <3>1, <3>2, <3>3 DEF ExtraOK
  <2>2. CASE y # x
    <3>1. rows[y] = departure[y]
      BY <1>7, <2>2, DepartureIds
    <3>2. departure[y] # None => LinkAgrees(departure[y], exception)
      BY StoredExtraOK DEF ExtraOK
    <3>3. ASSUME departure[y] # None PROVE LinkAgrees(departure[y], after)
      <4>1. departure[y].exception \in ExceptionId \cup {None}
        BY <3>3, InvTypes, RowType, DepartureIds
      <4>2. departure[y].exception # None => after[departure[y].exception]
                                                = exception[departure[y].exception]
        BY <1>2, <3>2, <3>3, <4>1 DEF LinkAgrees
      <4> QED
        BY <3>2, <3>3, <4>2 DEF LinkAgrees
    <3> QED
      BY <3>1, <3>3, StoredExtraOK DEF ExtraOK
  <2> QED
    BY <2>1, <2>2
<1>10. NoBusLost(departure, exception, rows, after)
  <2> SUFFICES ASSUME NEW g \in ExceptionId, after[g] # None
               PROVE  \/ LinkedTo(rows, g) # {}
                      \/ after[g] = exception[g] /\ LinkedTo(departure, g) = {}
    BY DEF NoBusLost
  <2>1. CASE g = e
    BY <1>3, <1>4, <1>5, <1>7, <2>1 DEF LinkedTo, NewFor
  <2>2. CASE g # e
    <3>1. \A y \in ExtraId : departure[y] # None => rows[y] = departure[y]
      BY <1>5, <1>7, DepartureIds
    <3> QED
      BY <1>2, <2>2, <3>1 DEF LinkedTo
  <2> QED
    BY <2>1, <2>2
<1>11. OnlyOf(DepartureId, departure, rows, TenantOf[r])
  BY <1>3, <1>5, <1>7 DEF OnlyOf, NewFor
<1>12. OnlyOf(ExceptionId, exception, after, TenantOf[r])
  BY <1>2 DEF OnlyOf
<1>13. ExtraRowsOK(rows, after, copy)
  BY <1>2, <1>7, <1>8, <1>9, InvTypes DEF ExtraRowsOK
<1>14. ExtraRowsFollow(rows)
  BY <1>9 DEF ExtraRowsFollow
<1>15. NothingWorse(rows, after)
  <2>1. row.exception = e /\ row.time = t
    BY <1>3 DEF NewFor
  <2>2. ASSUME NEW y \in ExtraId, departure[y] # None PROVE departure[y].exception # e
    BY <1>2, <2>2, StoredExtraOK DEF ExtraOK, LinkAgrees
  <2>3. ASSUME NEW y \in ExtraId, rows[y] # None, y # x
        PROVE  departure[y] # None /\ rows[y] = departure[y]
    <3>1. y \in DepartureId
      BY DepartureIds
    <3> QED
      BY <1>7, <2>3, <3>1
  <2>4. OneBusEach(departure) => OneBusEach(rows)
    BY <1>7, <2>1, <2>2, <2>3 DEF OneBusEach
  <2>5. ASSUME NEW y \in ExtraId, Orphaned(rows, y) PROVE Orphaned(departure, y)
    <3>1. y # x
      BY <1>2, <1>7, <2>1, <2>5 DEF Orphaned
    <3> QED
      BY <2>3, <2>5, <3>1 DEF Orphaned
  <2>6. ASSUME NEW y \in ExtraId, NEW g \in ExceptionId, OffTime(rows, after, y, g)
        PROVE  OffTime(departure, exception, y, g)
    <3>1. y # x
      BY <1>2, <1>7, <2>1, <2>6 DEF OffTime
    <3>2. departure[y] # None /\ rows[y] = departure[y]
      BY <2>3, <2>6, <3>1 DEF OffTime
    <3>3. g # e
      BY <2>2, <2>6, <3>2 DEF OffTime
    <3> QED
      BY <1>2, <2>6, <3>2, <3>3 DEF OffTime, Asks
  <2> QED
    BY <1>10, <2>4, <2>5, <2>6, NoBusLostServes DEF NothingWorse
<1> QED
  BY <1>10, <1>11, <1>12, <1>13, <1>14, <1>15

LEMMA CreateExtraKeeps ==
    ASSUME Inv, NEW r \in Ride, NEW d \in Date, NEW t \in Time, NEW c \in Capacity,
           CreateExtra(r, d, t, c)
    PROVE  Inv' /\ NothingWorse(departure', exception')
<1>1. PICK e \in ExceptionId, x \in ExtraId :
         /\ ExtraAdded(r, d, t, c, e, x)
         /\ exception' = [exception EXCEPT ![e] =
                            [ride |-> r, date |-> d, type |-> "ADDITIONAL", time |-> t]]
         /\ departure' = [departure EXCEPT ![x] = NewExtra(timetable, r, d, t, c, e)]
         /\ UNCHANGED <<copy, timetable, today, night>>
  BY DEF CreateExtra, Decided
<1>2. PICK rows, after : rows = departure' /\ after = exception'
  OBVIOUS
<1>3. /\ e \in Free(ExceptionId, exception) /\ x \in Free(ExtraId, departure)
      /\ d \in DepartureWindow
  BY <1>1 DEF ExtraAdded, Decidable
<1>4. /\ ExtraRowsOK(rows, after, copy) /\ ExtraRowsFollow(rows)
      /\ NoBusLost(departure, exception, rows, after) /\ NothingWorse(rows, after)
  BY <1>1, <1>2, <1>3, BusAdded
<1> QED
  BY <1>1, <1>2, <1>4, InvTypes, ExtrasKeep

LEMMA AddAdditionalSyncs ==
    ASSUME Inv, NEW r \in Ride, NEW d \in Date, NEW t \in Time, AddAdditional(r, d, t)
    PROVE  EditThenSync
<1>1. PICK e \in ExceptionId, x \in ExtraId :
         /\ ExtraAdded(r, d, t, timetable[r].capacity, e, x)
         /\ FullSync(timetable,
                     [departure EXCEPT ![x] =
                        NewExtra(timetable, r, d, t, timetable[r].capacity, e)],
                     [exception EXCEPT ![e] =
                        [ride |-> r, date |-> d, type |-> "ADDITIONAL", time |-> t]],
                     TenantOf[r])
  BY DEF AddAdditional
<1>2. PICK rows, after :
         /\ rows = [departure EXCEPT ![x] =
                      NewExtra(timetable, r, d, t, timetable[r].capacity, e)]
         /\ after = [exception EXCEPT ![e] =
                       [ride |-> r, date |-> d, type |-> "ADDITIONAL", time |-> t]]
  OBVIOUS
<1>3. /\ e \in Free(ExceptionId, exception) /\ x \in Free(ExtraId, departure)
      /\ d \in DepartureWindow /\ timetable[r].capacity \in Capacity
  BY <1>1, InvTypes DEF ExtraAdded, Decidable, Timetable, TimetableRow
<1>4. /\ ExtraRowsOK(rows, after, copy)
      /\ OnlyOf(DepartureId, departure, rows, TenantOf[r])
      /\ OnlyOf(ExceptionId, exception, after, TenantOf[r])
      /\ NothingWorse(rows, after)
  BY <1>2, <1>3, BusAdded
<1>5. rows \in Rows /\ after \in Records /\ RowsOK(rows, after, copy)
  BY <1>4, ExtraRowsInOrder DEF ExtraRowsOK
<1>6. TenantOf[r] \in Tenant /\ FullSync(timetable, rows, after, TenantOf[r])
  BY <1>1, <1>2, RideAssumption
<1>7. UNCHANGED <<today, night>>
  BY DEF AddAdditional
<1> QED
  BY <1>4, <1>5, <1>6, <1>7, InvTypes DEF EditThenSync

\* The link of the ADDITIONAL that goes with an extra is no other extra's.
LEMMA ReleasedLinks ==
    ASSUME Inv, NEW b \in ExtraId, departure[b] # None,
           NEW rows \in Rows, \A a \in DepartureId : a # b => rows[a] = departure[a],
           rows[b] # None => rows[b].exception = None
    PROVE  \A a \in DepartureId : rows[a] # None => rows[a].exception \notin Released(rows, b)
<1> DEFINE e == departure[b].exception
           gone == Released(rows, b)
<1>1. \A g \in gone : g = e /\ e # None /\ LinkedTo(rows, e) \ {b} = {}
  BY DEF Released
<1> HIDE DEF gone
<1>2. \A a \in ExtraId : a # b => rows[a] = departure[a]
  BY DepartureIds
<1> SUFFICES ASSUME NEW a \in DepartureId, rows[a] # None, rows[a].exception \in gone
             PROVE  FALSE
  BY DEF gone
<1>3. rows[a].exception = e /\ e # None /\ LinkedTo(rows, e) \ {b} = {}
  BY <1>1
<1>4. a # b
  BY <1>3
<1>5. a \in ExtraId
  BY <1>3, <1>4, InvTypes, DepartureIds DEF RowsOK, Filed
<1>6. a \in LinkedTo(rows, e)
  BY <1>3, <1>5 DEF LinkedTo
<1> QED
  BY <1>3, <1>4, <1>6

\* An extra that goes, or is cancelled, and the ADDITIONAL it leaves behind.
LEMMA BusReleased ==
    ASSUME Inv, NEW b \in ExtraId, departure[b] # None,
           NEW rows \in Rows, \A a \in DepartureId : a # b => rows[a] = departure[a],
           rows[b] # None =>
              /\ rows[b].ride = departure[b].ride /\ rows[b].date = departure[b].date
              /\ rows[b].time = departure[b].time /\ rows[b].dropped = departure[b].dropped
              /\ rows[b].cancelled /\ rows[b].exception = None,
           rows[b] = None => copy[b] = None,
           NEW next, next = Unlinked(rows, Released(rows, b)),
           NEW after, after = Without(exception, Released(rows, b))
    PROVE  /\ ExtraRowsOK(next, after, copy) /\ ExtraRowsFollow(next)
           /\ NoBusLost(departure, exception, next, after) /\ NothingWorse(next, after)
<1> DEFINE e == departure[b].exception
           gone == Released(rows, b)
<1>1. \A g \in gone : g = e /\ e # None /\ LinkedTo(rows, e) \ {b} = {}
  BY DEF Released
<1>2. b \in DepartureId /\ e \in ExceptionId \cup {None}
  BY DepartureIds, InvTypes, RowType
<1>3. \A a \in DepartureId : rows[a] # None => rows[a].exception \notin gone
  BY ReleasedLinks
<1>4. \A a \in DepartureId : next[a] = rows[a]
  BY <1>3 DEF Unlinked
<1>5. next \in Rows
  BY <1>4 DEF Unlinked, Rows
<1>6. \A g \in ExceptionId : after[g] = IF g \in gone THEN None ELSE exception[g]
  BY DEF Without
<1>7. after \in Records
  BY <1>6, InvTypes DEF Without, Records
<1>8. e # None => exception[e] # None /\ exception[e].type = "ADDITIONAL"
  BY StoredExtraOK DEF ExtraOK, LinkAgrees
<1>9. SkipsStay(exception, after)
  BY <1>1, <1>6, <1>8 DEF SkipsStay, Skips
<1> HIDE DEF gone, e
<1>10. \A a \in ScheduleId : next[a] = departure[a]
  BY <1>4, DepartureIds
<1>11. ASSUME NEW x \in ExtraId
       PROVE  /\ ExtraOK(next[x], after, copy[x])
              /\ next[x] # None /\ next[x].date \in DepartureWindow =>
                    ExtraFollows(timetable, next[x])
  <2>1. x \in DepartureId /\ next[x] = rows[x]
    BY <1>4, DepartureIds
  <2>2. CASE x = b
    BY <2>1, <2>2, StoredExtraOK DEF ExtraOK, LinkAgrees, ExtraFollows
  <2>3. CASE x # b
    <3>1. next[x] = departure[x]
      BY <2>1, <2>3
    <3>2. ASSUME departure[x] # None PROVE LinkAgrees(departure[x], after)
      <4>1. departure[x].exception \in ExceptionId \cup {None} /\ departure[x].exception \notin gone
        BY <1>3, <2>1, <3>1, <3>2, InvTypes, RowType
      <4>2. departure[x].exception # None =>
               after[departure[x].exception] = exception[departure[x].exception]
        BY <1>6, <4>1
      <4>3. LinkAgrees(departure[x], exception)
        BY <3>2, StoredExtraOK DEF ExtraOK
      <4> QED
        BY <4>2, <4>3 DEF LinkAgrees
    <3> QED
      BY <3>1, <3>2, StoredExtraOK DEF ExtraOK
  <2> QED
    BY <2>2, <2>3
<1>12. NoBusLost(departure, exception, next, after)
  <2> SUFFICES ASSUME NEW g \in ExceptionId, after[g] # None, LinkedTo(departure, g) # {}
               PROVE  LinkedTo(next, g) # {} /\ after[g] = exception[g]
    BY <1>6 DEF NoBusLost
  <2>1. g \notin gone /\ after[g] = exception[g] /\ g # None
    BY <1>6, NoneIsNoRow
  <2>2. PICK y \in ExtraId : departure[y] # None /\ departure[y].exception = g
    BY DEF LinkedTo
  <2>3. CASE y # b
    <3>1. next[y] = departure[y]
      BY <1>4, <2>3, DepartureIds
    <3>2. y \in LinkedTo(next, g)
      BY <2>2, <3>1 DEF LinkedTo
    <3> QED
      BY <2>1, <3>2
  <2>4. CASE y = b
    <3>1. g = e /\ LinkedTo(rows, e) \ {b} # {}
      BY <2>1, <2>2, <2>4 DEF gone, e, Released
    <3>2. PICK x \in ExtraId : rows[x] # None /\ rows[x].exception = g
      BY <3>1 DEF LinkedTo
    <3>3. x \in LinkedTo(next, g)
      BY <1>4, <3>2, DepartureIds DEF LinkedTo
    <3> QED
      BY <2>1, <3>3
  <2> QED
    BY <2>1, <2>3, <2>4
<1>13. ExtraRowsOK(next, after, copy)
  BY <1>5, <1>7, <1>9, <1>10, <1>11, InvTypes DEF ExtraRowsOK
<1>14. ExtraRowsFollow(next)
  BY <1>11 DEF ExtraRowsFollow
<1>15. NothingWorse(next, after)
  <2>1. ASSUME NEW x \in ExtraId, next[x] # None
        PROVE  \/ next[x] = departure[x]
               \/ next[x].cancelled /\ next[x].exception = None
    <3>1. x \in DepartureId /\ next[x] = rows[x]
      BY <1>4, DepartureIds
    <3> QED
      BY <2>1, <3>1
  <2>2. \A g \in ExceptionId : g # None /\ (Asks(after, g) => after[g] = exception[g])
    BY <1>6, NoneIsNoRow DEF Asks
  <2> QED
    BY <1>12, <2>1, <2>2, NoBusLostServes DEF NothingWorse, OneBusEach, Orphaned, OffTime, Asks
<1> QED
  BY <1>12, <1>13, <1>14, <1>15

\* An extra taken out of service, as it is stored then.
LEMMA OutOfServiceRow ==
    ASSUME NEW row \in Departure, NEW next,
           next = [row EXCEPT !.cancelled = TRUE, !.exception = None]
    PROVE  /\ next \in Departure /\ next # None
           /\ next.ride = row.ride /\ next.date = row.date /\ next.time = row.time
           /\ next.dropped = row.dropped /\ next.cancelled /\ next.exception = None
<1>1. next \in Departure
  BY DEF Departure
<1>2. /\ next.ride = row.ride /\ next.date = row.date /\ next.time = row.time
      /\ next.dropped = row.dropped /\ next.cancelled = TRUE /\ next.exception = None
  BY DEF Departure
<1> QED
  BY <1>1, <1>2, NoneIsNoRow

LEMMA CancelExtraKeeps ==
    ASSUME Inv, NEW b \in DepartureId, CancelExtra(b)
    PROVE  Inv' /\ NothingWorse(departure', exception')
<1>1. b \in ExtraId /\ departure[b] # None /\ UNCHANGED <<copy, timetable, today, night>>
  BY DEF CancelExtra, Operated, Decided
<1>2. PICK row : row = [departure[b] EXCEPT !.cancelled = TRUE, !.exception = None]
  OBVIOUS
<1>3. PICK rows : rows = [departure EXCEPT ![b] = row]
  OBVIOUS
<1>4. [departure EXCEPT ![b].cancelled = TRUE, ![b].exception = None] = rows
  BY <1>1, <1>2, <1>3, InvTypes DEF Rows
<1>5. /\ departure' = Unlinked(rows, Released(rows, b))
      /\ exception' = Without(exception, Released(rows, b))
  BY <1>4 DEF CancelExtra
<1>6. departure[b] \in Departure
  BY <1>1, InvTypes, RowType
<1>7. /\ row \in Departure /\ row # None
      /\ row.ride = departure[b].ride /\ row.date = departure[b].date
      /\ row.time = departure[b].time /\ row.dropped = departure[b].dropped
      /\ row.cancelled /\ row.exception = None
  BY <1>2, <1>6, OutOfServiceRow
<1>8. /\ rows \in Rows /\ rows[b] = row
      /\ \A a \in DepartureId : a # b => rows[a] = departure[a]
  BY <1>3, <1>7, InvTypes DEF Rows
<1>9. PICK next, after : next = departure' /\ after = exception'
  OBVIOUS
<1>10. /\ ExtraRowsOK(next, after, copy) /\ ExtraRowsFollow(next)
       /\ NoBusLost(departure, exception, next, after) /\ NothingWorse(next, after)
  BY <1>1, <1>5, <1>7, <1>8, <1>9, BusReleased
<1> QED
  BY <1>1, <1>9, <1>10, ExtrasKeep

LEMMA DeleteExtraKeeps ==
    ASSUME Inv, NEW b \in DepartureId, DeleteExtra(b)
    PROVE  Inv' /\ NothingWorse(departure', exception')
<1>1. /\ b \in ExtraId /\ departure[b] # None /\ copy[b] = None
      /\ UNCHANGED <<copy, timetable, today, night>>
  BY DEF DeleteExtra, Operated, Decided
<1>2. PICK rows : rows = [departure EXCEPT ![b] = None]
  OBVIOUS
<1>3. /\ departure' = Unlinked(rows, Released(rows, b))
      /\ exception' = Without(exception, Released(rows, b))
  BY <1>2 DEF DeleteExtra
<1>4. /\ rows \in Rows /\ rows[b] = None
      /\ \A a \in DepartureId : a # b => rows[a] = departure[a]
  BY <1>2, InvTypes DEF Rows
<1>5. PICK next, after : next = departure' /\ after = exception'
  OBVIOUS
<1>6. /\ ExtraRowsOK(next, after, copy) /\ ExtraRowsFollow(next)
      /\ NoBusLost(departure, exception, next, after) /\ NothingWorse(next, after)
  BY <1>1, <1>3, <1>4, <1>5, BusReleased
<1> QED
  BY <1>1, <1>5, <1>6, ExtrasKeep

\* Every ADDITIONAL stays, of its ride and date, and only that of the bus of
\* the row may change.
RecordsFollow(after, row) ==
    \A g \in ExceptionId :
        /\ exception[g] # None /\ exception[g].type = "ADDITIONAL" /\ exception[g].time # None =>
              /\ after[g] # None /\ after[g].type = "ADDITIONAL" /\ after[g].time # None
              /\ after[g].ride = exception[g].ride /\ after[g].date = exception[g].date
        /\ after[g] # exception[g] => row.exception = g

\* An extra that stays stored, with its link or with a new one.
LEMMA BusEdited ==
    ASSUME Inv, NEW b \in ExtraId, departure[b] # None,
           NEW row \in Departure, row.date = departure[b].date,
           departure[b].exception = None \/ row.exception = departure[b].exception,
           NEW rows, rows = [departure EXCEPT ![b] = row],
           NEW after \in Records, SkipsStay(exception, after), RecordsFollow(after, row),
           LinkAgrees(row, after), ExtraFollows(timetable, row),
           NEW references \in References,
           \A a \in DepartureId : a # b => references[a] = copy[a],
           references[b] # None => row.time = references[b]
    PROVE  /\ ExtraRowsOK(rows, after, references) /\ ExtraRowsFollow(rows)
           /\ NoBusLost(departure, exception, rows, after)
<1>1. b \in DepartureId /\ row # None
  BY DepartureIds, NoneIsNoRow
<1>2. /\ rows \in Rows /\ rows[b] = row
      /\ \A a \in DepartureId : a # b => rows[a] = departure[a]
  BY <1>1, InvTypes DEF Rows
<1>3. \A a \in ScheduleId : rows[a] = departure[a] /\ references[a] = copy[a]
  BY <1>2, DepartureIds
<1>4. ASSUME NEW x \in ExtraId
      PROVE  /\ ExtraOK(rows[x], after, references[x])
             /\ rows[x] # None /\ rows[x].date \in DepartureWindow =>
                   ExtraFollows(timetable, rows[x])
  <2>1. CASE x = b
    BY <1>1, <1>2, <2>1, StoredExtraOK DEF ExtraOK
  <2>2. CASE x # b
    <3>1. x \in DepartureId /\ rows[x] = departure[x] /\ references[x] = copy[x]
      BY <1>2, <2>2, DepartureIds
    <3>2. ASSUME departure[x] # None PROVE LinkAgrees(departure[x], after)
      <4>1. departure[x].exception \in ExceptionId \cup {None}
        BY <3>1, <3>2, InvTypes, RowType
      <4>2. LinkAgrees(departure[x], exception)
        BY <3>2, StoredExtraOK DEF ExtraOK
      <4> QED
        BY <4>1, <4>2 DEF LinkAgrees, RecordsFollow
    <3> QED
      BY <3>1, <3>2, StoredExtraOK DEF ExtraOK
  <2> QED
    BY <2>1, <2>2
<1>5. ExtraRowsOK(rows, after, references)
  BY <1>2, <1>3, <1>4 DEF ExtraRowsOK
<1>6. ExtraRowsFollow(rows)
  BY <1>4 DEF ExtraRowsFollow
<1>7. NoBusLost(departure, exception, rows, after)
  <2> SUFFICES ASSUME NEW g \in ExceptionId, LinkedTo(rows, g) = {}
               PROVE  after[g] = exception[g] /\ LinkedTo(departure, g) = {}
    BY DEF NoBusLost
  <2>1. \A x \in ExtraId : rows[x] # None => rows[x].exception # g
    BY DEF LinkedTo
  <2>2. row.exception # g
    BY <1>1, <1>2, <2>1
  <2>3. after[g] = exception[g]
    BY <2>2 DEF RecordsFollow
  <2>4. ASSUME NEW x \in ExtraId, departure[x] # None, departure[x].exception = g
        PROVE  FALSE
    <3>1. CASE x = b
      BY <2>2, <2>4, <3>1, NoneIsNoRow
    <3>2. CASE x # b
      BY <1>2, <2>1, <2>4, <3>2, DepartureIds
    <3> QED
      BY <3>1, <3>2
  <2> QED
    BY <2>3, <2>4 DEF LinkedTo
<1> QED
  BY <1>5, <1>6, <1>7

\* A bus that takes the time of its ADDITIONAL, or keeps both, makes nothing
\* worse where it has that ADDITIONAL for itself.
LEMMA BusNotWorse ==
    ASSUME Inv, NEW b \in ExtraId, departure[b] # None,
           NEW row \in Departure, row.date = departure[b].date,
           NEW rows, rows = [departure EXCEPT ![b] = row],
           NEW after, RecordsFollow(after, row), NoBusLost(departure, exception, rows, after),
           row.exception = None =>
              departure[b].exception = None /\ row.cancelled = departure[b].cancelled,
           row.exception # None =>
              /\ \/ row.exception = departure[b].exception
                 \/ exception[row.exception] = None
              /\ \/ after[row.exception].time = row.time
                 \/ /\ row.exception = departure[b].exception /\ row.time = departure[b].time
                    /\ after = exception
    PROVE  NothingWorse(rows, after)
<1> SUFFICES ASSUME OneBusEach(departure)
             PROVE  /\ OneBusEach(rows)
                    /\ \A x \in ExtraId : Orphaned(rows, x) => Orphaned(departure, x)
                    /\ \A x \in ExtraId, e \in ExceptionId :
                          OffTime(rows, after, x, e) => OffTime(departure, exception, x, e)
                    /\ \A e \in ExceptionId :
                          Unserved(rows, after, e) => Unserved(departure, exception, e)
  BY DEF NothingWorse
<1>1. rows[b] = row /\ \A x \in ExtraId : x # b => rows[x] = departure[x]
  BY DepartureIds, InvTypes DEF Rows
<1>2. ASSUME NEW x \in ExtraId, x # b, departure[x] # None, departure[x].exception # None
      PROVE  departure[x].exception # row.exception
  <2>1. exception[departure[x].exception] # None
    BY <1>2, StoredExtraOK DEF ExtraOK, LinkAgrees
  <2>2. departure[x].exception # departure[b].exception
    BY <1>2 DEF OneBusEach
  <2> QED
    BY <1>2, <2>1, <2>2
<1>3. OneBusEach(rows)
  <2> SUFFICES ASSUME NEW x \in ExtraId, NEW y \in ExtraId, rows[x] # None, rows[y] # None,
                      rows[x].exception # None, rows[x].exception = rows[y].exception
               PROVE  x = y
    BY DEF OneBusEach
  <2>1. CASE x = b \/ y = b
    BY <1>1, <1>2, <2>1
  <2>2. CASE x # b /\ y # b
    BY <1>1, <2>2 DEF OneBusEach
  <2> QED
    BY <2>1, <2>2
<1>4. ASSUME NEW x \in ExtraId, Orphaned(rows, x) PROVE Orphaned(departure, x)
  BY <1>1, <1>4 DEF Orphaned
<1>5. ASSUME NEW x \in ExtraId, NEW e \in ExceptionId, OffTime(rows, after, x, e)
      PROVE  OffTime(departure, exception, x, e)
  <2>1. e # None
    BY NoneIsNoRow
  <2>2. CASE x = b
    <3>1. row.exception = e /\ row.time # after[e].time
      BY <1>1, <1>5, <2>2 DEF OffTime
    <3>2. row.exception = departure[b].exception /\ row.time = departure[b].time /\ after = exception
      BY <2>1, <3>1
    <3> QED
      BY <1>1, <1>5, <2>2, <3>1, <3>2 DEF OffTime
  <2>3. CASE x # b
    <3>1. rows[x] = departure[x] /\ departure[x] # None /\ departure[x].exception = e
      BY <1>1, <1>5, <2>3 DEF OffTime
    <3>2. e # row.exception
      BY <1>2, <2>1, <2>3, <3>1
    <3>3. after[e] = exception[e]
      BY <3>2 DEF RecordsFollow
    <3> QED
      BY <1>5, <3>1, <3>3 DEF OffTime, Asks
  <2> QED
    BY <2>2, <2>3
<1> QED
  BY <1>3, <1>4, <1>5, NoBusLostServes

LEMMA RestoreExtraKeeps ==
    ASSUME Inv, NEW b \in DepartureId, RestoreExtra(b)
    PROVE  Inv' /\ NothingWorse(departure', exception')
<1>1. /\ b \in ExtraId /\ departure[b] # None /\ departure[b].date \in DepartureWindow
      /\ departure[b].cancelled /\ ~departure[b].dropped
      /\ UNCHANGED <<copy, timetable, today, night>>
  BY DEF RestoreExtra, Operated, Decidable, Decided
<1>2. PICK e \in Free(ExceptionId, exception) :
         /\ exception' = [exception EXCEPT ![e] =
                            [ride |-> departure[b].ride, date |-> departure[b].date,
                             type |-> "ADDITIONAL", time |-> departure[b].time]]
         /\ departure' = [departure EXCEPT ![b].cancelled = FALSE, ![b].exception = e]
  BY DEF RestoreExtra
<1>3. PICK row : row = [departure[b] EXCEPT !.cancelled = FALSE, !.exception = e]
  OBVIOUS
<1>4. PICK rows, after : rows = departure' /\ after = exception'
  OBVIOUS
<1>5. rows = [departure EXCEPT ![b] = row]
  BY <1>1, <1>2, <1>3, <1>4, InvTypes DEF Rows
<1>6. /\ departure[b] \in Departure /\ departure[b].ride \in Ride
      /\ departure[b].date \in Date /\ departure[b].time \in Time
  BY <1>1, InvTypes, RowType
<1>7. e \in ExceptionId
  BY DEF Free
<1>8. /\ row \in Departure /\ row # None
      /\ row.ride = departure[b].ride /\ row.date = departure[b].date
      /\ row.time = departure[b].time
      /\ row.dropped = departure[b].dropped /\ ~row.cancelled /\ row.exception = e
  <2>1. row \in Departure
    BY <1>3, <1>6, <1>7 DEF Departure
  <2>2. /\ row.ride = departure[b].ride /\ row.date = departure[b].date
        /\ row.time = departure[b].time /\ row.dropped = departure[b].dropped
        /\ row.cancelled = FALSE /\ row.exception = e
    BY <1>3, <1>6 DEF Departure
  <2> QED
    BY <2>1, <2>2, NoneIsNoRow
<1>9. exception \in Records /\ copy \in References
  BY InvTypes
<1>10. AdditionalAdded(exception, after, departure[b].ride, departure[b].date,
                       departure[b].time, e)
  BY <1>2, <1>4, <1>6, <1>9, AdditionalRecord
<1>11. /\ after \in Records /\ SkipsStay(exception, after) /\ e # None
       /\ after[e] # None /\ after[e].type = "ADDITIONAL" /\ after[e].time # None
       /\ after[e].ride = row.ride /\ after[e].date = row.date
  BY <1>6, <1>8, <1>10, NoneIsNoRow DEF AdditionalAdded
<1>12. RecordsFollow(after, row)
  BY <1>8, <1>10 DEF AdditionalAdded, RecordsFollow
<1>13. LinkAgrees(row, after)
  BY <1>8, <1>11 DEF LinkAgrees
<1>14. ExtraFollows(timetable, row)
  BY <1>1, <1>8, StoredExtraOK DEF ExtraFollows
<1>15. departure[b].exception = None
  BY <1>1, StoredExtraOK DEF ExtraOK, LinkAgrees
<1>16. copy[b] # None => row.time = copy[b]
  BY <1>1, <1>8, StoredExtraOK DEF ExtraOK
<1>17. /\ ExtraRowsOK(rows, after, copy) /\ ExtraRowsFollow(rows)
       /\ NoBusLost(departure, exception, rows, after)
  BY <1>1, <1>5, <1>8, <1>9, <1>11, <1>12, <1>13, <1>14, <1>15, <1>16, BusEdited
<1>18. exception[e] = None /\ after[e].time = row.time
  BY <1>8, <1>10 DEF AdditionalAdded
<1>19. NothingWorse(rows, after)
  BY <1>1, <1>5, <1>8, <1>11, <1>12, <1>17, <1>18, BusNotWorse
<1> QED
  BY <1>1, <1>4, <1>17, <1>19, ExtrasKeep

LEMMA ResizeKeeps ==
    ASSUME Inv, NEW b \in ExtraId, departure[b] # None, departure[b].date \in DepartureWindow,
           NEW c \in Capacity, departure' = [departure EXCEPT ![b].capacity = c],
           UNCHANGED <<exception, copy, timetable, today, night>>
    PROVE  Inv' /\ NothingWorse(departure', exception')
<1>1. b \in DepartureId /\ departure[b] \in Departure
  BY DepartureIds, InvTypes, RowType
<1>2. PICK row : row = [departure[b] EXCEPT !.capacity = c]
  OBVIOUS
<1>3. PICK rows : rows = departure'
  OBVIOUS
<1>4. rows = [departure EXCEPT ![b] = row]
  BY <1>1, <1>2, <1>3, InvTypes DEF Rows
<1>5. row \in Departure
  BY <1>1, <1>2 DEF Departure
<1>6. /\ row.ride = departure[b].ride /\ row.date = departure[b].date
      /\ row.time = departure[b].time /\ row.dropped = departure[b].dropped
      /\ row.cancelled = departure[b].cancelled /\ row.exception = departure[b].exception
  BY <1>1, <1>2 DEF Departure
<1>7. LinkAgrees(row, exception) /\ ExtraFollows(timetable, row)
  BY <1>6, StoredExtraOK DEF ExtraOK, LinkAgrees, ExtraFollows
<1>8. RecordsFollow(exception, row) /\ SkipsStay(exception, exception)
  BY DEF RecordsFollow, SkipsStay
<1>9. copy[b] # None => row.time = copy[b]
  BY <1>6, StoredExtraOK DEF ExtraOK
<1>10. exception \in Records /\ copy \in References
  BY InvTypes
<1>11. /\ ExtraRowsOK(rows, exception, copy) /\ ExtraRowsFollow(rows)
       /\ NoBusLost(departure, exception, rows, exception)
  BY <1>4, <1>5, <1>6, <1>7, <1>8, <1>9, <1>10, BusEdited
<1>12. NothingWorse(rows, exception)
  BY <1>4, <1>5, <1>6, <1>8, <1>11, BusNotWorse
<1> QED
  BY <1>3, <1>11, <1>12, ExtrasKeep

LEMMA MoveKeeps ==
    ASSUME Inv, NEW b \in ExtraId, departure[b] # None, departure[b].date \in DepartureWindow,
           NEW t \in Time, NEW c \in Capacity, t # departure[b].time,
           departure' = [departure EXCEPT ![b] =
                           Following(timetable, [departure[b] EXCEPT !.time = t, !.capacity = c])],
           copy' = Recopied(copy, departure, departure'),
           exception' = IF departure[b].exception = None THEN exception
                        ELSE [exception EXCEPT ![departure[b].exception].time = t],
           UNCHANGED <<timetable, today, night>>
    PROVE  Inv' /\ NothingWorse(departure', exception')
<1>1. /\ b \in DepartureId /\ departure[b] \in Departure
      /\ departure[b].exception \in ExceptionId \cup {None}
  BY DepartureIds, InvTypes, RowType
<1>2. PICK row : row = Following(timetable, [departure[b] EXCEPT !.time = t, !.capacity = c])
  OBVIOUS
<1>3. PICK rows, after, references :
         rows = departure' /\ after = exception' /\ references = copy'
  OBVIOUS
<1>4. rows = [departure EXCEPT ![b] = row]
  BY <1>2, <1>3
<1>5. /\ row \in Departure
      /\ row.ride = departure[b].ride /\ row.date = departure[b].date /\ row.time = t
      /\ row.cancelled = departure[b].cancelled /\ row.exception = departure[b].exception
      /\ row.dropped <=> ExtraDropped(timetable, departure[b])
  <2>1. PICK moved : moved = [departure[b] EXCEPT !.time = t, !.capacity = c]
    OBVIOUS
  <2>2. moved \in Departure
    BY <1>1, <2>1 DEF Departure
  <2>3. /\ moved.ride = departure[b].ride /\ moved.date = departure[b].date
        /\ moved.time = t /\ moved.cancelled = departure[b].cancelled
        /\ moved.exception = departure[b].exception /\ moved.dropped = departure[b].dropped
    BY <1>1, <2>1 DEF Departure
  <2>4. row = Following(timetable, moved)
    BY <1>2, <2>1
  <2>5. ExtraDropped(timetable, moved) <=> ExtraDropped(timetable, departure[b])
    BY <2>3 DEF ExtraDropped
  <2> QED
    BY <2>2, <2>3, <2>4, <2>5, InvTypes, FollowingRow
<1>6. LinkAgrees(departure[b], exception) /\ ExtraFollows(timetable, departure[b])
  BY StoredExtraOK DEF ExtraOK
<1>7. ExtraFollows(timetable, row)
  BY <1>5 DEF ExtraFollows, ExtraDropped
<1>8. /\ after \in Records /\ SkipsStay(exception, after)
      /\ RecordsFollow(after, row) /\ LinkAgrees(row, after)
      /\ row.exception # None => after[row.exception].time = row.time
  <2>1. CASE departure[b].exception = None
    <3>1. after = exception
      BY <1>3, <2>1
    <3>2. LinkAgrees(row, after)
      BY <1>5, <1>6, <2>1 DEF LinkAgrees, ExtraDropped
    <3> QED
      BY <1>5, <2>1, <3>1, <3>2, InvTypes DEF SkipsStay, RecordsFollow
  <2>2. CASE departure[b].exception # None
    <3>1. PICK e \in ExceptionId : e = departure[b].exception /\ e # None
      BY <1>1, <2>2
    <3>2. exception[e] # None /\ exception[e].type = "ADDITIONAL"
      BY <1>6, <3>1 DEF LinkAgrees
    <3>3. after = [exception EXCEPT ![e].time = t]
      BY <1>3, <3>1
    <3>4. /\ after \in Records
          /\ after[e] # None /\ after[e].type = "ADDITIONAL" /\ after[e].time # None
          /\ after[e].ride = exception[e].ride /\ after[e].date = exception[e].date
          /\ after[e].time = t
          /\ \A g \in ExceptionId : g # e => after[g] = exception[g]
      <4>1. exception[e] \in Exception
        BY <3>2, InvTypes DEF Records
      <4>2. PICK record : record = [exception[e] EXCEPT !.time = t]
        OBVIOUS
      <4>3. record \in Exception
        BY <4>1, <4>2 DEF Exception
      <4>4. /\ record.type = exception[e].type /\ record.time = t
            /\ record.ride = exception[e].ride /\ record.date = exception[e].date
        BY <4>1, <4>2 DEF Exception
      <4>5. after = [exception EXCEPT ![e] = record]
        BY <3>3, <4>2
      <4>6. after \in Records /\ after[e] = record
            /\ \A g \in ExceptionId : g # e => after[g] = exception[g]
        BY <4>3, <4>5, InvTypes DEF Records
      <4> QED
        BY <3>2, <4>3, <4>4, <4>6, NoneIsNoRow
    <3>5. SkipsStay(exception, after)
      BY <3>2, <3>4 DEF SkipsStay, Skips
    <3>6. RecordsFollow(after, row)
      BY <1>5, <3>1, <3>4 DEF RecordsFollow
    <3>7. LinkAgrees(row, after)
      BY <1>5, <1>6, <3>1, <3>4 DEF LinkAgrees
    <3> QED
      BY <1>5, <3>1, <3>4, <3>5, <3>6, <3>7
  <2> QED
    BY <2>1, <2>2
<1>9. /\ rows \in Rows /\ rows[b] = row /\ row # None
      /\ \A a \in DepartureId : a # b => rows[a] = departure[a]
  BY <1>1, <1>4, <1>5, InvTypes, NoneIsNoRow DEF Rows
<1>10. references = Recopied(copy, departure, rows)
  BY <1>3
<1>11. references \in References
  BY <1>9, <1>10, InvTypes, RecopiedType
<1>12. \A a \in DepartureId : a # b => references[a] = copy[a]
  BY <1>9, <1>10 DEF Recopied
<1>13. references[b] # None => row.time = references[b]
  BY <1>1, <1>5, <1>9, <1>10 DEF Recopied
<1>14. /\ ExtraRowsOK(rows, after, references) /\ ExtraRowsFollow(rows)
       /\ NoBusLost(departure, exception, rows, after)
  BY <1>4, <1>5, <1>7, <1>8, <1>11, <1>12, <1>13, BusEdited
<1>15. NothingWorse(rows, after)
  BY <1>4, <1>5, <1>8, <1>14, BusNotWorse
<1> QED
  BY <1>3, <1>14, <1>15, ExtrasKeep

LEMMA UpdateExtraKeeps ==
    ASSUME Inv, NEW b \in DepartureId, NEW t \in Time, NEW c \in Capacity, UpdateExtra(b, t, c)
    PROVE  Inv' /\ NothingWorse(departure', exception')
<1>1. /\ b \in ExtraId /\ departure[b] # None /\ departure[b].date \in DepartureWindow
      /\ UNCHANGED <<timetable, today, night>>
  BY DEF UpdateExtra, Operated, Decidable, Decided
<1>2. CASE t = departure[b].time
  <2>1. departure' = [departure EXCEPT ![b].capacity = c] /\ UNCHANGED <<exception, copy>>
    BY <1>2 DEF UpdateExtra
  <2> QED
    BY <1>1, <2>1, ResizeKeeps
<1>3. CASE t # departure[b].time
  <2>1. /\ departure' = [departure EXCEPT ![b] =
                           Following(timetable, [departure[b] EXCEPT !.time = t, !.capacity = c])]
        /\ copy' = Recopied(copy, departure, departure')
        /\ exception' = IF departure[b].exception = None THEN exception
                        ELSE [exception EXCEPT ![departure[b].exception].time = t]
    BY <1>3 DEF UpdateExtra
  <2> QED
    BY <1>1, <1>3, <2>1, MoveKeeps
<1> QED
  BY <1>2, <1>3

LEMMA RemoveAdditionalSyncs ==
    ASSUME Inv, NEW e \in ExceptionId, RemoveAdditional(e)
    PROVE  EditThenSync
<1> DEFINE t == TenantOf[exception[e].ride]
           rows == [b \in DepartureId |->
                      IF b \notin LinkedTo(departure, e) THEN departure[b]
                      ELSE IF copy[b] = None THEN None
                      ELSE [departure[b] EXCEPT !.cancelled = TRUE]]
           next == Unlinked(rows, {e})
           after == Without(exception, {e})
<1>1. /\ exception[e] # None /\ exception[e].type = "ADDITIONAL"
      /\ FullSync(timetable, next, after, t) /\ UNCHANGED <<today, night>>
  BY DEF RemoveAdditional
<1>2. e # None /\ t \in Tenant
  <2>1. exception[e].ride \in Ride
    BY <1>1, InvTypes DEF Records, Exception
  <2> QED
    BY <2>1, NoneIsNoRow, RideAssumption
<1>3. \A b \in DepartureId : b \notin LinkedTo(departure, e) => next[b] = departure[b]
  <2> SUFFICES ASSUME NEW b \in DepartureId, b \notin LinkedTo(departure, e)
               PROVE  next[b] = departure[b]
    OBVIOUS
  <2>1. rows[b] = departure[b]
    OBVIOUS
  <2>2. departure[b] # None => departure[b].exception # e
    BY <1>2, InvTypes, DepartureIds DEF LinkedTo, RowsOK, Filed
  <2> HIDE DEF rows
  <2> QED
    BY <2>1, <2>2 DEF Unlinked
<1>4. ASSUME NEW b \in LinkedTo(departure, e)
      PROVE  /\ b \in ExtraId /\ departure[b] # None /\ departure[b].exception = e
             /\ LinkAgrees(departure[b], exception)
             /\ copy[b] = None => next[b] = None
             /\ copy[b] # None =>
                   /\ next[b] \in Departure /\ next[b] # None
                   /\ next[b].ride = departure[b].ride /\ next[b].date = departure[b].date
                   /\ next[b].time = departure[b].time
                   /\ next[b].dropped = departure[b].dropped
                   /\ next[b].cancelled /\ next[b].exception = None
  <2>1. b \in ExtraId /\ departure[b] # None /\ departure[b].exception = e
    BY DEF LinkedTo
  <2>2. b \in DepartureId /\ departure[b] \in Departure
    BY <2>1, InvTypes, RowType, DepartureIds
  <2>3. LinkAgrees(departure[b], exception)
    BY <2>1, StoredExtraOK DEF ExtraOK
  <2>4. CASE copy[b] = None
    <3>1. rows[b] = None
      BY <2>2, <2>4
    <3> HIDE DEF rows
    <3>2. next[b] = None
      BY <2>2, <3>1 DEF Unlinked
    <3> QED
      BY <2>1, <2>3, <2>4, <3>2
  <2>5. CASE copy[b] # None
    <3>1. PICK row : row = [departure[b] EXCEPT !.cancelled = TRUE]
      OBVIOUS
    <3>2. rows[b] = row
      BY <2>2, <2>5, <3>1
    <3> HIDE DEF rows
    <3>3. PICK unlinked : unlinked = [row EXCEPT !.exception = None]
      OBVIOUS
    <3>4. /\ row.exception = departure[b].exception /\ row # None
          /\ unlinked \in Departure /\ unlinked # None
          /\ unlinked.ride = departure[b].ride /\ unlinked.date = departure[b].date
          /\ unlinked.time = departure[b].time
          /\ unlinked.dropped = departure[b].dropped
          /\ unlinked.cancelled = TRUE /\ unlinked.exception = None
      <4>1. row \in Departure
        BY <2>2, <3>1 DEF Departure
      <4>2. /\ row.ride = departure[b].ride /\ row.date = departure[b].date
            /\ row.time = departure[b].time /\ row.dropped = departure[b].dropped
            /\ row.cancelled = TRUE /\ row.exception = departure[b].exception
        BY <2>2, <3>1 DEF Departure
      <4>3. unlinked \in Departure
        BY <3>3, <4>1 DEF Departure
      <4>4. /\ unlinked.ride = row.ride /\ unlinked.date = row.date
            /\ unlinked.time = row.time /\ unlinked.dropped = row.dropped
            /\ unlinked.cancelled = row.cancelled /\ unlinked.exception = None
        BY <3>3, <4>1 DEF Departure
      <4> QED
        BY <4>1, <4>2, <4>3, <4>4, NoneIsNoRow
    <3>5. next[b] = unlinked
      BY <2>1, <2>2, <3>2, <3>3, <3>4 DEF Unlinked
    <3> QED
      BY <2>1, <2>3, <2>5, <3>4, <3>5
  <2> QED
    BY <2>4, <2>5
<1>5. next \in Rows
  <2>1. \A b \in DepartureId : next[b] \in Departure \cup {None}
    BY <1>3, <1>4, InvTypes DEF Rows
  <2> QED
    BY <2>1 DEF Unlinked, Rows
<1>6. \A g \in ExceptionId : after[g] = IF g = e THEN None ELSE exception[g]
  BY DEF Without
<1>7. after \in Records
  BY <1>6, InvTypes DEF Without, Records
<1> HIDE DEF next, after
<1>8. SkipsStay(exception, after)
  BY <1>1, <1>6 DEF SkipsStay, Skips
<1>9. \A b \in ScheduleId : next[b] = departure[b]
  BY <1>3, DepartureIds DEF LinkedTo
<1>10. ASSUME NEW x \in ExtraId PROVE ExtraOK(next[x], after, copy[x])
  <2>1. CASE x \in LinkedTo(departure, e)
    BY <1>4, <2>1, StoredExtraOK DEF ExtraOK, LinkAgrees
  <2>2. CASE x \notin LinkedTo(departure, e)
    <3>1. x \in DepartureId /\ next[x] = departure[x]
      BY <1>3, <2>2, DepartureIds
    <3>2. ASSUME departure[x] # None PROVE LinkAgrees(departure[x], after)
      <4>1. departure[x].exception \in ExceptionId \cup {None} /\ departure[x].exception # e
        BY <2>2, <3>1, <3>2, InvTypes, RowType DEF LinkedTo
      <4>2. LinkAgrees(departure[x], exception)
        BY <3>2, StoredExtraOK DEF ExtraOK
      <4> QED
        BY <1>6, <4>1, <4>2 DEF LinkAgrees
    <3> QED
      BY <3>1, <3>2, StoredExtraOK DEF ExtraOK
  <2> QED
    BY <2>1, <2>2
<1>11. ExtraRowsOK(next, after, copy)
  BY <1>5, <1>7, <1>8, <1>9, <1>10, InvTypes DEF ExtraRowsOK
<1>12. RowsOK(next, after, copy)
  BY <1>11, ExtraRowsInOrder
<1>13. OnlyOf(DepartureId, departure, next, t)
  BY <1>2, <1>3, <1>4 DEF OnlyOf, LinkAgrees
<1>14. OnlyOf(ExceptionId, exception, after, t)
  BY <1>6 DEF OnlyOf
<1>15. NothingWorse(next, after)
  <2>1. \A x \in ExtraId : next[x] # None =>
           \/ next[x] = departure[x]
           \/ next[x].cancelled /\ next[x].exception = None
    BY <1>3, <1>4, DepartureIds
  <2>2. \A g \in ExceptionId : g # None /\ (Asks(after, g) => after[g] = exception[g])
    BY <1>6, NoneIsNoRow DEF Asks
  <2>3. ASSUME NEW g \in ExceptionId, Unserved(next, after, g)
        PROVE  Unserved(departure, exception, g)
    <3>1. g # e /\ after[g] = exception[g]
      BY <1>6, <2>3 DEF Unserved, Asks
    <3>2. \A x \in LinkedTo(departure, g) : x \in DepartureId /\ x \notin LinkedTo(departure, e)
      BY <3>1, DepartureIds DEF LinkedTo
    <3>3. \A x \in LinkedTo(departure, g) : x \in LinkedTo(next, g)
      BY <1>3, <3>2 DEF LinkedTo
    <3> QED
      BY <2>3, <3>1, <3>3 DEF Unserved, Asks
  <2> QED
    BY <2>1, <2>2, <2>3 DEF NothingWorse, OneBusEach, Orphaned, OffTime, Asks
<1> QED
  BY <1>1, <1>2, <1>5, <1>7, <1>12, <1>13, <1>14, <1>15, InvTypes DEF EditThenSync

-----------------------------------------------------------------------------
(* Timetable edits, bookings, nights and days *)

LEMMA EditTimetableSyncs ==
    ASSUME Inv, NEW r \in Ride, NEW next \in Timetables[r], EditTimetable(r, next)
    PROVE  EditThenSync
<1> DEFINE tt == [timetable EXCEPT ![r] = next]
           rows == FollowRideCapacity(r, timetable[r].capacity, next.capacity)
           t == TenantOf[r]
<1>1. FullSync(tt, rows, exception, t) /\ UNCHANGED <<today, night>>
  BY DEF EditTimetable
<1>2. next \in TimetableRow /\ next.capacity \in Capacity
  BY RowsAssumption DEF TimetableRow
<1>3. tt \in Timetable /\ \A q \in Ride : TenantOf[q] # t => tt[q] = timetable[q]
  BY <1>2, InvTypes DEF Timetable
<1>4. t \in Tenant
  BY RideAssumption
<1>5. ASSUME NEW b \in DepartureId
      PROVE  /\ rows[b] \in Departure \cup {None}
             /\ b \in ScheduleId \/ departure[b] = None => rows[b] = departure[b]
             /\ departure[b] # None =>
                   /\ rows[b] # None
                   /\ rows[b].ride = departure[b].ride /\ rows[b].date = departure[b].date
                   /\ rows[b].time = departure[b].time
                   /\ rows[b].dropped = departure[b].dropped
                   /\ rows[b].cancelled = departure[b].cancelled
                   /\ rows[b].exception = departure[b].exception
             /\ rows[b] # departure[b] => departure[b].ride = r
  <2>1. CASE /\ b \in ExtraId /\ departure[b] # None
             /\ departure[b].ride = r /\ departure[b].capacity = timetable[r].capacity
             /\ departure[b].date >= today
    <3>1. departure[b] \in Departure /\ b \notin ScheduleId
      BY <2>1, InvTypes, RowType, DepartureIds
    <3>2. rows[b] = [departure[b] EXCEPT !.capacity = next.capacity]
      BY <2>1 DEF FollowRideCapacity
    <3>3. PICK row : row = rows[b]
      OBVIOUS
    <3>4. row \in Departure
      BY <1>2, <3>1, <3>2, <3>3 DEF Departure
    <3>5. /\ row.ride = departure[b].ride /\ row.date = departure[b].date
          /\ row.time = departure[b].time /\ row.dropped = departure[b].dropped
          /\ row.cancelled = departure[b].cancelled
          /\ row.exception = departure[b].exception
      BY <3>1, <3>2, <3>3 DEF Departure
    <3> QED
      BY <2>1, <3>1, <3>3, <3>4, <3>5, NoneIsNoRow
  <2>2. CASE ~/\ b \in ExtraId /\ departure[b] # None
              /\ departure[b].ride = r /\ departure[b].capacity = timetable[r].capacity
              /\ departure[b].date >= today
    <3>1. rows[b] = departure[b]
      BY <2>2 DEF FollowRideCapacity
    <3> QED
      BY <3>1, InvTypes DEF Rows
  <2> QED
    BY <2>1, <2>2
<1>6. rows \in Rows
  BY <1>5 DEF FollowRideCapacity, Rows
<1> HIDE DEF rows, tt
<1>7. \A b \in ScheduleId : rows[b] = departure[b]
  BY <1>5, DepartureIds
<1>8. ASSUME NEW x \in ExtraId PROVE ExtraOK(rows[x], exception, copy[x])
  <2>1. x \in DepartureId /\ ExtraOK(departure[x], exception, copy[x])
    BY StoredExtraOK, DepartureIds
  <2>2. CASE departure[x] = None
    BY <1>5, <2>1, <2>2
  <2>3. CASE departure[x] # None
    <3>1. PICK row : row = rows[x]
      OBVIOUS
    <3>2. /\ row # None /\ row.date = departure[x].date /\ row.time = departure[x].time
          /\ row.ride = departure[x].ride /\ row.dropped = departure[x].dropped
          /\ row.cancelled = departure[x].cancelled /\ row.exception = departure[x].exception
      BY <1>5, <2>1, <2>3, <3>1
    <3> QED
      BY <2>1, <2>3, <3>1, <3>2 DEF ExtraOK, LinkAgrees
  <2> QED
    BY <2>2, <2>3
<1>9. exception \in Records /\ copy \in References /\ SkipsStay(exception, exception)
  BY InvTypes DEF SkipsStay
<1>10. ExtraRowsOK(rows, exception, copy)
  BY <1>6, <1>7, <1>8, <1>9 DEF ExtraRowsOK
<1>11. RowsOK(rows, exception, copy)
  BY <1>10, ExtraRowsInOrder
<1>12. OnlyOf(DepartureId, departure, rows, t)
  <2> SUFFICES ASSUME NEW b \in DepartureId, departure[b] # rows[b]
               PROVE  /\ departure[b] # None => TenantOf[departure[b].ride] = t
                      /\ rows[b] # None => TenantOf[rows[b].ride] = t
    BY DEF OnlyOf
  <2>1. departure[b] # None /\ departure[b].ride = r
    BY <1>5
  <2> QED
    BY <1>5, <2>1
<1>13. OnlyOf(ExceptionId, exception, exception, t)
  BY DEF OnlyOf
<1>14. NothingWorse(rows, exception)
  <2>1. ASSUME NEW x \in ExtraId, rows[x] # None
        PROVE  /\ departure[x] # None
               /\ rows[x].date = departure[x].date /\ rows[x].time = departure[x].time
               /\ rows[x].cancelled = departure[x].cancelled
               /\ rows[x].exception = departure[x].exception
    BY <1>5, <2>1, DepartureIds
  <2>2. \A x \in ExtraId : departure[x] # None =>
           rows[x] # None /\ rows[x].exception = departure[x].exception
    BY <1>5, DepartureIds
  <2> QED
    BY <2>1, <2>2 DEF NothingWorse, OneBusEach, Orphaned, OffTime, Unserved, LinkedTo
<1> QED
  BY <1>1, <1>3, <1>4, <1>6, <1>9, <1>11, <1>12, <1>13, <1>14 DEF EditThenSync

LEMMA BookKeeps ==
    ASSUME Inv, NEW b \in DepartureId, Book(b)
    PROVE  Inv'
<1>1. /\ departure[b] # None /\ UNCHANGED <<timetable, departure, exception, today, night>>
      /\ copy' = [copy EXCEPT ![b] = departure[b].time]
  BY DEF Book, Runs
<1>2. departure[b].time \in Time
  BY <1>1, InvTypes, RowType
<1>3. PICK references : references = copy'
  OBVIOUS
<1>4. /\ references \in References
      /\ \A a \in DepartureId : references[a] = IF a = b THEN departure[b].time ELSE copy[a]
  BY <1>1, <1>2, <1>3, InvTypes DEF References
<1>5. RowsOK(departure, exception, references)
  BY <1>1, <1>4, InvTypes DEF RowsOK, CopiesTell
<1>6. departure \in Rows /\ exception \in Records /\ Follows(timetable, departure)
  BY InvTypes
<1>7. \A u \in Tenant, e \in ExceptionId : Wanted(exception, u, e) =>
         \/ Served(departure, u, e)
         \/ Wanted(exception, u, e) /\ ~Served(departure, u, e)
  OBVIOUS
<1> QED
  BY <1>1, <1>3, <1>4, <1>5, <1>6, <1>7, EndpointKeeps

\* Creates alone leave what a full sync would leave of the rows that follow
\* the timetable already.
LEMMA InsertedIsSynced ==
    ASSUME Inv, NEW t \in Tenant,
           NEW placed \in Placements(departure, MissingExtras(departure, exception, t)),
           NEW next, next = Inserted(timetable, departure, exception, t, placed)
    PROVE  /\ next \in Rows
           /\ SyncedAs(timetable, departure, exception, copy, t, placed, next)
           /\ Recopied(copy, departure, next) = copy
<1>1. /\ next \in Rows
      /\ \A b \in MissingScheduled(timetable, departure, t) :
            departure[b] = None /\ NewScheduled(timetable, exception, next[b], b)
      /\ \A e \in MissingExtras(departure, exception, t) :
            /\ placed[e] \in ExtraId /\ departure[placed[e]] = None
            /\ NewFor(timetable, next[placed[e]], exception[e].ride, exception[e].date,
                      exception[e].time, e)
      /\ \A b \in DepartureId :
            \/ next[b] = departure[b]
            \/ b \in MissingScheduled(timetable, departure, t)
            \/ \E e \in MissingExtras(departure, exception, t) : placed[e] = b
  <2>1. timetable \in Timetable /\ departure \in Rows /\ exception \in Records
    BY InvTypes
  <2> QED
    BY <2>1, InsertedRows
<1>2. ASSUME NEW b \in DepartureId, InReach(departure, t, b)
      PROVE  ShapedFacts(timetable, departure[b], copy, departure[b], b)
  <2>1. departure[b] # None /\ departure[b] \in Departure
    BY <1>2, InvTypes, RowType DEF InReach
  <2>2. RowFollows(timetable, departure, b)
    BY <1>2, InvTypes DEF InReach, Follows
  <2>3. CASE b \in ScheduleId
    <3>1. b \notin ExtraId /\ departure[b].ride = b[1] /\ departure[b].date = b[2]
      BY <2>1, <2>3, InvTypes, DepartureIds DEF RowsOK, Filed
    <3> QED
      BY <2>1, <2>2, <2>3, <3>1 DEF ShapedFacts, SameBus, RowFollows
  <2>4. CASE b \in ExtraId
    <3>1. b \notin ScheduleId /\ ExtraFollows(timetable, departure[b])
      BY <2>2, <2>4, DepartureIds DEF RowFollows
    <3> QED
      BY <2>1, <2>4, <3>1 DEF ShapedFacts, SameBus, ExtraFollows, ExtraDropped
  <2> QED
    BY <2>3, <2>4, DepartureIds
<1>3. \A b \in DepartureId :
         \/ /\ InReach(departure, t, b)
            /\ ShapedFacts(timetable, departure[b], copy, next[b], b)
         \/ ~InReach(departure, t, b) /\ next[b] = departure[b]
         \/ b \in MissingScheduled(timetable, departure, t)
         \/ \E e \in MissingExtras(departure, exception, t) : placed[e] = b
  BY <1>1, <1>2
<1>4. SyncedAs(timetable, departure, exception, copy, t, placed, next)
  BY <1>1, <1>3 DEF SyncedAs
<1>5. \A b \in DepartureId : departure[b] # None => next[b] = departure[b]
  BY <1>1
<1>6. \A b \in DepartureId : Recopied(copy, departure, next)[b] = copy[b]
  BY <1>5 DEF Recopied
<1>7. Recopied(copy, departure, next) = copy
  BY <1>6, InvTypes DEF Recopied, References
<1> QED
  BY <1>1, <1>4, <1>7

LEMMA NightInsertsKeeps ==
    ASSUME Inv, NEW t \in Tenant, NightInserts(t)
    PROVE  Inv'
<1>1. PICK placed \in Placements(departure, MissingExtras(departure, exception, t)) :
         departure' = Inserted(timetable, departure, exception, t, placed)
  BY DEF NightInserts
<1>2. PICK next : next = departure'
  OBVIOUS
<1>3. /\ next \in Rows
      /\ SyncedAs(timetable, departure, exception, copy, t, placed, next)
      /\ Recopied(copy, departure, next) = copy
  BY <1>1, <1>2, InsertedIsSynced
<1>4. /\ timetable \in Timetable /\ departure \in Rows /\ exception \in Records
      /\ copy \in References /\ today \in Date
      /\ RowsOK(departure, exception, copy) /\ Follows(timetable, departure)
      /\ Filed(departure)
  BY InvTypes DEF RowsOK
<1>5. RowsOK(next, exception, copy)
  BY <1>3, <1>4, SyncRowsOK
<1>6. Filed(next)
  BY <1>5 DEF RowsOK
<1>7. Follows(timetable, next)
  <2>1. OnlyOf(DepartureId, departure, departure, t)
    BY DEF OnlyOf
  <2> QED
    BY <1>3, <1>4, <1>6, <2>1, SyncFollows
<1>8. ASSUME NEW u \in Tenant, u = t \/ NothingMissing(u)
      PROVE  Complete(timetable, next, exception, u)
  <2>1. CASE u = t
    BY <1>3, <1>4, <2>1, SyncCompletes
  <2>2. CASE NothingMissing(u)
    <3>1. \A b \in DepartureId : departure[b] # None => next[b] = departure[b]
      BY <1>1, <1>2, <1>4, InsertedRows
    <3>2. Complete(timetable, departure, exception, u)
      BY <2>2 DEF Complete, NothingMissing
    <3> QED
      BY <1>3, <1>4, <3>1, <3>2, CompleteStays
  <2> QED
    BY <1>8, <2>1, <2>2
<1>9. /\ night \in [left: SUBSET Tenant, failed: SUBSET Tenant, begun: BOOLEAN]
      /\ night' = [night EXCEPT !.left = @ \ {t}]
      /\ UNCHANGED <<timetable, exception, copy, today>>
  BY DEF Inv, TypeOK, NightInserts
<1>10. /\ night' \in [left: SUBSET Tenant, failed: SUBSET Tenant, begun: BOOLEAN]
       /\ night'.left = night.left \ {t} /\ night'.failed = night.failed
       /\ night'.begun = night.begun
  BY <1>9
<1>11. night'.begun => \A u \in Tenant \ (night'.left \cup night'.failed) :
                          Complete(timetable, next, exception, u)
  BY <1>8, <1>10 DEF Inv, NightServes
<1> QED
  BY <1>2, <1>3, <1>4, <1>5, <1>7, <1>9, <1>10, <1>11, WithinTheDay

\* Steps that change the night alone.
LEMMA NightAloneKeeps ==
    ASSUME Inv, UNCHANGED <<timetable, departure, exception, copy, today>>,
           night' \in [left: SUBSET Tenant, failed: SUBSET Tenant, begun: BOOLEAN],
           night'.begun => \A u \in Tenant \ (night'.left \cup night'.failed) :
                              NothingMissing(u)
    PROVE  Inv'
<1>1. night'.begun => \A u \in Tenant \ (night'.left \cup night'.failed) :
                         Complete(timetable, departure, exception, u)
  BY DEF NothingMissing, Complete
<1>2. /\ timetable \in Timetable /\ departure \in Rows /\ exception \in Records
      /\ copy \in References /\ today \in Date
      /\ RowsOK(departure, exception, copy) /\ Follows(timetable, departure)
  BY InvTypes
<1> QED
  BY <1>1, <1>2, WithinTheDay

LEMMA StartNightKeeps == Inv /\ StartNight => Inv'
<1> SUFFICES ASSUME Inv, StartNight PROVE Inv'
  OBVIOUS
<1>1. /\ night' = [left |-> Tenant, failed |-> {}, begun |-> TRUE]
      /\ UNCHANGED <<timetable, departure, exception, copy, today>>
  BY DEF StartNight
<1>2. /\ night' \in [left: SUBSET Tenant, failed: SUBSET Tenant, begun: BOOLEAN]
      /\ night'.left = Tenant
  BY <1>1
<1> QED
  BY <1>1, <1>2, NightAloneKeeps

LEMMA NightFailsKeeps ==
    ASSUME Inv, NEW t \in Tenant, NightFails(t)
    PROVE  Inv'
<1>1. /\ night \in [left: SUBSET Tenant, failed: SUBSET Tenant, begun: BOOLEAN]
      /\ night' = [night EXCEPT !.left = @ \ {t}, !.failed = @ \cup {t}]
      /\ UNCHANGED <<timetable, departure, exception, copy, today>>
  BY DEF Inv, TypeOK, NightFails
<1>2. /\ night' \in [left: SUBSET Tenant, failed: SUBSET Tenant, begun: BOOLEAN]
      /\ night'.left = night.left \ {t} /\ night'.failed = night.failed \cup {t}
      /\ night'.begun = night.begun
  BY <1>1
<1>3. night'.begun => \A u \in Tenant \ (night'.left \cup night'.failed) : NothingMissing(u)
  BY <1>2 DEF Inv, NightServes
<1> QED
  BY <1>1, <1>2, <1>3, NightAloneKeeps

\* The next day's window adds one date, for which nothing is stored yet.
LEMMA DayPassesKeeps == Inv /\ DayPasses => Inv'
<1> SUFFICES ASSUME Inv, DayPasses PROVE Inv'
  OBVIOUS
<1>1. /\ today' = today + 1 /\ today < LastDay /\ night' = NoNight
      /\ UNCHANGED <<timetable, departure, exception, copy>>
  BY DEF DayPasses
<1>2. today \in Int /\ today \in Date /\ Horizon \in Nat /\ LastDay \in Nat
  BY CalendarAssumption DEF Inv, TypeOK, Date
<1>3. today' \in Date
  BY <1>1, <1>2 DEF Date
<1>4. TypeOK'
  BY <1>1, <1>3 DEF Inv, TypeOK, NoNight
<1>5. /\ Filed(departure) /\ WithinHorizon(departure) /\ LinksAgree(departure, exception)
      /\ SkipsApplied(departure, exception) /\ CopiesTell(departure, copy)
      /\ departure \in Rows
  BY InvTypes DEF RowsOK
<1>6. /\ Filed(departure)' /\ CopiesTell(departure, copy)' /\ LinksAgree(departure, exception)'
  BY <1>1, <1>5 DEF Filed, CopiesTell, LinksAgree, LinkAgrees
<1>7. \A b \in DepartureId : departure[b] # None =>
         departure[b].date \in Date /\ departure[b].date \in Int
  BY <1>5, RowType DEF Date
<1>8. WithinHorizon(departure)'
  BY <1>1, <1>2, <1>5, <1>7 DEF WithinHorizon
<1>9. \A b \in DepartureId : departure[b] # None /\ departure[b].date \in DepartureWindow' =>
         departure[b].date \in DepartureWindow
  BY <1>1, <1>2, <1>5, <1>7 DEF WithinHorizon, DepartureWindow
<1>10. SkipsApplied(departure, exception)'
  <2>1. \A b \in ScheduleId : departure[b] # None /\ b[2] \in DepartureWindow' =>
           b[2] \in DepartureWindow
    BY <1>5, <1>9, DepartureIds DEF Filed
  <2> QED
    BY <1>1, <1>5, <2>1 DEF SkipsApplied, Skips
<1>11. Follows(timetable, departure)'
  <2>1. Follows(timetable, departure)
    BY InvTypes
  <2> QED
    BY <1>1, <1>9, <2>1 DEF Follows, RowFollows, ExtraFollows, Produces, RideRuns
<1>12. NightServes'
  BY <1>1 DEF NightServes, NoNight
<1> QED
  BY <1>4, <1>6, <1>8, <1>10, <1>11, <1>12 DEF Inv, RowsOK

-----------------------------------------------------------------------------
(* The invariant *)

LEMMA InitInv == Init => Inv
<1> SUFFICES ASSUME Init PROVE Inv
  OBVIOUS
<1>1. PICK old \in Legacy :
         /\ exception = old.exception
         /\ departure = [b \in DepartureId |->
               IF b \in ExtraId
               THEN IF old.extra[b] = None THEN None ELSE Following(timetable, old.extra[b])
               ELSE IF b[2] \in 1 .. Horizon /\ Produces(timetable, b[1], b[2])
               THEN [Produced(timetable, b[1], b[2]) EXCEPT
                       !.cancelled = Skips(exception, b[1], b[2]) # {}]
               ELSE None]
  BY DEF Init
<1>2. timetable \in Timetable
  <2>1. \A r \in Ride : timetable[r] \in TimetableRow
    BY RowsAssumption DEF Init
  <2> QED
    BY <2>1 DEF Init, Timetable
<1>3. /\ exception \in Records /\ old.extra \in [ExtraId -> Departure \cup {None}]
      /\ \A x \in ExtraId : old.extra[x] # None =>
            LET row == old.extra[x]
                record == exception[row.exception]
            IN  /\ row.date <= 1 + Horizon
                /\ row.exception = None => row.cancelled \/ row.dropped
                /\ row.exception # None =>
                      /\ ~row.cancelled
                      /\ record # None /\ record.type = "ADDITIONAL" /\ record.time # None
                      /\ record.ride = row.ride /\ record.date = row.date
  BY <1>1, LegacyAssumption DEF Records
<1>4. /\ today = 1 /\ night = NoNight /\ copy = [b \in DepartureId |-> None]
  BY DEF Init
<1>5. today \in Date /\ today \in Int /\ Horizon \in Int
  BY <1>4, CalendarAssumption DEF Date
<1>6. ASSUME NEW x \in ExtraId, departure[x] # None
      PROVE  /\ departure[x] \in Departure /\ departure[x].date <= today + Horizon
             /\ LinkAgrees(departure[x], exception) /\ ExtraFollows(timetable, departure[x])
  <2>1. x \in DepartureId
    BY DepartureIds
  <2>2. departure[x] = Following(timetable, old.extra[x]) /\ old.extra[x] # None
    BY <1>1, <1>6, <2>1
  <2>3. PICK row \in Departure : row = old.extra[x]
    BY <1>3, <2>2
  <2>4. /\ departure[x] \in Departure
        /\ departure[x].ride = row.ride /\ departure[x].date = row.date
        /\ departure[x].cancelled = row.cancelled /\ departure[x].exception = row.exception
        /\ departure[x].dropped <=> ExtraDropped(timetable, row)
    BY <1>2, <2>2, <2>3, FollowingRow
  <2>5. /\ row.date <= 1 + Horizon
        /\ row.exception = None => row.cancelled \/ row.dropped
        /\ row.exception # None => LinkAgrees(row, exception)
    BY <1>3, <2>2, <2>3 DEF LinkAgrees
  <2>6. LinkAgrees(departure[x], exception)
    BY <2>4, <2>5 DEF LinkAgrees, ExtraDropped
  <2>7. ExtraFollows(timetable, departure[x])
    BY <2>4 DEF ExtraFollows, ExtraDropped
  <2> QED
    BY <1>4, <2>4, <2>5, <2>6, <2>7
<1>7. ASSUME NEW b \in ScheduleId, departure[b] # None
      PROVE  /\ Produces(timetable, b[1], b[2]) /\ b[2] \in 1 .. Horizon
             /\ NewScheduled(timetable, exception, departure[b], b)
  <2>1. b \in DepartureId /\ b \notin ExtraId /\ b[1] \in Ride /\ b[2] \in Date
    BY DepartureIds
  <2> DEFINE skipped == Skips(exception, b[1], b[2]) # {}
  <2>2. /\ departure[b] = [Produced(timetable, b[1], b[2]) EXCEPT !.cancelled = skipped]
        /\ b[2] \in 1 .. Horizon /\ Produces(timetable, b[1], b[2])
    BY <1>1, <1>7, <2>1
  <2>3. skipped \in BOOLEAN
    OBVIOUS
  <2> HIDE DEF skipped
  <2>4. departure[b] \in Departure
    BY <1>2, <2>1, <2>2, <2>3, ProducedType
  <2>5. /\ departure[b].ride = b[1] /\ departure[b].date = b[2]
        /\ departure[b].time = timetable[b[1]].base[b[2]] /\ departure[b].dropped = FALSE
        /\ departure[b].exception = None /\ departure[b].cancelled = skipped
    BY <2>2 DEF Produced
  <2> QED
    BY <2>2, <2>4, <2>5 DEF NewScheduled, skipped
<1>8. departure \in Rows
  <2>1. \A b \in DepartureId : departure[b] \in Departure \cup {None}
    BY <1>6, <1>7, DepartureIds DEF NewScheduled
  <2> QED
    BY <1>1, <2>1 DEF Rows
<1>9. copy \in References /\ \A b \in DepartureId : copy[b] = None
  BY <1>4 DEF References
<1>10. TypeOK
  BY <1>2, <1>3, <1>4, <1>5, <1>8, <1>9
     DEF TypeOK, Timetable, Rows, Records, References, NoNight
<1>11. Filed(departure)
  BY <1>7 DEF Filed, NewScheduled
<1>12. WithinHorizon(departure)
  <2> SUFFICES ASSUME NEW b \in DepartureId, departure[b] # None
               PROVE  departure[b].date <= today + Horizon
    BY DEF WithinHorizon
  <2>1. CASE b \in ExtraId
    BY <1>6, <2>1
  <2>2. CASE b \in ScheduleId
    <3>1. departure[b].date = b[2] /\ b[2] \in 1 .. Horizon
      BY <1>7, <2>2 DEF NewScheduled
    <3> QED
      BY <1>4, <1>5, <3>1
  <2> QED
    BY <2>1, <2>2, DepartureIds
<1>13. LinksAgree(departure, exception)
  BY <1>6 DEF LinksAgree
<1>14. SkipsApplied(departure, exception)
  BY <1>7 DEF SkipsApplied, NewScheduled
<1>15. CopiesTell(departure, copy)
  BY <1>9 DEF CopiesTell
<1>16. Follows(timetable, departure)
  <2> SUFFICES ASSUME NEW b \in DepartureId, departure[b] # None
               PROVE  RowFollows(timetable, departure, b)
    BY DEF Follows
  <2>1. CASE b \in ScheduleId
    BY <1>7, <2>1 DEF RowFollows, NewScheduled
  <2>2. CASE b \in ExtraId
    BY <1>6, <2>2, DepartureIds DEF RowFollows
  <2> QED
    BY <2>1, <2>2, DepartureIds
<1>17. NightServes
  BY <1>4 DEF NightServes, NoNight
<1> QED
  BY <1>10, <1>11, <1>12, <1>13, <1>14, <1>15, <1>16, <1>17 DEF Inv, RowsOK

LEMMA NextInv == Inv /\ [Next]_vars => Inv'
<1> SUFFICES ASSUME Inv, [Next]_vars PROVE Inv'
  OBVIOUS
<1>1. CASE Decide
  <2>1. ASSUME NEW b \in DepartureId,
               \/ CancelScheduled(b) \/ CancelExtra(b)
               \/ RestoreScheduled(b) \/ RestoreExtra(b)
               \/ DeleteExtra(b)
        PROVE  Inv'
    BY <2>1, CancelScheduledKeeps, CancelExtraKeeps, RestoreScheduledKeeps, RestoreExtraKeeps,
       DeleteExtraKeeps
  <2>2. ASSUME NEW b \in DepartureId, NEW t \in Time, NEW c \in Capacity, UpdateExtra(b, t, c)
        PROVE  Inv'
    BY <2>2, UpdateExtraKeeps
  <2>3. ASSUME NEW r \in Ride, NEW d \in Date, NEW t \in Time, NEW c \in Capacity,
               CreateExtra(r, d, t, c)
        PROVE  Inv'
    BY <2>3, CreateExtraKeeps
  <2> QED
    BY <1>1, <2>1, <2>2, <2>3 DEF Decide
<1>2. CASE EditSchedule
  <2>1. ASSUME NEW r \in Ride, NEW d \in Date, AddSkip(r, d)
        PROVE  Inv'
    BY <2>1, AddSkipSyncs, EditThenSyncKeeps
  <2>2. ASSUME NEW r \in Ride, NEW d \in Date, NEW t \in Time, AddAdditional(r, d, t)
        PROVE  Inv'
    BY <2>2, AddAdditionalSyncs, EditThenSyncKeeps
  <2>3. ASSUME NEW e \in ExceptionId, RemoveSkip(e) \/ RemoveAdditional(e)
        PROVE  Inv'
    BY <2>3, RemoveSkipSyncs, RemoveAdditionalSyncs, EditThenSyncKeeps
  <2>4. ASSUME NEW r \in Ride, NEW next \in Timetables[r], EditTimetable(r, next)
        PROVE  Inv'
    BY <2>4, EditTimetableSyncs, EditThenSyncKeeps
  <2> QED
    BY <1>2, <2>1, <2>2, <2>3, <2>4 DEF EditSchedule
<1>3. CASE Night
  BY <1>3, StartNightKeeps, NightInsertsKeeps, NightFailsKeeps DEF Night
<1>4. CASE \E b \in DepartureId : Book(b)
  BY <1>4, BookKeeps
<1>5. CASE DayPasses
  BY <1>5, DayPassesKeeps
<1>6. CASE UNCHANGED vars
  <2>1. /\ UNCHANGED <<timetable, departure, exception, copy, today>> /\ night' = night
        /\ night \in [left: SUBSET Tenant, failed: SUBSET Tenant, begun: BOOLEAN]
    BY <1>6 DEF vars, Inv, TypeOK
  <2>2. night'.begun => \A u \in Tenant \ (night'.left \cup night'.failed) : NothingMissing(u)
    BY <2>1 DEF Inv, NightServes
  <2> QED
    BY <2>1, <2>2, NightAloneKeeps
<1> QED
  BY <1>1, <1>2, <1>3, <1>4, <1>5, <1>6 DEF Next

LEMMA SpecInv == Spec => []Inv
BY InitInv, NextInv, PTL DEF Spec

-----------------------------------------------------------------------------
(* The old screen *)

\* Where no mismatch says otherwise, an ADDITIONAL of the window has a bus,
\* and every bus it has leaves at its time.
LEMMA AppliedHasItsBus ==
    ASSUME ~\E e \in ExceptionId : <<"ADDITIONAL_NOT_APPLIED", e>> \in Mismatches,
           NEW e \in ExceptionId, InWindow(exception, e),
           exception[e].type = "ADDITIONAL", exception[e].time # None
    PROVE  /\ LinkedTo(departure, e) # {}
           /\ \A x \in LinkedTo(departure, e) : departure[x].time = exception[e].time
<1> DEFINE unapplied ==
             {f \in ExceptionId : /\ InWindow(exception, f) /\ exception[f].type = "ADDITIONAL"
                                  /\ exception[f].time # None
                                  /\ \/ LinkedTo(departure, f) = {}
                                     \/ \E x \in LinkedTo(departure, f) :
                                            departure[x].time # exception[f].time}
           reported == {<<"ADDITIONAL_NOT_APPLIED", f>> : f \in unapplied}
<1>1. \A m \in reported : m \in Mismatches
  BY DEF Mismatches
<1>2. e \notin unapplied
  <2>1. e \in unapplied => <<"ADDITIONAL_NOT_APPLIED", e>> \in reported
    OBVIOUS
  <2> HIDE DEF unapplied, reported
  <2> QED
    BY <1>1, <2>1
<1> QED
  BY <1>2

LEMMA ScreenShows ==
    ASSUME Inv, NEW r \in Ride, NEW d \in DepartureWindow,
           NothingMissing(TenantOf[r]),
           ~\E e \in ExceptionId : <<"ADDITIONAL_NOT_APPLIED", e>> \in Mismatches
    PROVE  Screen(r, d) = Buses(r, d)
<1> DEFINE base == timetable[r].base[d]
           skipped == IF Skips(exception, r, d) = {} THEN {None} ELSE Time \cup {None}
           listed == {e \in ExceptionId : /\ exception[e] # None
                                          /\ exception[e].type = "ADDITIONAL"
                                          /\ exception[e].ride = r /\ exception[e].date = d
                                          /\ exception[e].time # None}
           added == {x \in ExtraId : Runs(x) /\ departure[x].ride = r /\ departure[x].date = d}
           S1 == {<<"BASE", t>> : t \in {base} \ skipped}
           S2 == {<<e, exception[e].time>> : e \in listed}
           B1 == {<<"BASE", departure[b].time>> : b \in {b \in {<<r, d>>} : Runs(b)}}
           B2 == {<<departure[x].exception, departure[x].time>> : x \in added}
<1>1. Buses(r, d) = B1 \cup B2
  BY DEF Buses
<1>2. d \in Date
  BY DEF DepartureWindow
<1>3. PICK s \in ScheduleId : s = <<r, d>> /\ s[1] = r /\ s[2] = d
  BY <1>2, DateOfRide
<1>4. s \in DepartureId
  BY DepartureIds
<1>5. departure[s] # None => /\ departure[s].ride = r /\ departure[s].date = d
                             /\ RowFollows(timetable, departure, s)
                             /\ departure[s].cancelled <=> Skips(exception, r, d) # {}
  BY <1>3, <1>4, InvTypes DEF RowsOK, Filed, Follows, SkipsApplied
<1>6. base \in Time \cup {None}
  BY <1>2, InvTypes DEF Timetable, TimetableRow
<1>7. ASSUME NEW x \in ExtraId, departure[x] # None, departure[x].date = d
      PROVE  LinkAgrees(departure[x], exception) /\ ExtraFollows(timetable, departure[x])
  BY <1>7, StoredExtraOK DEF ExtraOK
<1>8. CASE ~RideRuns(timetable, r)
  <2>1. ~Runs(s)
    BY <1>3, <1>5, <1>8 DEF RowFollows, Produces, Runs
  <2>2. added = {}
    BY <1>7, <1>8 DEF ExtraFollows, Runs
  <2>3. Screen(r, d) = {}
    BY <1>8 DEF Screen
  <2> QED
    BY <1>1, <1>3, <2>1, <2>2, <2>3
<1>9. CASE RideRuns(timetable, r)
  <2>1. Screen(r, d) = S1 \cup S2
    BY <1>9 DEF Screen
  <2>2. S1 = B1
    <3>1. CASE Skips(exception, r, d) = {} /\ base # None
      <4>1. Produces(timetable, s[1], s[2])
        BY <1>3, <1>9, <3>1 DEF Produces
      <4>2. departure[s] # None
        BY <1>3, <4>1 DEF NothingMissing, MissingScheduled
      <4>3. Runs(s) /\ departure[s].time = base
        BY <1>3, <1>5, <3>1, <4>1, <4>2 DEF RowFollows, Runs
      <4>4. S1 = {<<"BASE", base>>}
        BY <3>1
      <4>5. B1 = {<<"BASE", base>>}
        BY <1>3, <4>3
      <4> QED
        BY <4>4, <4>5
    <3>2. CASE Skips(exception, r, d) # {} \/ base = None
      <4>1. ~Runs(s)
        BY <1>3, <1>5, <3>2 DEF RowFollows, Produces, Runs
      <4>2. B1 = {}
        BY <1>3, <4>1
      <4>3. S1 = {}
        BY <1>6, <3>2
      <4> QED
        BY <4>2, <4>3
    <3> QED
      BY <3>1, <3>2
  <2>3. \A m : m \in S2 => m \in B2
    <3> SUFFICES ASSUME NEW e \in listed PROVE <<e, exception[e].time>> \in B2
      OBVIOUS
    <3>1. InWindow(exception, e)
      BY DEF InWindow
    <3>2. PICK x \in ExtraId : /\ departure[x] # None /\ departure[x].exception = e
                               /\ departure[x].time = exception[e].time
      BY <3>1, AppliedHasItsBus DEF LinkedTo
    <3>3. e # None
      BY NoneIsNoRow
    <3>4. LinkAgrees(departure[x], exception)
      BY <3>2, StoredExtraOK DEF ExtraOK
    <3>5. departure[x].ride = r /\ departure[x].date = d /\ ~departure[x].cancelled
      BY <3>2, <3>3, <3>4 DEF LinkAgrees
    <3>6. ~departure[x].dropped
      BY <1>7, <1>9, <3>2, <3>3, <3>5 DEF ExtraFollows
    <3>7. x \in added
      BY <3>2, <3>5, <3>6 DEF Runs
    <3> QED
      BY <3>2, <3>7
  <2>4. \A m : m \in B2 => m \in S2
    <3> SUFFICES ASSUME NEW x \in added
                 PROVE  <<departure[x].exception, departure[x].time>> \in S2
      OBVIOUS
    <3>1. /\ x \in ExtraId /\ x \in DepartureId /\ departure[x] # None
          /\ ~departure[x].cancelled /\ ~departure[x].dropped
          /\ departure[x].ride = r /\ departure[x].date = d
      BY DepartureIds DEF Runs
    <3>2. PICK e : e = departure[x].exception
      OBVIOUS
    <3>3. /\ e # None /\ exception[e] # None /\ exception[e].type = "ADDITIONAL"
          /\ exception[e].time # None /\ exception[e].ride = r /\ exception[e].date = d
      BY <1>7, <3>1, <3>2 DEF LinkAgrees
    <3>4. e \in ExceptionId
      BY <3>1, <3>2, <3>3, InvTypes, RowType
    <3>5. e \in listed /\ InWindow(exception, e)
      BY <3>3, <3>4 DEF InWindow
    <3>6. x \in LinkedTo(departure, e)
      BY <3>1, <3>2 DEF LinkedTo
    <3>7. departure[x].time = exception[e].time
      BY <3>3, <3>4, <3>5, <3>6, AppliedHasItsBus
    <3> QED
      BY <3>2, <3>5, <3>7
  <2>5. S2 = B2
    BY <2>3, <2>4
  <2> HIDE DEF S1, S2, B1, B2
  <2> QED
    BY <1>1, <2>1, <2>2, <2>5
<1> QED
  BY <1>8, <1>9

-----------------------------------------------------------------------------
(* Theorems *)

\* Every stored departure, exception, copy and timetable keeps its type
\* through every endpoint, every sync and every night.
THEOREM TypeCorrect == Spec => []TypeOK
<1>1. Inv => TypeOK
  BY DEF Inv
<1> QED
  BY <1>1, SpecInv, PTL

\* A bus somebody was ever booked on stays stored and its passengers are told
\* the time it leaves, for any number of rides, buses and days, under every
\* order of moves, timetable edits and syncs (departure-sync.ts diffDepartures
\* and rewriteReservationTimes).
THEOREM CopiesTellAlways == Spec => []CopiesTellTheTime
<1>1. Inv => CopiesTellTheTime
  BY DEF Inv, RowsOK, CopiesTell, CopiesTellTheTime
<1> QED
  BY <1>1, SpecInv, PTL

\* After a night's pass nothing of the window is missing for any tenant it did
\* not fail on, however many tenants there are, whichever it met first and
\* whatever was edited since (departure-nightly.service.ts).
THEOREM NightReachesAlways == Spec => []NightReachesEveryTenant
<1>1. Inv => NightReachesEveryTenant
  BY DEF Inv, NightServes, NightReachesEveryTenant
<1> QED
  BY <1>1, SpecInv, PTL

\* Once the day's departures are stored, what the old screen works out from
\* timetable and exceptions is what is stored and runs, for every ride and
\* every date of the window (ride-instance-materialization.ts).
THEOREM ScreenShowsAlways == Spec => []ScreenShowsTheBuses
<1>1. Inv => ScreenShowsTheBuses
  BY ScreenShows DEF ScreenShowsTheBuses
<1> QED
  BY <1>1, SpecInv, PTL

\* The link of an extra always resolves, to an ADDITIONAL of the same ride and
\* date, and an extra without one is cancelled or dropped: deleting an
\* exception row never leaves a bus that runs without a record.
THEOREM LinksResolve == Spec => []LinksAgree(departure, exception)
<1>1. Inv => LinksAgree(departure, exception)
  BY DEF Inv, RowsOK
<1> QED
  BY <1>1, SpecInv, PTL

-----------------------------------------------------------------------------
(* Rows a full sync would leave as they are *)

RowFixed(tt, row, reference, b) ==
    /\ b \in ExtraId =>
          row.path = tt[row.ride].path /\ (row.dropped <=> ExtraDropped(tt, row))
    /\ b \in ScheduleId /\ Produces(tt, row.ride, row.date) =>
          /\ row.time = tt[row.ride].base[row.date] /\ row.capacity = tt[row.ride].capacity
          /\ row.path = tt[row.ride].path /\ ~row.dropped
    /\ b \in ScheduleId /\ ~Produces(tt, row.ride, row.date) =>
          Kept(row, reference) /\ row.dropped

RowsFixed(tt, rows, references) ==
    \A b \in DepartureId : rows[b] # None /\ rows[b].date \in DepartureWindow =>
        RowFixed(tt, rows[b], references[b], b)

\* The fields of a departure.
LEMMA DepartureEqual ==
    ASSUME NEW row \in Departure, NEW next \in Departure,
           row.ride = next.ride, row.date = next.date, row.time = next.time,
           row.capacity = next.capacity, row.path = next.path, row.dropped = next.dropped,
           row.cancelled = next.cancelled, row.exception = next.exception
    PROVE  row = next
BY DEF Departure

\* What a sync makes of the row of a date the timetable produces.
Remade(tt, row) == [Produced(tt, row.ride, row.date) EXCEPT
                      !.cancelled = row.cancelled, !.exception = row.exception]

LEMMA RemadeRow ==
    ASSUME NEW tt \in Timetable, NEW row \in Departure,
           Produces(tt, row.ride, row.date), NEW next, next = Remade(tt, row)
    PROVE  /\ next \in Departure
           /\ next.ride = row.ride /\ next.date = row.date
           /\ next.time = tt[row.ride].base[row.date] /\ next.capacity = tt[row.ride].capacity
           /\ next.path = tt[row.ride].path /\ next.dropped = FALSE
           /\ next.cancelled = row.cancelled /\ next.exception = row.exception
<1>1. row.ride \in Ride /\ row.date \in Date
  BY DEF Departure
<1>2. /\ tt[row.ride].base[row.date] \in Time /\ tt[row.ride].capacity \in Capacity
      /\ tt[row.ride].path \in Path
  <2>1. tt[row.ride] \in TimetableRow
    BY <1>1 DEF Timetable
  <2> QED
    BY <1>1, <2>1 DEF TimetableRow, Produces
<1>3. /\ next.ride = row.ride /\ next.date = row.date
      /\ next.time = tt[row.ride].base[row.date] /\ next.capacity = tt[row.ride].capacity
      /\ next.path = tt[row.ride].path /\ next.dropped = FALSE
      /\ next.cancelled = row.cancelled /\ next.exception = row.exception
  BY DEF Produced, Remade
<1>4. next = [ride |-> row.ride, date |-> row.date, time |-> tt[row.ride].base[row.date],
              capacity |-> tt[row.ride].capacity, path |-> tt[row.ride].path,
              dropped |-> FALSE, cancelled |-> row.cancelled, exception |-> row.exception]
  BY DEF Produced, Remade
<1>5. row.cancelled \in BOOLEAN /\ row.exception \in ExceptionId \cup {None}
  BY DEF Departure
<1>6. next \in Departure
  <2> DEFINE t == tt[row.ride].base[row.date]
             c == tt[row.ride].capacity
             p == tt[row.ride].path
             r == row.ride
             d == row.date
             x == row.cancelled
             e == row.exception
  <2>1. /\ r \in Ride /\ d \in Date /\ t \in Time /\ c \in Capacity /\ p \in Path
        /\ x \in BOOLEAN /\ e \in ExceptionId \cup {None}
        /\ next = [ride |-> r, date |-> d, time |-> t, capacity |-> c, path |-> p,
                   dropped |-> FALSE, cancelled |-> x, exception |-> e]
    BY <1>1, <1>2, <1>4, <1>5
  <2> HIDE DEF t, c, p, r, d, x, e
  <2> QED
    BY <2>1 DEF Departure
<1> QED
  BY <1>3, <1>6

\* What a sync makes of an extra.
LEMMA FollowedRow ==
    ASSUME NEW tt \in Timetable, NEW row \in Departure, NEW next, next = Following(tt, row)
    PROVE  /\ next \in Departure
           /\ next.ride = row.ride /\ next.date = row.date /\ next.time = row.time
           /\ next.capacity = row.capacity /\ next.path = tt[row.ride].path
           /\ next.cancelled = row.cancelled /\ next.exception = row.exception
           /\ next.dropped \in BOOLEAN /\ (next.dropped <=> ExtraDropped(tt, row))
<1> DEFINE gone == ExtraDropped(tt, row)
           path == tt[row.ride].path
<1>1. next = [row EXCEPT !.path = path, !.dropped = gone]
  BY DEF Following
<1>2. next \in Departure /\ (next.dropped <=> ExtraDropped(tt, row))
  BY FollowingRow
<1> HIDE DEF gone, path
<1>3. /\ next.ride = row.ride /\ next.date = row.date /\ next.time = row.time
      /\ next.capacity = row.capacity /\ next.path = path
      /\ next.cancelled = row.cancelled /\ next.exception = row.exception
  BY <1>1 DEF Departure
<1>4. next.dropped \in BOOLEAN
  BY <1>2 DEF Departure
<1> QED
  BY <1>2, <1>3, <1>4 DEF path

\* A row is fixed exactly where the sync makes itself of it.
LEMMA FixedIsShaped ==
    ASSUME NEW tt \in Timetable, NEW rows \in Rows, NEW references, NEW b \in DepartureId,
           rows[b] # None
    PROVE  Shaped(tt, rows, references, b) = rows[b]
              <=> RowFixed(tt, rows[b], references[b], b)
<1> DEFINE row == rows[b]
           next == Shaped(tt, rows, references, b)
<1>1. row \in Departure /\ row.dropped \in BOOLEAN /\ row # None
  BY RowType
<1> HIDE DEF row
<1>2. CASE b \in ExtraId
  <2>1. next = Following(tt, row) /\ b \notin ScheduleId
    BY <1>2, DepartureIds DEF Shaped, row
  <2> HIDE DEF next
  <2>2. /\ next \in Departure
        /\ next.ride = row.ride /\ next.date = row.date /\ next.time = row.time
        /\ next.capacity = row.capacity /\ next.path = tt[row.ride].path
        /\ next.cancelled = row.cancelled /\ next.exception = row.exception
        /\ next.dropped \in BOOLEAN /\ (next.dropped <=> ExtraDropped(tt, row))
    BY <1>1, <2>1, FollowedRow
  <2>3. ASSUME next = row PROVE RowFixed(tt, row, references[b], b)
    BY <2>1, <2>2, <2>3 DEF RowFixed
  <2>4. ASSUME RowFixed(tt, row, references[b], b) PROVE next = row
    <3>1. next.path = row.path /\ (next.dropped <=> row.dropped)
      BY <1>2, <2>2, <2>4 DEF RowFixed
    <3>2. next.dropped = row.dropped
      BY <1>1, <2>2, <3>1
    <3> QED
      BY <1>1, <2>2, <3>1, <3>2, DepartureEqual
  <2> QED
    BY <2>3, <2>4 DEF next, row
<1>3. CASE b \in ScheduleId /\ Produces(tt, row.ride, row.date)
  <2>1. b \notin ExtraId /\ next = Remade(tt, row)
    BY <1>3, DepartureIds DEF Shaped, Remade, row
  <2> HIDE DEF next
  <2>2. /\ next \in Departure
        /\ next.ride = row.ride /\ next.date = row.date
        /\ next.time = tt[row.ride].base[row.date] /\ next.capacity = tt[row.ride].capacity
        /\ next.path = tt[row.ride].path /\ next.dropped = FALSE
        /\ next.cancelled = row.cancelled /\ next.exception = row.exception
    BY <1>1, <1>3, <2>1, RemadeRow
  <2>3. ASSUME next = row PROVE RowFixed(tt, row, references[b], b)
    BY <1>3, <2>1, <2>2, <2>3 DEF RowFixed
  <2>4. ASSUME RowFixed(tt, row, references[b], b) PROVE next = row
    <3>1. /\ row.time = next.time /\ row.capacity = next.capacity
          /\ row.path = next.path /\ ~row.dropped
      BY <1>3, <2>2, <2>4 DEF RowFixed
    <3>2. row.dropped = next.dropped
      BY <1>1, <2>2, <3>1
    <3> QED
      BY <1>1, <2>2, <3>1, <3>2, DepartureEqual
  <2> QED
    BY <2>3, <2>4 DEF next, row
<1>4. CASE b \in ScheduleId /\ ~Produces(tt, row.ride, row.date)
  <2>1. /\ b \notin ExtraId
        /\ next = IF Kept(row, references[b]) THEN [row EXCEPT !.dropped = TRUE] ELSE None
    BY <1>4, DepartureIds DEF Shaped, row
  <2> HIDE DEF next
  <2>2. ASSUME next = row PROVE RowFixed(tt, row, references[b], b)
    <3>1. Kept(row, references[b]) /\ row = [row EXCEPT !.dropped = TRUE]
      BY <1>1, <2>1, <2>2
    <3>2. row.dropped = TRUE
      BY <1>1, <3>1 DEF Departure
    <3> QED
      BY <1>4, <2>1, <3>1, <3>2 DEF RowFixed
  <2>3. ASSUME RowFixed(tt, row, references[b], b) PROVE next = row
    <3>1. Kept(row, references[b]) /\ row.dropped = TRUE
      BY <1>1, <1>4, <2>3 DEF RowFixed
    <3>2. [row EXCEPT !.dropped = TRUE] = row
      BY <1>1, <3>1 DEF Departure
    <3> QED
      BY <2>1, <3>1, <3>2
  <2> QED
    BY <2>2, <2>3 DEF next, row
<1> QED
  BY <1>2, <1>3, <1>4, DepartureIds

\* A full sync changes nothing exactly where every row of the window is fixed.
AllFixed == RowsFixed(timetable, departure, copy)

LEMMA InStepIsFixed == Inv => (InStep <=> AllFixed)
<1> SUFFICES ASSUME Inv PROVE InStep <=> AllFixed
  OBVIOUS
<1>1. ASSUME NEW b \in DepartureId, departure[b] # None, departure[b].date \in DepartureWindow
      PROVE  \E t \in Tenant : InReach(departure, t, b)
  <2>1. TenantOf[departure[b].ride] \in Tenant
    BY <1>1, InvTypes, RowType, RideAssumption
  <2> QED
    BY <1>1, <2>1 DEF InReach
<1>2. \A t \in Tenant, b \in DepartureId : InReach(departure, t, b) =>
         departure[b] # None /\ departure[b].date \in DepartureWindow
  BY DEF InReach
<1>3. ASSUME NEW b \in DepartureId, departure[b] # None
      PROVE  Shaped(timetable, departure, copy, b) = departure[b]
                <=> RowFixed(timetable, departure[b], copy[b], b)
  BY <1>3, InvTypes, FixedIsShaped
<1> QED
  BY <1>1, <1>2, <1>3 DEF InStep, AllFixed, RowsFixed

\* What a sync leaves of a row it finds, another sync would leave again.
LEMMA ShapedFixed ==
    ASSUME NEW tt \in Timetable, NEW rows \in Rows, NEW references, NEW b \in DepartureId,
           rows[b] # None, NEW next, next = Shaped(tt, rows, references, b), next # None,
           NEW reference, references[b] # None => reference # None
    PROVE  RowFixed(tt, next, reference, b)
<1> DEFINE row == rows[b]
<1>1. row \in Departure /\ row.dropped \in BOOLEAN /\ row # None
  BY RowType
<1> HIDE DEF row
<1>2. CASE b \in ExtraId
  <2>1. next = Following(tt, row) /\ b \notin ScheduleId
    BY <1>2, DepartureIds DEF Shaped, row
  <2>2. /\ next.ride = row.ride /\ next.path = tt[row.ride].path
        /\ next.cancelled = row.cancelled /\ next.exception = row.exception
        /\ (next.dropped <=> ExtraDropped(tt, row))
    BY <1>1, <2>1, FollowedRow
  <2>3. ExtraDropped(tt, next) <=> ExtraDropped(tt, row)
    <3>1. ExtraDropped(tt, row) <=> \/ ~RideRuns(tt, row.ride)
                                    \/ row.exception = None /\ ~row.cancelled /\ row.dropped
      BY DEF ExtraDropped
    <3>2. ExtraDropped(tt, next) <=> \/ ~RideRuns(tt, row.ride)
                                     \/ row.exception = None /\ ~row.cancelled /\ next.dropped
      BY <2>2 DEF ExtraDropped
    <3> QED
      BY <2>2, <3>1, <3>2
  <2> QED
    BY <2>1, <2>2, <2>3 DEF RowFixed
<1>3. CASE b \in ScheduleId /\ Produces(tt, row.ride, row.date)
  <2>1. b \notin ExtraId /\ next = Remade(tt, row)
    BY <1>3, DepartureIds DEF Shaped, Remade, row
  <2>2. /\ next.ride = row.ride /\ next.date = row.date
        /\ next.time = tt[row.ride].base[row.date] /\ next.capacity = tt[row.ride].capacity
        /\ next.path = tt[row.ride].path /\ next.dropped = FALSE
    BY <1>1, <1>3, <2>1, RemadeRow
  <2> QED
    BY <1>3, <2>1, <2>2 DEF RowFixed
<1>4. CASE b \in ScheduleId /\ ~Produces(tt, row.ride, row.date)
  <2>1. /\ b \notin ExtraId /\ Kept(row, references[b])
        /\ next = [row EXCEPT !.dropped = TRUE]
    BY <1>4, DepartureIds DEF Shaped, row
  <2>2. /\ next.ride = row.ride /\ next.date = row.date /\ next.dropped = TRUE
        /\ next.cancelled = row.cancelled
    BY <1>1, <2>1 DEF Departure
  <2>3. Kept(next, reference)
    BY <2>1, <2>2 DEF Kept
  <2> QED
    BY <1>4, <2>1, <2>2, <2>3 DEF RowFixed
<1> QED
  BY <1>2, <1>3, <1>4, DepartureIds

\* What a sync inserts, another sync would leave.
LEMMA InsertedFixed ==
    ASSUME NEW tt \in Timetable, NEW rows \in Rows, NEW records \in Records, NEW t \in Tenant,
           NEW placed \in Placements(rows, MissingExtras(rows, records, t)),
           NEW next, next = Inserted(tt, rows, records, t, placed),
           NEW b \in DepartureId, next[b] # rows[b], NEW reference
    PROVE  RowFixed(tt, next[b], reference, b) /\ rows[b] = None
<1> DEFINE missing == MissingExtras(rows, records, t)
<1>1. /\ placed \in [missing -> Free(ExtraId, rows)] /\ DOMAIN placed = missing
      /\ \A e \in missing : placed[e] \in ExtraId /\ rows[placed[e]] = None
  BY DEF Placements, Free
<1>2. CASE b \in MissingScheduled(tt, rows, t)
  <2>1. b \in ScheduleId /\ b \notin ExtraId /\ Produces(tt, b[1], b[2]) /\ rows[b] = None
    BY <1>2, DepartureIds DEF MissingScheduled
  <2> DEFINE skipped == Skips(records, b[1], b[2]) # {}
  <2>2. next[b] = [Produced(tt, b[1], b[2]) EXCEPT !.cancelled = skipped]
    BY <1>2 DEF Inserted
  <2> HIDE DEF skipped
  <2>3. /\ next[b].ride = b[1] /\ next[b].date = b[2]
        /\ next[b].time = tt[b[1]].base[b[2]] /\ next[b].capacity = tt[b[1]].capacity
        /\ next[b].path = tt[b[1]].path /\ next[b].dropped = FALSE
    BY <2>2 DEF Produced
  <2> QED
    BY <2>1, <2>3 DEF RowFixed
<1>3. CASE b \notin MissingScheduled(tt, rows, t) /\ \E e \in missing : placed[e] = b
  <2> DEFINE e == CHOOSE e \in missing : placed[e] = b
             a == records[e]
  <2>1. e \in missing /\ placed[e] = b
    BY <1>3
  <2>2. next[b] = NewExtra(tt, a.ride, a.date, a.time, tt[a.ride].capacity, e)
    BY <1>1, <1>3 DEF Inserted
  <2>3. e \in ExceptionId /\ e # None
    BY <2>1, NoneIsNoRow DEF MissingExtras
  <2>4. b \in ExtraId /\ b \notin ScheduleId /\ rows[b] = None
    BY <1>1, <2>1, DepartureIds
  <2> HIDE DEF e, a
  <2>5. /\ next[b].ride = a.ride /\ next[b].path = tt[a.ride].path
        /\ next[b].dropped = ~RideRuns(tt, a.ride) /\ next[b].exception = e
    BY <2>2 DEF NewExtra
  <2>6. ExtraDropped(tt, next[b]) <=> ~RideRuns(tt, a.ride)
    BY <2>3, <2>5 DEF ExtraDropped
  <2> QED
    BY <2>4, <2>5, <2>6 DEF RowFixed
<1>4. CASE b \notin MissingScheduled(tt, rows, t) /\ ~\E e \in missing : placed[e] = b
  BY <1>1, <1>4 DEF Inserted
<1> QED
  BY <1>2, <1>3, <1>4

\* What the rows say of the time a passenger is told changes only for those
\* told one.
LEMMA RecopiedNone ==
    ASSUME NEW references \in References, NEW rows \in Rows, NEW next \in Rows,
           NEW b \in DepartureId
    PROVE  references[b] # None => Recopied(references, rows, next)[b] # None
<1>1. next[b] # None => next[b].time # None
  BY RowType, NoneIsNoRow
<1> QED
  BY <1>1 DEF Recopied

\* After an edit of one tenant and its full sync all rows are fixed where they
\* were before.
LEMMA SyncFixes ==
    ASSUME Inv, NEW tt \in Timetable, NEW rows \in Rows, NEW records \in Records,
           NEW t \in Tenant, \A r \in Ride : TenantOf[r] # t => tt[r] = timetable[r],
           OnlyOf(DepartureId, departure, rows, t),
           NEW placed \in Placements(rows, MissingExtras(rows, records, t)),
           NEW next, next = Synced(tt, rows, records, copy, t, placed),
           RowsFixed(timetable, departure, copy)
    PROVE  RowsFixed(tt, next, Recopied(copy, rows, next))
<1>1. next \in Rows
  BY SyncedRows
<1>2. ASSUME NEW b \in DepartureId
      PROVE  copy[b] # None => Recopied(copy, rows, next)[b] # None
  BY <1>1, InvTypes, RecopiedNone
<1> SUFFICES ASSUME NEW b \in DepartureId, next[b] # None, next[b].date \in DepartureWindow
             PROVE  RowFixed(tt, next[b], Recopied(copy, rows, next)[b], b)
  BY DEF RowsFixed
<1> DEFINE reference == Recopied(copy, rows, next)[b]
<1>3. copy[b] # None => reference # None
  BY <1>2
<1> HIDE DEF reference
<1>4. CASE InReach(rows, t, b)
  <2>1. next[b] = Shaped(tt, rows, copy, b) /\ rows[b] # None
    BY <1>4 DEF Synced, InReach
  <2>2. RowFixed(tt, next[b], reference, b)
    BY <1>3, <2>1, ShapedFixed
  <2> QED
    BY <2>2 DEF reference
<1>5. CASE ~InReach(rows, t, b)
  <2>1. PICK inserted : inserted = Inserted(tt, rows, records, t, placed)
    OBVIOUS
  <2>2. next[b] = inserted[b]
    BY <1>5, <2>1 DEF Synced
  <2>3. CASE inserted[b] # rows[b]
    <3>1. RowFixed(tt, inserted[b], reference, b)
      BY <2>1, <2>3, InsertedFixed
    <3> QED
      BY <2>2, <3>1 DEF reference
  <2>4. CASE inserted[b] = rows[b]
    <3>1. rows[b] = next[b] /\ TenantOf[rows[b].ride] # t
      BY <1>5, <2>2, <2>4 DEF InReach
    <3>2. departure[b] = rows[b]
      BY <3>1 DEF OnlyOf
    <3>3. RowFixed(timetable, rows[b], copy[b], b)
      BY <3>1, <3>2 DEF RowsFixed
    <3>4. tt[rows[b].ride] = timetable[rows[b].ride]
      BY <3>1, RowType
    <3>5. RowFixed(tt, rows[b], reference, b)
      BY <1>3, <3>3, <3>4 DEF RowFixed, Produces, RideRuns, ExtraDropped, Kept
    <3> QED
      BY <3>1, <3>5 DEF reference
  <2> QED
    BY <2>3, <2>4
<1> QED
  BY <1>4, <1>5

LEMMA InStepNext == Inv' => (InStep' <=> AllFixed')
<1>1. Inv => (InStep <=> AllFixed)
  BY InStepIsFixed
<1> QED
  BY <1>1, PTL

\* While the agency's date stays, the rows that a step leaves fixed are in step.
LEMMA FixedNext ==
    ASSUME today' = today, RowsFixed(timetable', departure', copy')
    PROVE  AllFixed'
<1>1. DepartureWindow' = DepartureWindow
  BY DEF DepartureWindow
<1> QED
  BY <1>1 DEF AllFixed, RowsFixed, RowFixed, Produces, RideRuns, ExtraDropped, Kept

\* A decision on one bus leaves the rows fixed where it leaves that bus so.
LEMMA OneBusFixed ==
    ASSUME Inv, AllFixed, NEW b \in DepartureId, NEW next,
           \A a \in DepartureId : a # b => next[a] = departure[a],
           NEW references, \A a \in DepartureId : copy[a] # None => references[a] # None,
           next[b] # None /\ next[b].date \in DepartureWindow =>
              RowFixed(timetable, next[b], references[b], b)
    PROVE  RowsFixed(timetable, next, references)
<1> SUFFICES ASSUME NEW a \in DepartureId, next[a] # None, next[a].date \in DepartureWindow
             PROVE  RowFixed(timetable, next[a], references[a], a)
  BY DEF RowsFixed
<1>1. CASE a = b
  BY <1>1
<1>2. CASE a # b
  <2>1. RowFixed(timetable, next[a], copy[a], a)
    BY <1>2 DEF AllFixed, RowsFixed
  <2> QED
    BY <2>1 DEF RowFixed, Kept
<1> QED
  BY <1>1, <1>2

LEMMA EditThenSyncFixes == Inv /\ AllFixed /\ EditThenSync => AllFixed'
<1> SUFFICES ASSUME Inv, AllFixed, EditThenSync PROVE AllFixed'
  OBVIOUS
<1>1. PICK tt \in Timetable, rows \in Rows, records \in Records, t \in Tenant :
         /\ \A r \in Ride : TenantOf[r] # t => tt[r] = timetable[r]
         /\ OnlyOf(DepartureId, departure, rows, t)
         /\ FullSync(tt, rows, records, t)
         /\ today' = today
  BY DEF EditThenSync
<1>2. PICK placed \in Placements(rows, MissingExtras(rows, records, t)) :
         /\ timetable' = tt
         /\ departure' = Synced(tt, rows, records, copy, t, placed)
         /\ copy' = Recopied(copy, rows, Synced(tt, rows, records, copy, t, placed))
  BY <1>1 DEF FullSync
<1>3. PICK next : next = Synced(tt, rows, records, copy, t, placed)
  OBVIOUS
<1>4. RowsFixed(tt, next, Recopied(copy, rows, next))
  BY <1>1, <1>3, SyncFixes DEF AllFixed
<1>5. RowsFixed(timetable', departure', copy')
  BY <1>2, <1>3, <1>4
<1> QED
  BY <1>1, <1>5, FixedNext

LEMMA CancelScheduledFixes ==
    ASSUME Inv, AllFixed, NEW b \in DepartureId, CancelScheduled(b)
    PROVE  AllFixed'
<1>1. /\ b \in ScheduleId /\ departure[b] # None /\ departure[b].date \in DepartureWindow
      /\ departure' = [departure EXCEPT ![b].cancelled = TRUE]
      /\ UNCHANGED <<timetable, copy, today>>
  BY DEF CancelScheduled, Operated, Decidable, Decided
<1>2. PICK next : next = departure'
  OBVIOUS
<1>3. departure[b] \in Departure /\ departure \in Rows
  BY <1>1, InvTypes, RowType
<1>4. /\ next[b] = [departure[b] EXCEPT !.cancelled = TRUE]
      /\ \A a \in DepartureId : a # b => next[a] = departure[a]
  BY <1>1, <1>2, <1>3 DEF Rows
<1>5. /\ next[b].ride = departure[b].ride /\ next[b].date = departure[b].date
      /\ next[b].time = departure[b].time /\ next[b].capacity = departure[b].capacity
      /\ next[b].path = departure[b].path /\ next[b].dropped = departure[b].dropped
      /\ next[b].cancelled
  BY <1>3, <1>4 DEF Departure
<1>6. b \notin ExtraId /\ RowFixed(timetable, departure[b], copy[b], b)
  BY <1>1, DepartureIds DEF AllFixed, RowsFixed
<1>7. RowFixed(timetable, next[b], copy[b], b)
  BY <1>5, <1>6 DEF RowFixed, Kept
<1>8. RowsFixed(timetable, next, copy)
  BY <1>4, <1>7, OneBusFixed
<1> QED
  BY <1>1, <1>2, <1>8, FixedNext

LEMMA RestoreScheduledFixes ==
    ASSUME Inv, AllFixed, NEW b \in DepartureId, RestoreScheduled(b)
    PROVE  AllFixed'
<1>1. /\ b \in ScheduleId /\ departure[b] # None /\ departure[b].date \in DepartureWindow
      /\ ~departure[b].dropped
      /\ departure' = [departure EXCEPT ![b].cancelled = FALSE]
      /\ UNCHANGED <<timetable, copy, today>>
  BY DEF RestoreScheduled, Operated, Decidable, Decided
<1>2. PICK next : next = departure'
  OBVIOUS
<1>3. departure[b] \in Departure /\ departure \in Rows
  BY <1>1, InvTypes, RowType
<1>4. /\ next[b] = [departure[b] EXCEPT !.cancelled = FALSE]
      /\ \A a \in DepartureId : a # b => next[a] = departure[a]
  BY <1>1, <1>2, <1>3 DEF Rows
<1>5. /\ next[b].ride = departure[b].ride /\ next[b].date = departure[b].date
      /\ next[b].time = departure[b].time /\ next[b].capacity = departure[b].capacity
      /\ next[b].path = departure[b].path /\ next[b].dropped = departure[b].dropped
  BY <1>3, <1>4 DEF Departure
<1>6. b \notin ExtraId /\ RowFixed(timetable, departure[b], copy[b], b)
  BY <1>1, DepartureIds DEF AllFixed, RowsFixed
<1>7. RowFixed(timetable, next[b], copy[b], b)
  BY <1>1, <1>5, <1>6 DEF RowFixed
<1>8. RowsFixed(timetable, next, copy)
  BY <1>4, <1>7, OneBusFixed
<1> QED
  BY <1>1, <1>2, <1>8, FixedNext

\* The cancelling of an orphan the timetable dropped.
OrphanCancelled ==
    \E x \in ExtraId : /\ InWindow(departure, x)
                       /\ departure[x].dropped /\ departure[x].exception = None
                       /\ ~departure[x].cancelled /\ departure'[x].cancelled

LEMMA CancelExtraFixes ==
    ASSUME Inv, AllFixed, NEW b \in DepartureId, CancelExtra(b)
    PROVE  AllFixed' \/ OrphanCancelled
<1> DEFINE row == departure[b]
<1>1. /\ b \in ExtraId /\ row # None /\ row.date \in DepartureWindow /\ ~row.cancelled
      /\ UNCHANGED <<timetable, copy, today>>
  BY DEF CancelExtra, Operated, Decidable, Decided
<1>2. row \in Departure /\ departure \in Rows
  BY <1>1, InvTypes, RowType
<1>3. PICK rows : rows = [departure EXCEPT ![b].cancelled = TRUE, ![b].exception = None]
  OBVIOUS
<1>4. departure' = Unlinked(rows, Released(rows, b))
  BY <1>3 DEF CancelExtra
<1>5. /\ rows[b] = [row EXCEPT !.cancelled = TRUE, !.exception = None]
      /\ \A a \in DepartureId : a # b => rows[a] = departure[a]
      /\ rows = [a \in DepartureId |-> IF a = b THEN [row EXCEPT !.cancelled = TRUE,
                                                                 !.exception = None]
                                       ELSE departure[a]]
  BY <1>2, <1>3 DEF Rows
<1> HIDE DEF row
<1>6. /\ rows[b] \in Departure /\ rows[b].ride = row.ride /\ rows[b].path = row.path
      /\ rows[b].dropped = row.dropped /\ rows[b].cancelled = TRUE /\ rows[b].exception = None
  BY <1>2, <1>5, RowsAssumption DEF Departure
<1>7. rows \in Rows
  BY <1>2, <1>5, <1>6 DEF Rows
<1>8. \A a \in DepartureId : departure'[a] = rows[a]
  <2>1. \A a \in DepartureId : rows[a] # None => rows[a].exception \notin Released(rows, b)
    BY <1>1, <1>5, <1>6, <1>7, ReleasedLinks DEF row
  <2> QED
    BY <1>4, <2>1 DEF Unlinked
<1>9. PICK next : next = departure'
  OBVIOUS
<1>10. RowFixed(timetable, row, copy[b], b)
  BY <1>1 DEF AllFixed, RowsFixed, row
<1>11. CASE row.dropped /\ row.exception = None
  BY <1>1, <1>6, <1>8, <1>11 DEF OrphanCancelled, InWindow, row
<1>12. CASE ~(row.dropped /\ row.exception = None)
  <2>1. b \notin ScheduleId
    BY <1>1, DepartureIds
  <2>2. row.path = timetable[row.ride].path /\ (row.dropped <=> ~RideRuns(timetable, row.ride))
    BY <1>1, <1>10, <1>12 DEF RowFixed, ExtraDropped
  <2>3. RowFixed(timetable, rows[b], copy[b], b)
    BY <1>6, <2>1, <2>2 DEF RowFixed, ExtraDropped
  <2>4. RowsFixed(timetable, next, copy)
    BY <1>5, <1>8, <1>9, <2>3, OneBusFixed
  <2> QED
    BY <1>1, <1>9, <2>4, FixedNext
<1> QED
  BY <1>11, <1>12

LEMMA DeleteExtraFixes ==
    ASSUME Inv, AllFixed, NEW b \in DepartureId, DeleteExtra(b)
    PROVE  AllFixed'
<1>1. /\ b \in ExtraId /\ departure[b] # None /\ UNCHANGED <<timetable, copy, today>>
  BY DEF DeleteExtra, Operated, Decided
<1>2. PICK rows : rows = [departure EXCEPT ![b] = None]
  OBVIOUS
<1>3. departure' = Unlinked(rows, Released(rows, b))
  BY <1>2 DEF DeleteExtra
<1>4. /\ rows \in Rows /\ rows[b] = None
      /\ \A a \in DepartureId : a # b => rows[a] = departure[a]
  BY <1>2, InvTypes DEF Rows
<1>5. \A a \in DepartureId : departure'[a] = rows[a]
  <2>1. \A a \in DepartureId : rows[a] # None => rows[a].exception \notin Released(rows, b)
    BY <1>1, <1>4, ReleasedLinks
  <2> QED
    BY <1>3, <2>1 DEF Unlinked
<1>6. PICK next : next = departure'
  OBVIOUS
<1>7. RowsFixed(timetable, next, copy)
  BY <1>4, <1>5, <1>6, OneBusFixed
<1> QED
  BY <1>1, <1>6, <1>7, FixedNext

LEMMA RestoreExtraFixes ==
    ASSUME Inv, AllFixed, NEW b \in DepartureId, RestoreExtra(b)
    PROVE  AllFixed'
<1> DEFINE row == departure[b]
<1>1. PICK e \in ExceptionId :
         departure' = [departure EXCEPT ![b].cancelled = FALSE, ![b].exception = e]
  BY DEF RestoreExtra, Free
<1>2. /\ b \in ExtraId /\ row # None /\ row.date \in DepartureWindow /\ ~row.dropped
      /\ UNCHANGED <<timetable, copy, today>>
  BY DEF RestoreExtra, Operated, Decidable, Decided
<1>3. row \in Departure /\ departure \in Rows /\ e # None
  BY <1>2, InvTypes, RowType, NoneIsNoRow
<1>4. PICK next : next = departure'
  OBVIOUS
<1>5. /\ next[b] = [row EXCEPT !.cancelled = FALSE, !.exception = e]
      /\ \A a \in DepartureId : a # b => next[a] = departure[a]
  BY <1>1, <1>3, <1>4 DEF Rows
<1>6. RowFixed(timetable, row, copy[b], b) /\ b \notin ScheduleId
  BY <1>2, DepartureIds DEF AllFixed, RowsFixed
<1> HIDE DEF row
<1>7. /\ next[b].ride = row.ride /\ next[b].path = row.path /\ next[b].dropped = row.dropped
      /\ next[b].exception = e
  BY <1>3, <1>5 DEF Departure
<1>8. RowFixed(timetable, next[b], copy[b], b)
  BY <1>2, <1>3, <1>6, <1>7 DEF RowFixed, ExtraDropped
<1>9. RowsFixed(timetable, next, copy)
  BY <1>5, <1>8, OneBusFixed
<1> QED
  BY <1>2, <1>4, <1>9, FixedNext

LEMMA CreateExtraFixes ==
    ASSUME Inv, AllFixed, NEW r \in Ride, NEW d \in Date, NEW t \in Time, NEW c \in Capacity,
           CreateExtra(r, d, t, c)
    PROVE  AllFixed'
<1>1. PICK e \in ExceptionId, x \in ExtraId :
         departure' = [departure EXCEPT ![x] = NewExtra(timetable, r, d, t, c, e)]
  BY DEF CreateExtra
<1>2. UNCHANGED <<timetable, copy, today>>
  BY DEF CreateExtra, Decided
<1>3. PICK next : next = departure'
  OBVIOUS
<1>4. x \in DepartureId /\ x \notin ScheduleId /\ e # None /\ departure \in Rows
  BY DepartureIds, InvTypes, NoneIsNoRow
<1>5. /\ next[x] = NewExtra(timetable, r, d, t, c, e)
      /\ \A a \in DepartureId : a # x => next[a] = departure[a]
  BY <1>1, <1>3, <1>4 DEF Rows
<1>6. /\ next[x].ride = r /\ next[x].path = timetable[r].path /\ next[x].exception = e
      /\ next[x].dropped = ~RideRuns(timetable, r)
  BY <1>5 DEF NewExtra
<1>7. RowFixed(timetable, next[x], copy[x], x)
  BY <1>4, <1>6 DEF RowFixed, ExtraDropped
<1>8. RowsFixed(timetable, next, copy)
  BY <1>4, <1>5, <1>7, OneBusFixed
<1> QED
  BY <1>2, <1>3, <1>8, FixedNext

LEMMA ResizeFixes ==
    ASSUME Inv, AllFixed, NEW b \in DepartureId, NEW c \in Capacity,
           b \in ExtraId, Operated(b),
           departure' = [departure EXCEPT ![b].capacity = c],
           UNCHANGED <<timetable, copy, today>>
    PROVE  AllFixed'
<1> DEFINE row == departure[b]
<1>1. row # None /\ row.date \in DepartureWindow
  BY DEF Operated, Decidable
<1>2. row \in Departure /\ departure \in Rows
  BY <1>1, InvTypes, RowType
<1>3. PICK next : next = departure'
  OBVIOUS
<1>4. /\ next[b] = [row EXCEPT !.capacity = c]
      /\ \A a \in DepartureId : a # b => next[a] = departure[a]
  BY <1>2, <1>3 DEF Rows
<1>5. RowFixed(timetable, row, copy[b], b) /\ b \notin ScheduleId
  BY <1>1, DepartureIds DEF AllFixed, RowsFixed
<1> HIDE DEF row
<1>6. /\ next[b].ride = row.ride /\ next[b].path = row.path /\ next[b].dropped = row.dropped
      /\ next[b].exception = row.exception /\ next[b].cancelled = row.cancelled
  BY <1>2, <1>4 DEF Departure
<1>7. RowFixed(timetable, next[b], copy[b], b)
  BY <1>5, <1>6 DEF RowFixed, ExtraDropped
<1>8. RowsFixed(timetable, next, copy)
  BY <1>4, <1>7, OneBusFixed
<1> QED
  BY <1>3, <1>8, FixedNext

LEMMA MoveFixes ==
    ASSUME Inv, AllFixed, NEW b \in DepartureId, NEW t \in Time, NEW c \in Capacity,
           b \in ExtraId, Operated(b),
           NEW moved, moved = [departure EXCEPT ![b] =
              Following(timetable, [departure[b] EXCEPT !.time = t, !.capacity = c])],
           departure' = moved, copy' = Recopied(copy, departure, moved),
           UNCHANGED <<timetable, today>>
    PROVE  AllFixed'
<1> DEFINE row == departure[b]
<1>1. row # None
  BY DEF Operated
<1>2. row \in Departure /\ departure \in Rows /\ timetable \in Timetable
  BY <1>1, InvTypes, RowType
<1>3. PICK edited : edited = [row EXCEPT !.time = t, !.capacity = c]
  OBVIOUS
<1> HIDE DEF row
<1>4. edited \in Departure
  BY <1>2, <1>3 DEF Departure
<1>5. /\ moved[b] = Following(timetable, edited)
      /\ \A a \in DepartureId : a # b => moved[a] = departure[a]
      /\ moved = [a \in DepartureId |-> IF a = b THEN Following(timetable, edited)
                                       ELSE departure[a]]
  BY <1>2, <1>3 DEF Rows, row
<1>6. PICK next : next = Following(timetable, edited)
  OBVIOUS
<1>7. /\ next \in Departure
      /\ next.ride = edited.ride /\ next.path = timetable[edited.ride].path
      /\ next.cancelled = edited.cancelled /\ next.exception = edited.exception
      /\ (next.dropped <=> ExtraDropped(timetable, edited))
  BY <1>2, <1>4, <1>6, FollowedRow
<1>8. moved \in Rows
  BY <1>2, <1>5, <1>6, <1>7 DEF Rows
<1>9. b \notin ScheduleId
  BY DepartureIds
<1>10. \A reference : RowFixed(timetable, next, reference, b)
  <2>1. ExtraDropped(timetable, next) <=> ExtraDropped(timetable, edited)
    BY <1>7 DEF ExtraDropped
  <2> QED
    BY <1>7, <1>9, <2>1 DEF RowFixed
<1>11. PICK references : references = Recopied(copy, departure, moved)
  OBVIOUS
<1>12. \A a \in DepartureId : copy[a] # None => references[a] # None
  BY <1>2, <1>8, <1>11, InvTypes, RecopiedNone
<1>13. RowsFixed(timetable, moved, references)
  BY <1>5, <1>6, <1>10, <1>12, OneBusFixed
<1> QED
  BY <1>11, <1>13, FixedNext

LEMMA UpdateExtraFixes ==
    ASSUME Inv, AllFixed, NEW b \in DepartureId, NEW t \in Time, NEW c \in Capacity,
           UpdateExtra(b, t, c)
    PROVE  AllFixed'
<1>1. b \in ExtraId /\ Operated(b) /\ UNCHANGED <<timetable, today>>
  BY DEF UpdateExtra, Decided
<1>2. CASE departure' = [departure EXCEPT ![b].capacity = c] /\ UNCHANGED copy
  BY <1>1, <1>2, ResizeFixes
<1>3. PICK moved : moved = [departure EXCEPT ![b] =
         Following(timetable, [departure[b] EXCEPT !.time = t, !.capacity = c])]
  OBVIOUS
<1>4. CASE departure' = moved /\ copy' = Recopied(copy, departure, moved)
  BY <1>1, <1>3, <1>4, MoveFixes
<1> QED
  BY <1>2, <1>3, <1>4 DEF UpdateExtra

LEMMA NightInsertsFixes ==
    ASSUME Inv, AllFixed, NEW t \in Tenant, NightInserts(t)
    PROVE  AllFixed'
<1>1. PICK placed \in Placements(departure, MissingExtras(departure, exception, t)) :
         departure' = Inserted(timetable, departure, exception, t, placed)
  BY DEF NightInserts
<1>2. PICK next : next = Inserted(timetable, departure, exception, t, placed)
  OBVIOUS
<1>3. UNCHANGED <<timetable, copy, today>>
  BY DEF NightInserts
<1>4. ASSUME NEW b \in DepartureId, next[b] # None, next[b].date \in DepartureWindow
      PROVE  RowFixed(timetable, next[b], copy[b], b)
  <2>1. CASE next[b] # departure[b]
    BY <1>2, <2>1, InvTypes, InsertedFixed
  <2>2. CASE next[b] = departure[b]
    BY <1>4, <2>2 DEF AllFixed, RowsFixed
  <2> QED
    BY <2>1, <2>2
<1>5. RowsFixed(timetable, next, copy)
  BY <1>4 DEF RowsFixed
<1> QED
  BY <1>1, <1>2, <1>3, <1>5, FixedNext

LEMMA BookFixes ==
    ASSUME Inv, AllFixed, NEW b \in DepartureId, Book(b)
    PROVE  AllFixed'
<1>1. /\ copy' = [copy EXCEPT ![b] = departure[b].time] /\ departure[b] # None
      /\ UNCHANGED <<timetable, departure, today>>
  BY DEF Book, Runs
<1>2. departure[b].time # None /\ copy \in References
  BY <1>1, InvTypes, RowType, NoneIsNoRow
<1>3. PICK references : references = copy'
  OBVIOUS
<1>4. \A a \in DepartureId : copy[a] # None => references[a] # None
  BY <1>1, <1>2, <1>3 DEF References
<1>5. RowFixed(timetable, departure[b], copy[b], b) \/ departure[b].date \notin DepartureWindow
  BY <1>1 DEF AllFixed, RowsFixed
<1>6. departure[b].date \in DepartureWindow =>
         RowFixed(timetable, departure[b], references[b], b)
  BY <1>4, <1>5 DEF RowFixed, Kept
<1>7. RowsFixed(timetable, departure, references)
  BY <1>4, <1>6, OneBusFixed
<1> QED
  BY <1>1, <1>3, <1>7, FixedNext

\* A date that is in the window once the day has passed was there before.
LEMMA DayPassesFixes == Inv /\ AllFixed /\ DayPasses => AllFixed'
<1> SUFFICES ASSUME Inv, AllFixed, DayPasses PROVE AllFixed'
  OBVIOUS
<1>1. today' = today + 1 /\ UNCHANGED <<timetable, departure, copy>>
  BY DEF DayPasses
<1>2. today \in Int /\ Horizon \in Nat /\ departure \in Rows /\ WithinHorizon(departure)
  BY InvTypes, CalendarAssumption DEF RowsOK, Date
<1>3. \A b \in DepartureId : departure[b] # None =>
         departure[b].date \in Date /\ departure[b].date \in Int
  BY <1>2, RowType DEF Date
<1>4. \A b \in DepartureId : departure[b] # None /\ departure[b].date \in DepartureWindow' =>
         departure[b].date \in DepartureWindow
  BY <1>1, <1>2, <1>3 DEF WithinHorizon, DepartureWindow
<1> QED
  BY <1>1, <1>4 DEF AllFixed, RowsFixed, RowFixed, Produces, RideRuns, ExtraDropped, Kept

LEMMA NextFixes == Inv /\ AllFixed /\ [Next]_vars => AllFixed' \/ OrphanCancelled
<1> SUFFICES ASSUME Inv, AllFixed, [Next]_vars PROVE AllFixed' \/ OrphanCancelled
  OBVIOUS
<1>1. CASE Decide
  <2>1. ASSUME NEW b \in DepartureId,
               \/ CancelScheduled(b) \/ CancelExtra(b)
               \/ RestoreScheduled(b) \/ RestoreExtra(b)
               \/ DeleteExtra(b)
        PROVE  AllFixed' \/ OrphanCancelled
    BY <2>1, CancelScheduledFixes, CancelExtraFixes, RestoreScheduledFixes, RestoreExtraFixes,
       DeleteExtraFixes
  <2>2. ASSUME NEW b \in DepartureId, NEW t \in Time, NEW c \in Capacity, UpdateExtra(b, t, c)
        PROVE  AllFixed'
    BY <2>2, UpdateExtraFixes
  <2>3. ASSUME NEW r \in Ride, NEW d \in Date, NEW t \in Time, NEW c \in Capacity,
               CreateExtra(r, d, t, c)
        PROVE  AllFixed'
    BY <2>3, CreateExtraFixes
  <2> QED
    BY <1>1, <2>1, <2>2, <2>3 DEF Decide
<1>2. CASE EditSchedule
  <2>1. EditThenSync
    BY <1>2, AddSkipSyncs, AddAdditionalSyncs, RemoveSkipSyncs, RemoveAdditionalSyncs,
       EditTimetableSyncs DEF EditSchedule
  <2> QED
    BY <2>1, EditThenSyncFixes
<1>3. CASE Night
  <2>1. CASE \E t \in Tenant : NightInserts(t)
    BY <2>1, NightInsertsFixes
  <2>2. CASE StartNight \/ \E t \in Tenant : NightFails(t)
    <3>1. UNCHANGED <<timetable, departure, copy, today>>
      BY <2>2 DEF StartNight, NightFails
    <3> QED
      BY <3>1, FixedNext DEF AllFixed
  <2> QED
    BY <1>3, <2>1, <2>2 DEF Night
<1>4. CASE \E b \in DepartureId : Book(b)
  BY <1>4, BookFixes
<1>5. CASE DayPasses
  BY <1>5, DayPassesFixes
<1>6. CASE UNCHANGED vars
  <2>1. UNCHANGED <<timetable, departure, copy, today>>
    BY <1>6 DEF vars
  <2> QED
    BY <2>1, FixedNext DEF AllFixed
<1> QED
  BY <1>1, <1>2, <1>3, <1>4, <1>5, <1>6 DEF Next

\* The departure endpoints may leave the sync out and the nightly job may
\* apply its creates alone: where a full sync would change nothing, it would
\* change nothing after any step either, but for the cancelling of an orphan
\* the timetable dropped (departure-operations.ts, departure-nightly.service.ts).
THEOREM EndpointsStayInStep == Spec => StaysInStep
<1>1. Inv /\ Inv' /\ [Next]_vars =>
         [InStep => InStep' \/ OrphanCancelled]_vars
  BY NextFixes, InStepIsFixed, InStepNext
<1>2. [InStep => InStep' \/ OrphanCancelled]_vars =>
         [InStep => \/ InStep'
                    \/ \E x \in ExtraId : /\ InWindow(departure, x)
                                          /\ departure[x].dropped /\ departure[x].exception = None
                                          /\ ~departure[x].cancelled /\ departure'[x].cancelled]_vars
  BY DEF OrphanCancelled
<1> QED
  BY <1>1, <1>2, SpecInv, PTL DEF Spec, StaysInStep

-----------------------------------------------------------------------------
(* Departures and their exception rows agree as long as they did *)

\* An extra a sync leaves was there, with its link and its time, or is the bus
\* of an ADDITIONAL that had none.
LEMMA ExtraAfterSync ==
    ASSUME NEW tt, NEW rows, NEW records, NEW references, NEW t, NEW placed, NEW next,
           SyncedAs(tt, rows, records, references, t, placed, next),
           NEW x \in ExtraId
    PROVE  /\ rows[x] # None =>
                 /\ next[x] # None /\ next[x].date = rows[x].date
                 /\ next[x].time = rows[x].time /\ next[x].cancelled = rows[x].cancelled
                 /\ next[x].exception = rows[x].exception
           /\ rows[x] = None /\ next[x] # None =>
                 \E e \in MissingExtras(rows, records, t) :
                    placed[e] = x /\ next[x].exception = e /\ next[x].time = records[e].time
<1> DEFINE missing == MissingExtras(rows, records, t)
<1>1. x \in DepartureId /\ x \notin ScheduleId /\ x \notin MissingScheduled(tt, rows, t)
  BY DepartureIds DEF MissingScheduled
<1>2. ASSUME NEW e \in missing, placed[e] = x
      PROVE  rows[x] = None /\ next[x].exception = e /\ next[x].time = records[e].time
  BY <1>2 DEF SyncedAs, NewFor
<1>3. \/ InReach(rows, t, x) /\ ShapedFacts(tt, rows[x], references, next[x], x)
      \/ ~InReach(rows, t, x) /\ next[x] = rows[x]
      \/ \E e \in missing : placed[e] = x
  BY <1>1 DEF SyncedAs
<1> HIDE DEF missing
<1>4. CASE InReach(rows, t, x) /\ ShapedFacts(tt, rows[x], references, next[x], x)
  BY <1>4 DEF InReach, ShapedFacts, SameBus
<1>5. CASE next[x] = rows[x]
  BY <1>5
<1>6. CASE \E e \in missing : placed[e] = x
  BY <1>2, <1>6 DEF missing
<1> QED
  BY <1>3, <1>4, <1>5, <1>6

LEMMA SyncNotWorse ==
    ASSUME Inv, NEW tt, NEW rows, NEW records, NEW references, NEW t, NEW placed, NEW next,
           SyncedAs(tt, rows, records, references, t, placed, next),
           RowsOK(rows, records, references), NothingWorse(rows, records)
    PROVE  NothingWorse(next, records)
<1> SUFFICES ASSUME OneBusEach(departure)
             PROVE  /\ OneBusEach(next)
                    /\ \A x \in ExtraId : Orphaned(next, x) => Orphaned(departure, x)
                    /\ \A x \in ExtraId, e \in ExceptionId :
                          OffTime(next, records, x, e) => OffTime(departure, exception, x, e)
                    /\ \A e \in ExceptionId :
                          Unserved(next, records, e) => Unserved(departure, exception, e)
  BY DEF NothingWorse
<1>1. /\ OneBusEach(rows)
      /\ \A x \in ExtraId : Orphaned(rows, x) => Orphaned(departure, x)
      /\ \A x \in ExtraId, e \in ExceptionId :
            OffTime(rows, records, x, e) => OffTime(departure, exception, x, e)
      /\ \A e \in ExceptionId :
            Unserved(rows, records, e) => Unserved(departure, exception, e)
  BY DEF NothingWorse
<1> DEFINE missing == MissingExtras(rows, records, t)
<1>2. ASSUME NEW x \in ExtraId, rows[x] # None
      PROVE  /\ next[x] # None /\ next[x].date = rows[x].date
             /\ next[x].time = rows[x].time /\ next[x].cancelled = rows[x].cancelled
             /\ next[x].exception = rows[x].exception
  BY <1>2, ExtraAfterSync
<1>3. ASSUME NEW x \in ExtraId, rows[x] = None, next[x] # None
      PROVE  \E e \in missing :
                placed[e] = x /\ next[x].exception = e /\ next[x].time = records[e].time
  BY <1>3, ExtraAfterSync
<1>4. ASSUME NEW e \in missing, NEW x \in ExtraId, rows[x] # None
      PROVE  rows[x].exception # e
  <2> SUFFICES ASSUME rows[x].exception = e PROVE FALSE
    OBVIOUS
  <2>1. Wanted(records, t, e) /\ ~Served(rows, t, e) /\ e \in ExceptionId
    BY MissingIsUnserved
  <2>2. LinksAgree(rows, records) /\ LinkedTo(rows, e) # {}
    BY <1>4 DEF RowsOK, LinkedTo
  <2> QED
    BY <2>1, <2>2, LinkedIsServed
<1>5. missing \subseteq ExceptionId
  BY DEF MissingExtras
<1> HIDE DEF missing
<1>6. OneBusEach(next)
  <2> SUFFICES ASSUME NEW x \in ExtraId, NEW y \in ExtraId, next[x] # None, next[y] # None,
                      next[x].exception # None, next[x].exception = next[y].exception
               PROVE  x = y
    BY DEF OneBusEach
  <2>1. CASE rows[x] # None /\ rows[y] # None
    <3>1. next[x].exception = rows[x].exception /\ next[y].exception = rows[y].exception
      BY <1>2, <2>1
    <3> QED
      BY <1>1, <2>1, <3>1 DEF OneBusEach
  <2>2. CASE rows[x] = None /\ rows[y] # None
    BY <1>2, <1>3, <1>4, <2>2
  <2>3. CASE rows[x] # None /\ rows[y] = None
    BY <1>2, <1>3, <1>4, <2>3
  <2>4. CASE rows[x] = None /\ rows[y] = None
    BY <1>3, <2>4
  <2> QED
    BY <2>1, <2>2, <2>3, <2>4
<1>7. ASSUME NEW x \in ExtraId, Orphaned(next, x) PROVE Orphaned(departure, x)
  <2>1. rows[x] # None
    BY <1>3, <1>5, <1>7, NoneIsNoRow DEF Orphaned
  <2>2. Orphaned(rows, x)
    BY <1>2, <1>7, <2>1 DEF Orphaned
  <2> QED
    BY <1>1, <2>2
<1>8. ASSUME NEW x \in ExtraId, NEW e \in ExceptionId, OffTime(next, records, x, e)
      PROVE  OffTime(departure, exception, x, e)
  <2>1. rows[x] # None
    BY <1>3, <1>8 DEF OffTime
  <2>2. OffTime(rows, records, x, e)
    BY <1>2, <1>8, <2>1 DEF OffTime
  <2> QED
    BY <1>1, <2>2
<1>9. ASSUME NEW e \in ExceptionId, Unserved(next, records, e)
      PROVE  Unserved(departure, exception, e)
  <2>1. LinkedTo(rows, e) = {}
    BY <1>2, <1>9 DEF Unserved, LinkedTo
  <2>2. Unserved(rows, records, e)
    BY <1>9, <2>1 DEF Unserved
  <2> QED
    BY <1>1, <2>2
<1> QED
  BY <1>6, <1>7, <1>8, <1>9

LEMMA EditThenSyncNotWorse == Inv /\ EditThenSync => NothingWorse(departure', exception')
<1> SUFFICES ASSUME Inv, EditThenSync PROVE NothingWorse(departure', exception')
  OBVIOUS
<1>1. PICK tt \in Timetable, rows \in Rows, records \in Records, t \in Tenant :
         RowsOK(rows, records, copy) /\ NothingWorse(rows, records) /\ FullSync(tt, rows, records, t)
  BY DEF EditThenSync
<1>2. PICK placed \in Placements(rows, MissingExtras(rows, records, t)) :
         /\ departure' = Synced(tt, rows, records, copy, t, placed)
         /\ exception' = records
  BY <1>1 DEF FullSync
<1>3. PICK next : next = Synced(tt, rows, records, copy, t, placed)
  OBVIOUS
<1>4. SyncedAs(tt, rows, records, copy, t, placed, next)
  BY <1>3, SyncedRows
<1>5. NothingWorse(next, records)
  BY <1>1, <1>4, SyncNotWorse
<1> QED
  BY <1>2, <1>3, <1>5

LEMMA NightInsertsNotWorse ==
    ASSUME Inv, NEW t \in Tenant, NightInserts(t)
    PROVE  NothingWorse(departure', exception')
<1>1. PICK placed \in Placements(departure, MissingExtras(departure, exception, t)) :
         departure' = Inserted(timetable, departure, exception, t, placed)
  BY DEF NightInserts
<1>2. PICK next : next = Inserted(timetable, departure, exception, t, placed)
  OBVIOUS
<1>3. SyncedAs(timetable, departure, exception, copy, t, placed, next)
  BY <1>2, InsertedIsSynced
<1>4. NothingWorse(departure, exception)
  BY DEF NothingWorse
<1>5. NothingWorse(next, exception)
  BY <1>3, <1>4, InvTypes, SyncNotWorse
<1>6. exception' = exception
  BY DEF NightInserts
<1> QED
  BY <1>1, <1>2, <1>5, <1>6

\* No step makes anything worse while the agency's date stays.
LEMMA NextNotWorse == Inv /\ [Next]_vars => DayPasses \/ NothingWorse(departure', exception')
<1> SUFFICES ASSUME Inv, [Next]_vars PROVE DayPasses \/ NothingWorse(departure', exception')
  OBVIOUS
<1>1. CASE Decide
  <2>1. ASSUME NEW b \in DepartureId,
               \/ CancelScheduled(b) \/ CancelExtra(b)
               \/ RestoreScheduled(b) \/ RestoreExtra(b)
               \/ DeleteExtra(b)
        PROVE  NothingWorse(departure', exception')
    BY <2>1, CancelScheduledKeeps, CancelExtraKeeps, RestoreScheduledKeeps, RestoreExtraKeeps,
       DeleteExtraKeeps
  <2>2. ASSUME NEW b \in DepartureId, NEW t \in Time, NEW c \in Capacity, UpdateExtra(b, t, c)
        PROVE  NothingWorse(departure', exception')
    BY <2>2, UpdateExtraKeeps
  <2>3. ASSUME NEW r \in Ride, NEW d \in Date, NEW t \in Time, NEW c \in Capacity,
               CreateExtra(r, d, t, c)
        PROVE  NothingWorse(departure', exception')
    BY <2>3, CreateExtraKeeps
  <2> QED
    BY <1>1, <2>1, <2>2, <2>3 DEF Decide
<1>2. CASE EditSchedule
  <2>1. EditThenSync
    BY <1>2, AddSkipSyncs, AddAdditionalSyncs, RemoveSkipSyncs, RemoveAdditionalSyncs,
       EditTimetableSyncs DEF EditSchedule
  <2> QED
    BY <2>1, EditThenSyncNotWorse
<1>3. CASE \E t \in Tenant : NightInserts(t)
  BY <1>3, NightInsertsNotWorse
<1>4. CASE UNCHANGED <<departure, exception>>
  BY <1>4 DEF NothingWorse
<1> QED
  BY <1>1, <1>2, <1>3, <1>4 DEF Next, Night, StartNight, NightFails, Book, vars

\* While the rows are in order these are all the mismatches there can be.
Disagreeing ==
    {<<"ADDITIONAL_NOT_APPLIED", e>> : e \in
       {e \in ExceptionId : \/ Unserved(departure, exception, e)
                            \/ \E x \in ExtraId : OffTime(departure, exception, x, e)}}
    \cup {<<"EXTRA_WITHOUT_ADDITIONAL", x>> : x \in {x \in ExtraId : Orphaned(departure, x)}}

LEMMA MismatchesAre == Inv => Mismatches = Disagreeing
<1> SUFFICES ASSUME Inv PROVE Mismatches = Disagreeing
  OBVIOUS
<1> DEFINE Listed(b) == /\ departure[b].exception # None
                        /\ InWindow(exception, departure[b].exception)
           skips == {e \in ExceptionId :
                       /\ InWindow(exception, e) /\ exception[e].type = "SKIP"
                       /\ LET b == <<exception[e].ride, exception[e].date>>
                          IN  departure[b] # None /\ ~departure[b].cancelled}
           cancelled == {b \in ScheduleId : /\ InWindow(departure, b) /\ departure[b].cancelled
                                            /\ Skips(exception, b[1], b[2]) = {}}
           additionals == {e \in ExceptionId :
                             /\ InWindow(exception, e) /\ exception[e].type = "ADDITIONAL"
                             /\ exception[e].time # None
                             /\ \/ LinkedTo(departure, e) = {}
                                \/ \E x \in LinkedTo(departure, e) :
                                       departure[x].time # exception[e].time}
           extras == {b \in ExtraId : /\ InWindow(departure, b) /\ ~departure[b].cancelled
                                      /\ ~Listed(b)}
           kept == {b \in ExtraId : /\ InWindow(departure, b) /\ departure[b].cancelled
                                    /\ Listed(b)}
<1>1. Mismatches = UNION {{<<"SKIP_NOT_APPLIED", e>> : e \in skips},
                          {<<"CANCELLED_WITHOUT_SKIP", b>> : b \in cancelled},
                          {<<"ADDITIONAL_NOT_APPLIED", e>> : e \in additionals},
                          {<<"EXTRA_WITHOUT_ADDITIONAL", b>> : b \in extras},
                          {<<"CANCELLED_EXTRA_HAS_ADDITIONAL", b>> : b \in kept}}
  BY DEF Mismatches
<1>2. skips = {}
  <2> SUFFICES ASSUME NEW e \in skips PROVE FALSE
    OBVIOUS
  <2>1. exception[e] \in Exception /\ exception[e].date \in DepartureWindow
    BY InvTypes DEF Records, InWindow
  <2>2. exception[e].ride \in Ride /\ exception[e].date \in Date
    BY <2>1 DEF Exception
  <2>3. PICK b \in ScheduleId : /\ b = <<exception[e].ride, exception[e].date>>
                                /\ b[1] = exception[e].ride /\ b[2] = exception[e].date
    BY <2>2, DateOfRide
  <2>4. departure[b] # None /\ ~departure[b].cancelled
    BY <2>3
  <2>5. e \in Skips(exception, b[1], b[2])
    BY <2>3 DEF Skips, InWindow
  <2> QED
    BY <2>1, <2>3, <2>4, <2>5, InvTypes DEF RowsOK, SkipsApplied
<1>3. cancelled = {}
  BY InvTypes DEF RowsOK, SkipsApplied, Filed, InWindow
<1>4. additionals = {e \in ExceptionId : \/ Unserved(departure, exception, e)
                                         \/ \E x \in ExtraId : OffTime(departure, exception, x, e)}
  BY DEF Unserved, OffTime, Asks, InWindow, LinkedTo
<1>5. ASSUME NEW x \in ExtraId, InWindow(departure, x)
      PROVE  /\ Listed(x) <=> departure[x].exception # None
             /\ departure[x].cancelled => departure[x].exception = None
  <2>1. LinkAgrees(departure[x], exception)
    BY <1>5, StoredExtraOK DEF ExtraOK, InWindow
  <2> QED
    BY <1>5, <2>1 DEF LinkAgrees, InWindow
<1> HIDE DEF Listed
<1>6. extras = {x \in ExtraId : Orphaned(departure, x)}
  <2>1. ASSUME NEW x \in ExtraId
        PROVE  InWindow(departure, x) /\ ~departure[x].cancelled /\ ~Listed(x)
                  <=> Orphaned(departure, x)
    BY <1>5 DEF Orphaned, InWindow
  <2> QED
    BY <2>1
<1>7. kept = {}
  BY <1>5
<1> HIDE DEF skips, cancelled, additionals, extras, kept
<1> QED
  BY <1>1, <1>2, <1>3, <1>4, <1>6, <1>7 DEF Disagreeing

LEMMA MismatchesNext == Inv' => Mismatches' = Disagreeing'
<1>1. Inv => Mismatches = Disagreeing
  BY MismatchesAre
<1>2. Inv' => (Mismatches = Disagreeing)'
  BY <1>1, PTL
<1> QED
  BY <1>2

LEMMA DisagreeingNext ==
    ASSUME today' = today, OneBusEach(departure), NothingWorse(departure', exception')
    PROVE  Disagreeing' \subseteq Disagreeing
<1>1. DepartureWindow' = DepartureWindow
  BY DEF DepartureWindow
<1>2. PICK rows, records : rows = departure' /\ records = exception'
  OBVIOUS
<1>3. Disagreeing' =
         {<<"ADDITIONAL_NOT_APPLIED", e>> : e \in
            {e \in ExceptionId : \/ Unserved(rows, records, e)
                                 \/ \E x \in ExtraId : OffTime(rows, records, x, e)}}
         \cup {<<"EXTRA_WITHOUT_ADDITIONAL", x>> : x \in {x \in ExtraId : Orphaned(rows, x)}}
  BY <1>1, <1>2 DEF Disagreeing, Unserved, OffTime, Orphaned, Asks, LinkedTo
<1>4. /\ \A x \in ExtraId : Orphaned(rows, x) => Orphaned(departure, x)
      /\ \A x \in ExtraId, e \in ExceptionId :
            OffTime(rows, records, x, e) => OffTime(departure, exception, x, e)
      /\ \A e \in ExceptionId :
            Unserved(rows, records, e) => Unserved(departure, exception, e)
  BY <1>2 DEF NothingWorse
<1> QED
  BY <1>3, <1>4 DEF Disagreeing

LEMMA InitOneBusEach ==
    ASSUME \A old \in Legacy : OneBusEach(old.extra), Init
    PROVE  OneBusEach(departure)
<1>1. PICK old \in Legacy :
         departure = [b \in DepartureId |->
            IF b \in ExtraId
            THEN IF old.extra[b] = None THEN None ELSE Following(timetable, old.extra[b])
            ELSE IF b[2] \in 1 .. Horizon /\ Produces(timetable, b[1], b[2])
            THEN [Produced(timetable, b[1], b[2]) EXCEPT
                    !.cancelled = Skips(exception, b[1], b[2]) # {}]
            ELSE None]
  BY DEF Init
<1>2. \A x \in ExtraId : old.extra[x] # None => old.extra[x] \in Departure
  BY LegacyAssumption
<1>3. ASSUME NEW x \in ExtraId, departure[x] # None
      PROVE  old.extra[x] # None /\ departure[x].exception = old.extra[x].exception
  <2>1. old.extra[x] # None /\ departure[x] = Following(timetable, old.extra[x])
    BY <1>1, <1>3, DepartureIds
  <2> QED
    BY <1>2, <2>1 DEF Following, Departure
<1>4. OneBusEach(old.extra)
  OBVIOUS
<1> QED
  BY <1>3, <1>4 DEF OneBusEach

\* No decision, move, edit, sync or night makes a departure and its exception
\* row disagree where they agreed (departure-operations.ts:17-29), where no
\* two extras stored before shared one ADDITIONAL: moving one of two that do
\* rewrites the ADDITIONAL of the other, and leaves that one behind at the old
\* time.
THEOREM NoneNewlyDisagree ==
    ASSUME \A old \in Legacy : OneBusEach(old.extra)
    PROVE  Spec => NoNewMismatch
<1>1. Init => OneBusEach(departure)
  BY InitOneBusEach
<1>2. Inv /\ OneBusEach(departure) /\ [Next]_vars => OneBusEach(departure)'
  <2>1. ASSUME DayPasses, OneBusEach(departure) PROVE OneBusEach(departure)'
    BY <2>1 DEF DayPasses, OneBusEach
  <2> QED
    BY <2>1, NextNotWorse DEF NothingWorse, OneBusEach
<1>3. Inv /\ Inv' /\ OneBusEach(departure) /\ [Next]_vars =>
         [today' # today \/ Mismatches' \subseteq Mismatches]_vars
  <2> SUFFICES ASSUME Inv, Inv', OneBusEach(departure), [Next]_vars, today' = today
               PROVE  Mismatches' \subseteq Mismatches
    OBVIOUS
  <2>1. ~DayPasses
    BY InvTypes, CalendarAssumption DEF DayPasses, Date
  <2>2. Disagreeing' \subseteq Disagreeing
    BY <2>1, NextNotWorse, DisagreeingNext
  <2> QED
    BY <2>2, MismatchesAre, MismatchesNext
<1> QED
  BY <1>1, <1>2, <1>3, SpecInv, PTL DEF Spec, NoNewMismatch

=============================================================================
