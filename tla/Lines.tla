-------------------------------- MODULE Lines ---------------------------------
(***************************************************************************)
(* Lines, the two directions of a pair, and the day schedules of the rides *)
(* that run on them.                                                       *)
(*                                                                         *)
(* A line's route is stored three times over: as its own stops, reversed   *)
(* as the stops of the opposite direction, and as the station list of      *)
(* every day schedule of its rides.  Line and ride edits hold the tenant's *)
(* exclusive schedule lock for their whole transaction, so each is one     *)
(* step.  Creating a reverse line is not: it reads the source, then the    *)
(* lines of that route, and inserts last.  The two repairs scan outside    *)
(* the lock and rewrite one pair or one schedule per transaction.          *)
(***************************************************************************)
EXTENDS Integers, Sequences, FiniteSets, SequencesExt

CONSTANTS
    LineId,
    RideId,
    Station,
    Caller,         \* requests that create a reverse line
    None,
    Unset,          \* a field a request leaves out
    MinutesPerDay,  \* MINUTES_PER_DAY
    StopInterval,   \* DEFAULT_STOP_INTERVAL_MINUTES
    NewLines,       \* inputs of a create
    LinePatches,    \* inputs of an update
    Timetables,     \* the times operators enter, by station
    AskedStatus,    \* the statuses their requests ask for
    Stored,         \* the lines and rides there may be at the start
    MaxEdits        \* bound: edits of lines and rides

ASSUME ClockAssumption == /\ MinutesPerDay \in Nat \ {0}
                          /\ StopInterval \in Nat
ASSUME BoundAssumption == MaxEdits \in Nat

VARIABLES
    line,           \* the Line rows with their LineStop rows
    ride,           \* the Ride rows with their day schedule
    call,           \* what each request for a reverse line has read
    repair,         \* the pairs and the rides a repair has still to visit
    edits           \* the line and ride edits made so far

vars == <<line, ride, call, repair, edits>>

-----------------------------------------------------------------------------
(* Rows *)

Time == 0 .. MinutesPerDay - 1

Stop == [station: Station, boarding: BOOLEAN, dropoff: BOOLEAN]

\* pairKey: the ID of the line a pair was made from (`pair-<id>`), or None.
LineRow ==
    [departure: Station, arrival: Station, mode: {"BOTH", "SINGLE"},
     direction: {"OUTBOUND", "RETURN"}, pairKey: LineId \cup {None},
     active: BOOLEAN, stops: Seq(Stop)]

\* times: the day schedule, empty while it carries no times.
RideRow ==
    [line: LineId, status: {"DRAFT", "ACTIVE", "INACTIVE"},
     times: Seq([station: Station, time: Time \cup {None}])]

\* An update names the fields it changes.
LinePatch ==
    [departure: Station \cup {Unset}, arrival: Station \cup {Unset},
     mode: {"BOTH", "SINGLE", Unset}, direction: {"OUTBOUND", "RETURN", Unset},
     pairKey: LineId \cup {None, Unset}, active: BOOLEAN \cup {Unset},
     stops: Seq(Stop) \cup {Unset}]

ASSUME RowsAssumption ==
    /\ None \notin LineId \cup Time \cup LineRow \cup RideRow
    /\ NewLines \subseteq LineRow
    /\ LinePatches \subseteq LinePatch
    /\ Timetables \subseteq [Station -> Time \cup {None}]
    /\ AskedStatus \subseteq {"DRAFT", "ACTIVE", "INACTIVE"}

Call == [step: {"idle", "read", "checked"}, source: LineId \cup {None},
         input: LineRow \cup {None}]

NoCall == [step |-> "idle", source |-> None, input |-> None]

TypeOK ==
    /\ line \in [LineId -> LineRow \cup {None}]
    /\ ride \in [RideId -> RideRow \cup {None}]
    /\ call \in [Caller -> Call]
    /\ repair \in [pairs: SUBSET LineId, rides: SUBSET RideId]
    /\ edits \in 0 .. MaxEdits

StoredIn(rows) == {x \in DOMAIN rows : rows[x] # None}

Map(s, F(_)) == [i \in DOMAIN s |-> F(s[i])]
StationsOf(s) == Map(s, LAMBDA x : x.station)

\* What of list s is in S, in its order (Array.filter; SelectSeq as a recursive
\* function, which can be proved about).
Keep(s, S) ==
    LET kept[n \in 0 .. Len(s)] ==
            IF n = 0 THEN <<>>
            ELSE IF s[n] \in S THEN Append(kept[n - 1], s[n]) ELSE kept[n - 1]
    IN kept[Len(s)]

-----------------------------------------------------------------------------
(* Routes and schedules *)

Route(row) == <<row.departure>> \o StationsOf(row.stops) \o <<row.arrival>>

IsScheduleAligned(times, route) == times = <<>> \/ StationsOf(times) = route

TimeAt(times, s) ==
    IF \E i \in DOMAIN times : times[i].station = s
    THEN (CHOOSE t \in ToSet(times) : t.station = s).time
    ELSE None

\* a/b rounded to the nearest integer, halves up (Math.round).
Rounded(a, b) == (2 * a + b) \div (2 * b)

\* Mutant of ToTimeString: minutes run past midnight.
ToTimeStringUnwrapped(minutes) == minutes

ToTimeString(minutes) == minutes % MinutesPerDay

\* From one time to the next; overnight legs wrap past midnight.
Span(from, to) == IF to >= from THEN to - from ELSE to + MinutesPerDay - from

\* The time of the i-th station of a route where the times `known` are known:
\* spread over the gap between two known times, else so many intervals from
\* the nearest one.
EstimatedTime(known, i) ==
    LET before == {j \in 1 .. i - 1 : known[j] # None}
        after == {j \in i + 1 .. Len(known) : known[j] # None}
        p == CHOOSE j \in before : \A k \in before : k <= j
        n == CHOOSE j \in after : \A k \in after : j <= k
    IN CASE before # {} /\ after # {} ->
                ToTimeString(known[p] + Rounded(Span(known[p], known[n]) * (i - p), n - p))
         [] before # {} /\ after = {} -> ToTimeString(known[p] + StopInterval * (i - p))
         [] before = {} /\ after # {} -> ToTimeString(known[n] - StopInterval * (n - i))
         [] OTHER -> None

\* Mutant of AlignedStationTimes: the times are kept by position.
AlignedStationTimesByPosition(route, times) ==
    [i \in DOMAIN route |->
        [station |-> route[i], time |-> IF i \in DOMAIN times THEN times[i].time ELSE None]]

\* Mutant of AlignedStationTimes: stations new to the route get no time.
AlignedStationTimesBlank(route, times) ==
    [i \in DOMAIN route |-> [station |-> route[i], time |-> TimeAt(times, route[i])]]

\* What the schedule knows is kept, matched by station; the rest estimated.
AlignedStationTimes(route, times) ==
    LET known == Map(route, LAMBDA s : TimeAt(times, s))
    IN [i \in DOMAIN route |->
           [station |-> route[i],
            time |-> IF known[i] # None THEN known[i] ELSE EstimatedTime(known, i)]]

\* The rides of lines ls, brought along with their routes.
Realigned(rides, rows, ls) ==
    [r \in RideId |->
        IF /\ rides[r] # None /\ rides[r].line \in ls
           /\ ~IsScheduleAligned(rides[r].times, Route(rows[rides[r].line]))
        THEN [rides[r] EXCEPT !.times =
                 AlignedStationTimes(Route(rows[rides[r].line]), @)]
        ELSE rides[r]]

\* The table over two orders: a cell is a position in each, one past the end
\* where nothing is left of that order.
Cells(before, after) == (1 .. Len(before) + 1) \X (1 .. Len(after) + 1)
AtEnd(before, after, c) == c[1] > Len(before) \/ c[2] > Len(after)

\* A step further in the old order, in the new one, in both.
Down(c) == <<c[1] + 1, c[2]>>
Right(c) == <<c[1], c[2] + 1>>
Diagonal(c) == <<c[1] + 1, c[2] + 1>>

\* Lengths of the longest common subsequences of the tails of two orders.
CommonLength(before, after) ==
    LET length[c \in Cells(before, after)] ==
            IF AtEnd(before, after, c) THEN 0
            ELSE IF before[c[1]] = after[c[2]] THEN length[Diagonal(c)] + 1
            ELSE IF length[Down(c)] >= length[Right(c)]
                 THEN length[Down(c)] ELSE length[Right(c)]
    IN length

\* Mutant of ReorderedStations: the walk skips ahead in the new order.
ReorderedStationsGreedy(before, after) ==
    LET kept[c \in Cells(before, after)] ==
            IF AtEnd(before, after, c) THEN {}
            ELSE IF before[c[1]] = after[c[2]] THEN {before[c[1]]} \cup kept[Diagonal(c)]
            ELSE kept[Right(c)]
    IN ToSet(before) \ kept[<<1, 1>>]

\* The stations kept on the walk through that table; the others moved.
ReorderedStations(before, after) ==
    LET length == CommonLength(before, after)
        kept[c \in Cells(before, after)] ==
            IF AtEnd(before, after, c) THEN {}
            ELSE IF before[c[1]] = after[c[2]] THEN {before[c[1]]} \cup kept[Diagonal(c)]
            ELSE IF length[Down(c)] >= length[Right(c)] THEN kept[Down(c)]
            ELSE kept[Right(c)]
    IN ToSet(before) \ kept[<<1, 1>>]

\* The drift reported for a schedule: surviving stations out of order.
ScheduleDrift(times, route) ==
    LET surviving == ToSet(StationsOf(times)) \cap ToSet(route)
        before == Keep(StationsOf(times), surviving)
        after == Keep(route, surviving)
    IN [before |-> before, after |-> after, reordered |-> ReorderedStations(before, after)]

-----------------------------------------------------------------------------
(* Pairs *)

Flipped(s) == [station |-> s.station, boarding |-> s.dropoff, dropoff |-> s.boarding]

\* Mutant of ReversedStops: the other way, in the same order.
ReversedStopsUnturned(stops) == Map(stops, Flipped)

ReversedStops(stops) == Map(Reverse(stops), Flipped)

NotAnEndpoint(row, s) == s \notin {row.departure, row.arrival}

\* Mutant of MirroredStops: a line's own terminus is mirrored onto it.
MirroredStopsAll(row, stops) == ReversedStops(stops)

\* The stops of the other direction, less the line's own termini.
MirroredStops(row, stops) ==
    Keep(ReversedStops(stops), {s \in Stop : NotAnEndpoint(row, s.station)})

\* The lines of both directions stored under key k.
Group(rows, k) ==
    {l \in StoredIn(rows) : rows[l].mode = "BOTH" /\ rows[l].pairKey = k}

\* Complete pairs, the outbound direction first.  Two lines of one direction
\* come in the order the query happens to return them.
PairsOf(rows, k) ==
    {p \in Group(rows, k) \X Group(rows, k) :
        /\ p[1] # p[2] /\ Group(rows, k) = {p[1], p[2]}
        /\ rows[p[2]].direction = "OUTBOUND" => rows[p[1]].direction = "OUTBOUND"}

Pairs(rows) ==
    UNION {PairsOf(rows, k) : k \in {rows[l].pairKey : l \in StoredIn(rows)} \ {None}}

\* The other lines of the pair an edit of line l, as it now stands, reaches.
PairedLines(rows, l) ==
    IF rows[l].mode = "BOTH" /\ rows[l].pairKey # None
    THEN Group(rows, rows[l].pairKey) \ {l} ELSE {}

\* No stop repeats in a list, so a list is a subsequence of another when it is
\* what the other keeps of it.
IsSubsequence(needle, haystack) ==
    Keep(haystack, ToSet(needle)) = needle

Drifted(rows, p) ==
    StationsOf(rows[p[1]].stops) # Reverse(StationsOf(rows[p[2]].stops))

\* Mutant of MergedStops: where the two disagree, the outbound order wins.
MergedStopsForward(rows, p) ==
    LET forward == StationsOf(rows[p[1]].stops)
        opposite == Reverse(StationsOf(rows[p[2]].stops))
    IN {IF IsSubsequence(forward, opposite) THEN opposite ELSE forward}

\* The stop order both directions are to have; none where merging would guess.
MergedStops(rows, p) ==
    LET forward == StationsOf(rows[p[1]].stops)
        opposite == Reverse(StationsOf(rows[p[2]].stops))
    IN CASE IsSubsequence(opposite, forward) -> {forward}
         [] ~IsSubsequence(opposite, forward) /\ IsSubsequence(forward, opposite) -> {opposite}
         [] OTHER -> {}

\* A stop keeps the line's own boarding rules, else takes the opposite ones.
StopsForDirection(row, ordered, opposite) ==
    LET Own(s) == {x \in ToSet(row.stops) : x.station = s}
        Other(s) == {x \in ToSet(ReversedStops(opposite.stops)) : x.station = s}
    IN Map(Keep(ordered, {s \in Station : NotAnEndpoint(row, s)}),
           LAMBDA s : IF Own(s) # {} THEN CHOOSE x \in Own(s) : TRUE
                      ELSE IF Other(s) # {} THEN CHOOSE x \in Other(s) : TRUE
                      ELSE [station |-> s, boarding |-> TRUE, dropoff |-> TRUE])

-----------------------------------------------------------------------------
(* What an input must satisfy *)

\* resolveIntermediateStops, ensureRouteStationsInTenant,
\* ensureStopsDoNotUseRouteEndpoints
ValidRoute(row) ==
    /\ row.departure # row.arrival
    /\ \A i \in DOMAIN row.stops : NotAnEndpoint(row, row.stops[i].station)
    /\ \A i, j \in DOMAIN row.stops :
          row.stops[i].station = row.stops[j].station => i = j

ValidDirection(row) ==
    /\ row.mode = "SINGLE" => row.direction = "OUTBOUND" /\ row.pairKey = None
    /\ row.mode = "BOTH" /\ row.direction = "RETURN" => row.pairKey # None

ValidDaySchedule(times, route) ==
    times # <<>> =>
        /\ StationsOf(times) = route
        /\ times[1].time # None => times[1].time # times[Len(times)].time

Given(value, stored) == IF value = Unset THEN stored ELSE value

Patched(row, p) == [f \in DOMAIN row |-> Given(p[f], row[f])]

-----------------------------------------------------------------------------
(* Lines *)

\* What may be stored: every writer validates a route, a ride has a line and a
\* schedule has a station once.  Pairs and schedules need not agree.
ASSUME StoredAssumption ==
    \A world \in Stored :
        /\ world.line \in [LineId -> LineRow \cup {None}]
        /\ world.ride \in [RideId -> RideRow \cup {None}]
        /\ \A l \in StoredIn(world.line) : ValidRoute(world.line[l])
        /\ \A r \in StoredIn(world.ride) :
              /\ world.line[world.ride[r].line] # None
              /\ IsInjective(StationsOf(world.ride[r].times))

Init ==
    /\ \E world \in Stored : line = world.line /\ ride = world.ride
    /\ call = [c \in Caller |-> NoCall]
    /\ repair = [pairs |-> {}, rides |-> {}]
    /\ edits = 0

Edited == edits < MaxEdits /\ edits' = edits + 1

\* The insert both create and createReverse end in: line l from the input and,
\* for the outbound direction of a BOTH line, line b for the way back.
InsertLine(input, l, b) ==
    LET key == IF input.pairKey # None THEN input.pairKey ELSE l
        back == [input EXCEPT !.departure = input.arrival,
                              !.arrival = input.departure,
                              !.direction = "RETURN", !.pairKey = key,
                              !.stops = ReversedStops(input.stops)]
        twoWay == input.mode = "BOTH" /\ input.direction = "OUTBOUND"
    IN /\ ValidRoute(input) /\ ValidDirection(input)
       /\ line[l] = None
       /\ \/ /\ twoWay
             /\ line[b] = None /\ l # b
             /\ line' = [line EXCEPT ![l] = [input EXCEPT !.pairKey = key], ![b] = back]
          \/ ~twoWay /\ line' = [line EXCEPT ![l] = input]

CreateLine(input, l, b) ==
    /\ Edited
    /\ InsertLine(input, l, b)
    /\ UNCHANGED <<ride, call, repair>>

RouteChanged(p) == p.stops # Unset \/ p.departure # Unset \/ p.arrival # Unset

\* Mutant of FollowingLines: the schedules of the other direction stay.
FollowingLinesOwn(rows, l, p) == IF RouteChanged(p) THEN {l} ELSE {}

\* The lines whose day schedules have to follow an edit of line l.
FollowingLines(rows, l, p) ==
    (IF RouteChanged(p) THEN {l} ELSE {})
    \cup (IF p.stops # Unset THEN PairedLines(rows, l) ELSE {})

\* update and replaceStops.  The write may be refused until it is confirmed
\* (Consent); refused, it changes nothing.
UpdateLine(l, p) ==
    /\ line[l] # None
    /\ Edited
    /\ LET row == Patched(line[l], p)
           rows == [line EXCEPT ![l] = row]
       IN /\ ValidRoute(row) /\ ValidDirection(row)
          /\ line' = [b \in LineId |->
                         IF p.stops # Unset /\ b \in PairedLines(rows, l)
                         THEN [rows[b] EXCEPT !.stops = MirroredStops(rows[b], row.stops)]
                         ELSE rows[b]]
          /\ ride' = Realigned(ride, line', FollowingLines(rows, l, p))
    /\ UNCHANGED <<call, repair>>

\* remove: refused while a ride of the line is ACTIVE, unless it cascades.
\* (Cascading cancels the reservations of the rides too: Reservations.)
RemoveLine(l, cascade) ==
    /\ line[l] # None
    /\ Edited
    /\ cascade \/ \A r \in StoredIn(ride) : ride[r].line = l => ride[r].status # "ACTIVE"
    /\ line' = [line EXCEPT ![l].active = FALSE]
    /\ ride' = [r \in RideId |->
                   IF cascade /\ ride[r] # None /\ ride[r].line = l
                   THEN [ride[r] EXCEPT !.status = "INACTIVE"] ELSE ride[r]]
    /\ UNCHANGED <<call, repair>>

-----------------------------------------------------------------------------
(* The reverse of a line: three requests to the database, no lock *)

ReadSource(c, l) ==
    /\ call[c].step = "idle" /\ line[l] # None
    /\ LET row == line[l]
           back == [row EXCEPT
               !.departure = row.arrival, !.arrival = row.departure,
               !.direction = IF row.mode = "BOTH" /\ row.direction = "OUTBOUND"
                             THEN "RETURN" ELSE "OUTBOUND",
               !.pairKey = IF row.mode = "SINGLE" THEN None
                           ELSE IF @ = None THEN l ELSE @,
               !.stops = ReversedStops(row.stops)]
       IN call' = [call EXCEPT ![c] =
                      [step |-> "read", source |-> l, input |-> back]]
    /\ UNCHANGED <<line, ride, repair, edits>>

\* The lines that run the way a row would.
SameRoute(rows, row) == {x \in StoredIn(rows) : Route(rows[x]) = Route(row)}

CheckReverse(c) ==
    /\ call[c].step = "read"
    /\ call' = [call EXCEPT ![c] =
           IF SameRoute(line, call[c].input) # {} THEN NoCall
           ELSE [@ EXCEPT !.step = "checked"]]
    /\ UNCHANGED <<line, ride, repair, edits>>

CommitReverse(c, l, b) ==
    /\ call[c].step = "checked"
    /\ InsertLine(call[c].input, l, b)
    /\ call' = [call EXCEPT ![c] = NoCall]
    /\ UNCHANGED <<ride, repair, edits>>

\* The request fails or its client goes away before the insert.
ReverseFails(c) ==
    /\ call[c].step # "idle"
    /\ call' = [call EXCEPT ![c] = NoCall]
    /\ UNCHANGED <<line, ride, repair, edits>>

-----------------------------------------------------------------------------
(* Rides *)

\* The day schedule an operator fills in for a route.
Filled(route, table) == Map(route, LAMBDA s : [station |-> s, time |-> table[s]])

CreateRide(r, l, times, status) ==
    /\ ride[r] = None /\ line[l] # None
    /\ Edited
    /\ ValidDaySchedule(times, Route(line[l]))
    /\ ride' = [ride EXCEPT ![r] = [line |-> l, status |-> status, times |-> times]]
    /\ UNCHANGED <<line, call, repair>>

StatusTransitions ==
    {<<"DRAFT", "ACTIVE">>, <<"ACTIVE", "INACTIVE">>, <<"INACTIVE", "ACTIVE">>}

\* update: a field left out keeps its stored value, which is validated again.
UpdateRide(r, l, times, status) ==
    /\ ride[r] # None /\ line[l] # None
    /\ Edited
    /\ ValidDaySchedule(times, Route(line[l]))
    /\ status = ride[r].status \/ <<ride[r].status, status>> \in StatusTransitions
    /\ ride' = [ride EXCEPT ![r] = [line |-> l, status |-> status, times |-> times]]
    /\ UNCHANGED <<line, call, repair>>

ReplaceDayTimes(r, times) ==
    /\ ride[r] # None
    /\ Edited
    /\ ValidDaySchedule(times, Route(line[ride[r].line]))
    /\ ride' = [ride EXCEPT ![r].times = times]
    /\ UNCHANGED <<line, call, repair>>

\* remove of a ride: refused while it has passengers (Reservations).
RemoveRide(r) ==
    /\ ride[r] # None
    /\ Edited
    /\ ride' = [ride EXCEPT ![r].status = "INACTIVE"]
    /\ UNCHANGED <<line, call, repair>>

-----------------------------------------------------------------------------
(* Repairs *)

KeyOf(rows, p) == rows[p[1]].pairKey

\* The scan of syncDriftedPairs: pairs that disagree and can be merged.
ScanPairs ==
    /\ repair.pairs = {}
    /\ LET found == {p \in Pairs(line) : Drifted(line, p) /\ MergedStops(line, p) # {}}
       IN /\ found # {}
          /\ repair' = [repair EXCEPT !.pairs = {KeyOf(line, p) : p \in found}]
    /\ UNCHANGED <<line, ride, call, edits>>

\* One pair, read again under the lock: skipped when it agrees by now, is no
\* pair any more or cannot be merged.
SyncPair(k) ==
    /\ k \in repair.pairs
    /\ repair' = [repair EXCEPT !.pairs = @ \ {k}]
    /\ LET current == {p \in PairsOf(line, k) : Drifted(line, p)}
       IN \/ /\ current # {}
             /\ \E p \in current : \E merged \in MergedStops(line, p) :
                   /\ line' = [line EXCEPT
                          ![p[1]].stops = StopsForDirection(line[p[1]], merged, line[p[2]]),
                          ![p[2]].stops = StopsForDirection(line[p[2]], Reverse(merged), line[p[1]])]
                   /\ ride' = Realigned(ride, line', {p[1], p[2]})
          \/ /\ \A p \in current : MergedStops(line, p) = {}
             /\ UNCHANGED <<line, ride>>
    /\ UNCHANGED <<call, edits>>

ScanSchedules ==
    /\ repair.rides = {}
    /\ LET found == {r \in StoredIn(ride) :
                        ~IsScheduleAligned(ride[r].times, Route(line[ride[r].line]))}
       IN /\ found # {}
          /\ repair' = [repair EXCEPT !.rides = found]
    /\ UNCHANGED <<line, ride, call, edits>>

\* One schedule, from what the database says now.
RealignSchedule(r) ==
    /\ r \in repair.rides
    /\ repair' = [repair EXCEPT !.rides = @ \ {r}]
    /\ ride' = [ride EXCEPT ![r] = Realigned(ride, line, {@.line})[r]]
    /\ UNCHANGED <<line, call, edits>>

\* A failed transaction ends its repair: the rest is left for the next one.
RepairFails ==
    /\ \/ repair.pairs # {} /\ repair' = [repair EXCEPT !.pairs = {}]
       \/ repair.rides # {} /\ repair' = [repair EXCEPT !.rides = {}]
    /\ UNCHANGED <<line, ride, call, edits>>

-----------------------------------------------------------------------------
LineOperation ==
    \/ \E input \in NewLines, l, b \in LineId : CreateLine(input, l, b)
    \/ \E l \in LineId, p \in LinePatches : UpdateLine(l, p)
    \/ \E l \in LineId, cascade \in BOOLEAN : RemoveLine(l, cascade)

ReverseOperation ==
    \E c \in Caller :
        \/ \E l \in LineId : ReadSource(c, l)
        \/ CheckReverse(c)
        \/ ReverseFails(c)
        \/ \E l, b \in LineId : CommitReverse(c, l, b)

\* The times a request may bring for a ride of line l.
Entered(l) == {Filled(Route(line[l]), table) : table \in Timetables}

RideOperation ==
    \E r \in RideId :
        \/ \E l \in StoredIn(line), status \in AskedStatus :
              \/ \E times \in {<<>>} \cup Entered(l) : CreateRide(r, l, times, status)
              \/ \E times \in {<<>>} \cup Entered(l)
                               \cup IF ride[r] = None THEN {} ELSE {ride[r].times} :
                    UpdateRide(r, l, times, status)
        \/ /\ ride[r] # None
           /\ \E times \in {<<>>} \cup Entered(ride[r].line) : ReplaceDayTimes(r, times)
        \/ RemoveRide(r)

RepairOperation ==
    \/ ScanPairs \/ ScanSchedules \/ RepairFails
    \/ \E k \in LineId : SyncPair(k)
    \/ \E r \in RideId : RealignSchedule(r)

Next == LineOperation \/ ReverseOperation \/ RideOperation \/ RepairOperation

Spec == Init /\ [][Next]_vars

-----------------------------------------------------------------------------
(* Properties *)

\* A line's route never visits a station twice, whichever of the edits, the
\* mirroring onto the other direction, the repair or the reverse of a line
\* that was read before an edit wrote its stops (lines.service.ts
\* ensureStopsDoNotUseRouteEndpoints, syncPairedLineStopsTx).
RouteVisitsOnce == \A l \in StoredIn(line) : ValidRoute(line[l])

\* A day schedule that mirrors the route of its line still does after any
\* step: a route edited on this direction or on the other one, a repair, a
\* ride moved to another line (ride-schedule-alignment.ts).
StaysMirrored ==
    [][\A r \in StoredIn(ride) :
         IsScheduleAligned(ride[r].times, Route(line[ride[r].line]))
         => IsScheduleAligned(ride'[r].times, Route(line'[ride'[r].line]))]_vars

\* The steps that rewrite a schedule nobody edited.
RewrittenByRoute(r) ==
    /\ ride[r] # None
    /\ line' # line \/ r \in repair.rides \ repair'.rides

\* How long after time t time u comes, going round the clock.
After(t, u) == (u - t) % MinutesPerDay

\* A station that stays on the route keeps the time an operator entered for
\* it, over any series of edits and repairs; one that joins between two such
\* gets a time the bus can be there at, not before the one and not after the
\* other, also when midnight lies between (buildAlignedStationTimes).
KnownTimesKept ==
    [][\A r \in RideId : RewrittenByRoute(r) /\ ride'[r].times # ride[r].times =>
         LET times == ride'[r].times
             Known(i) == TimeAt(ride[r].times, times[i].station)
         IN /\ \A i \in DOMAIN times : Known(i) # None => times[i].time = Known(i)
            /\ \A i, j, k \in DOMAIN times :
                  i < j /\ j < k /\ Known(i) # None /\ Known(k) # None
                  /\ (\A n \in i + 1 .. k - 1 : Known(n) = None)
                  => After(times[i].time, times[j].time) <= After(times[i].time, times[k].time)]_vars

\* A route edit or a repair never takes a ride off the timetable: while one
\* surviving station has a time, the first and the last station have one,
\* without which no departure of the ride is listed
\* (buildAlignedStationTimes, listInstancesByDate).
StaysOnTimetable ==
    [][\A r \in RideId : RewrittenByRoute(r) /\ ride'[r].times # ride[r].times =>
         LET times == ride'[r].times
             survives == \E s \in ToSet(StationsOf(times)) : TimeAt(ride[r].times, s) # None
         IN survives => times[1].time # None /\ times[Len(times)].time # None]_vars

\* What each direction carries agrees, but for stops that are the other
\* direction's own termini.
Agree(rows, p) ==
    LET Common(s) == Keep(s, {x \in Station : /\ NotAnEndpoint(rows[p[1]], x)
                                             /\ NotAnEndpoint(rows[p[2]], x)})
    IN Common(StationsOf(rows[p[1]].stops)) = Reverse(Common(StationsOf(rows[p[2]].stops)))

\* Whatever rewrites the stops of one direction of a pair leaves both agreeing:
\* a stop added to one direction is never missing from the other, whether an
\* edit, an edit that pairs the line at the same time, or a repair wrote it
\* (lines.service.ts syncPairedLineStopsTx, paired-directions-agree.ts).
StopsChangeTogether ==
    [][line' # line =>
         \A p \in Pairs(line') : \A l \in {p[1], p[2]} :
            line[l] # None /\ line'[l].stops # line[l].stops => Agree(line', p)]_vars

\* A repair only fills in what a direction misses: every stop it had stays,
\* in its order and with its own boarding rules, so neither a stale scan nor
\* two directions that disagree make it undo an edit
\* (paired-directions-agree.ts syncDriftedPairs, stopsForDirection).
RepairOnlyAdds ==
    [][repair'.pairs # repair.pairs =>
         \A l \in StoredIn(line) : IsSubsequence(line[l].stops, line'[l].stops)]_vars

\* The stations reported as reordered are exactly enough: without them both
\* orders agree, and no smaller set does it (ride-schedule-alignment.ts
\* findReorderedStationIds).
ReorderedIsLeast ==
    \A r \in StoredIn(ride), l \in StoredIn(line) :
        LET drift == ScheduleDrift(ride[r].times, Route(line[l]))
            Without(s, moved) == Keep(s, ToSet(s) \ moved)
            Settles(moved) == Without(drift.before, moved) = Without(drift.after, moved)
        IN /\ Settles(drift.reordered)
           /\ \A moved \in SUBSET ToSet(drift.before) :
                 Settles(moved) => Cardinality(drift.reordered) <= Cardinality(moved)

=============================================================================
