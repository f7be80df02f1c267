-------------------------- MODULE MCReservations --------------------------
(***************************************************************************)
(* Small tenants for checking Reservations: which departures and           *)
(* reservations are stored, what clients may ask for and what an operator  *)
(* may edit.  A scenario is a choice of InitDeparture, InitReservation,    *)
(* Request and Edit in a .cfg; the rest of the constants are its bounds.   *)
(***************************************************************************)
EXTENDS Reservations, TLC

CONSTANTS w1, w2, m1

Writers2 == {w1, w2}
Symmetry2 == Permutations(Writers2)
Markers == {m1}
OneRide == {"out"}
TwoRides == {"out", "back"}
Passengers == {"ana", "boris"}
Stations == {"A", "B", "C", "D"}
Groups == {"family"}
OneBus == {1}
TwoBuses == {1, 2}
Rows3 == {"r1", "r2", "r3"}
Rows4 == Rows3 \cup {"r4"}
Rows5 == Rows4 \cup {"r5"}
Rows6 == Rows5 \cup {"r6"}
Rows7 == Rows6 \cup {"r7"}
NoEdit == {}

-----------------------------------------------------------------------------
(* Departures. *)

Bus(ride, time, capacity, route) ==
  [source |-> "SCHEDULE", ride |-> ride, time |-> time, capacity |-> capacity,
   route |-> route, boarding |-> Stations, dropoff |-> Stations,
   lineActive |-> TRUE, cancelled |-> FALSE, dropped |-> FALSE]

Out  == Bus("out", 1, 2, <<"A", "B", "C">>)
Back == Bus("back", 2, 2, <<"C", "B", "A">>)
Late == Bus("back", 3, 2, <<"C", "B", "A">>)

(* One bus; a bus there and a bus back; a bus there and two back. *)
OutOnly == <<Out>>
OutAndBack == <<Out, Back>>
OutAndTwoBack == <<Out, Back, Late>>

-----------------------------------------------------------------------------
(* Reservations. *)

Seat(d, who, seat, from, to, time) ==
  [departure |-> d, passenger |-> who, seat |-> seat, from |-> from, to |-> to,
   time |-> time, status |-> "ACTIVE", returnOf |-> None, marker |-> None, group |-> None]

Rows(stored) ==
  [r \in ReservationId |-> IF r \in DOMAIN stored THEN stored[r] ELSE None]

(* ana rides the first leg and boris the second, in the same seat. *)
SharedSeat ==
  Rows("r1" :> Seat(1, "ana", 1, "A", "B", 1) @@ "r2" :> Seat(1, "boris", 1, "B", "C", 1))

(* ana has a way out and a way back, sold apart. *)
Outbound ==
  Rows("r1" :> Seat(1, "ana", 1, "A", "C", 1) @@ "r2" :> Seat(2, "ana", 1, "C", "A", 2))

-----------------------------------------------------------------------------
(* Requests. *)

ItemOn(d, who, seat, from, to) ==
  [departure |-> d, ride |-> InitDeparture[d].ride, time |-> InitDeparture[d].time,
   passenger |-> who, seat |-> seat, from |-> from, to |-> to,
   returnOf |-> None, returnOfIndex |-> 0]

(* The same from a tab that was loaded before departures had IDs. *)
OldTab(item) == [item EXCEPT !.departure = None]
ReturnOf(item, o) == [item EXCEPT !.returnOf = o]
ReturnOfItem(item, i) == [item EXCEPT !.returnOfIndex = i]

Create(items) == [op |-> "create", items |-> items, travelTogether |-> FALSE]
Together(items) == [op |-> "create", items |-> items, travelTogether |-> TRUE]
Update(r) ==
  [op |-> "update", id |-> r, passenger |-> Keep, seat |-> Keep, from |-> Keep,
   to |-> Keep, returnOf |-> Keep, group |-> Keep]
Move(r, seat) == [op |-> "move", id |-> r, seat |-> seat]
Cancel(r) == [op |-> "cancel", id |-> r, strict |-> FALSE]
Delete(r) == [op |-> "cancel", id |-> r, strict |-> TRUE]
Regroup(rows) == [op |-> "group", ids |-> rows, group |-> "family"]
Merge(retired, canonical) == [op |-> "merge", retired |-> retired, canonical |-> canonical]

(* Everything that fights over the two seats of one bus. *)
SeatRequests ==
  { Create(<<ItemOn(1, "boris", 2, "A", "B")>>),
    Create(<<ItemOn(1, "ana", 1, "A", "B")>>),
    Create(<<ItemOn(1, "ana", 2, "B", "C"), ItemOn(1, "boris", 2, "A", "B")>>),
    [Update("r1") EXCEPT !.to = "C", !.seat = 2],
    [Update("r2") EXCEPT !.from = "A"],
    Move("r1", 2), Move("r2", 2), Move("r3", 1), Move("r1", 3),
    Cancel("r1"), Delete("r2"), Cancel("r3") }

(* Bookings that name their bus, by ID or from an old tab, the writes that go
   ahead whatever became of it, and batches that name two buses either way
   round. *)
TimetableRequests ==
  { Create(<<ItemOn(1, "boris", 2, "A", "B")>>),
    Create(<<OldTab(ItemOn(1, "ana", 2, "A", "C"))>>),
    Create(<<OldTab(ItemOn(2, "boris", 1, "A", "C"))>>),
    Create(<<ItemOn(3, "boris", 1, "A", "C")>>),
    Create(<<[ItemOn(2, "boris", 1, "A", "C") EXCEPT !.time = 9]>>),
    [Update("r1") EXCEPT !.seat = 2],
    [Update("r2") EXCEPT !.seat = 2],
    Cancel("r3"), Delete("r1"),
    Create(<<ItemOn(2, "boris", 1, "A", "B"), ItemOn(1, "boris", 2, "A", "B")>>),
    Create(<<ItemOn(1, "ana", 2, "B", "C"), ItemOn(2, "ana", 1, "B", "C")>>) }

(* A round trip sold in one batch, a return leg booked later, the repair of a
   link by hand, cancellations of either leg; and, while operators work, a
   family put in one group and a duplicate passenger merged. *)
RoundTripRequests ==
  { Create(<<ReturnOf(ItemOn(2, "ana", 2, "C", "A"), "r1")>>),
    Together(<<ItemOn(1, "boris", 2, "A", "C"), ReturnOfItem(ItemOn(2, "boris", 2, "C", "A"), 1)>>),
    [Update("r2") EXCEPT !.returnOf = "r1"],
    [Update("r2") EXCEPT !.returnOf = None],
    Create(<<ReturnOf(ItemOn(3, "ana", 1, "C", "A"), "r1")>>),
    [Update("r2") EXCEPT !.seat = 2],
    Cancel("r2"),
    Merge("boris", "ana"),
    Regroup({"r1", "r2"}),
    [Update("r2") EXCEPT !.passenger = "boris", !.group = "family"] }

(* Links that cross, and everything a waiting edit must outlast. *)
CrossingRequests ==
  { Create(<<ReturnOf(ItemOn(2, "ana", 1, "C", "A"), "r1"),
             ReturnOf(ItemOn(2, "ana", 2, "C", "A"), "r2")>>),
    Create(<<ReturnOf(ItemOn(3, "ana", 2, "C", "A"), "r2"),
             ReturnOf(ItemOn(3, "ana", 1, "C", "A"), "r1")>>),
    Create(<<ReturnOf(ItemOn(2, "ana", 2, "C", "A"), "r1")>>),
    Move("r1", 2), Cancel("r2"),
    Regroup({"r1", "r2"}) }

-----------------------------------------------------------------------------
(* Edits, as they leave the departures they reach. *)

EditTo(kind, buses, time, capacity, route) ==
  [kind |-> kind, departures |-> buses, confirmed |-> TRUE, produced |-> TRUE,
   rideRuns |-> TRUE, orphans |-> {},
   time |-> time, capacity |-> capacity, route |-> route,
   boarding |-> Stations, dropoff |-> Stations, lineActive |-> TRUE]

EditOf(kind, buses) == EditTo(kind, buses, 1, 2, <<"A", "B", "C">>)

(* A retiming, a smaller bus beside which an extra has lost its ADDITIONAL, a line switched off, a day taken out of the
   timetable, and every decision about a single bus or a whole ride. *)
KeepRouteEdits ==
  { EditTo("line", {1, 2, 3}, 0, 2, <<"A", "B", "C">>),
    [EditTo("ride", {1, 2}, 1, 1, <<"A", "B", "C">>) EXCEPT !.orphans = {2}],
    [EditOf("line", {1, 2, 3}) EXCEPT !.lineActive = FALSE, !.rideRuns = FALSE,
                                  !.produced = FALSE],
    [EditOf("ride", {1}) EXCEPT !.produced = FALSE],
    EditTo("extra", {2}, 3, 1, <<"A", "B", "C">>),
    EditOf("delete", {2}), EditOf("cancel", {1}), EditOf("cancel", {2}),
    EditOf("restore", {1}), EditOf("retire", {1}), EditOf("cascade", {2}) }

(* The stops change too: a stop moves to the head, goes, or takes no more
   passengers. *)
RouteEdits ==
  { EditTo("line", {1, 2, 3}, 0, 2, <<"D", "A", "B", "C">>),
    EditTo("line", {1, 2, 3}, 1, 2, <<"A", "C">>),
    EditTo("ride", {1, 2}, 1, 1, <<"A", "C", "B">>),
    [EditOf("line", {1, 2, 3}) EXCEPT !.boarding = {"A"}] }

(* The bus back is moved ahead of the bus out, and to the same time. *)
RetimeBack ==
  { EditTo("ride", {2}, 0, 2, <<"C", "B", "A">>), EditTo("ride", {2}, 1, 2, <<"C", "B", "A">>) }

(* The bus goes round the other way after its first stop, whoever is aboard. *)
TurnAround == { EditTo("line", {1}, 1, 2, <<"A", "C", "B">>) }

RetimeOut == { EditTo("line", {1}, 0, 2, <<"A", "B", "C">>) }

(* Confirmed: every refusal overridden.  Not confirmed: the same kinds of edit
   with other outcomes, route changes included. *)
Unconfirmed(edits_) == {[e EXCEPT !.confirmed = FALSE] : e \in edits_}

MixedEdits ==
  KeepRouteEdits \cup Unconfirmed(RouteEdits \cup
    { EditTo("line", {1, 2, 3}, 2, 2, <<"A", "B", "C">>),
      EditTo("ride", {1, 2}, 0, 1, <<"A", "B", "C">>),
      EditTo("extra", {2}, 1, 1, <<"A", "B", "C">>),
      [EditOf("ride", {2}) EXCEPT !.produced = FALSE, !.rideRuns = FALSE, !.time = 2],
      EditOf("cancel", {1, 2}) })

(* A timetable bus, an extra one and one kept for its history. *)
Timetable == <<Out, [Out EXCEPT !.source = "EXTRA", !.time = 2],
               [Out EXCEPT !.source = "LEGACY", !.time = 0]>>
ThreeBuses == {1, 2, 3}

OnTimetable ==
  Rows("r1" :> Seat(1, "ana", 1, "A", "C", 1) @@ "r2" :> Seat(3, "boris", 1, "A", "C", 0)
         @@ "r3" :> [Seat(1, "ana", 1, "A", "C", 7) EXCEPT !.departure = None])

TwoOutbounds ==
  Rows("r1" :> Seat(1, "ana", 1, "A", "C", 1) @@ "r2" :> Seat(1, "ana", 2, "A", "C", 1))

-----------------------------------------------------------------------------
(* Requests and edits of the runs that refute a comment. *)

(* ana's return leg, linked to her way out. *)
RoundTrip ==
  Rows("r1" :> [Seat(1, "ana", 1, "A", "C", 1) EXCEPT !.marker = m1]
         @@ "r2" :> [Seat(2, "ana", 1, "C", "A", 2) EXCEPT !.returnOf = "r1", !.marker = m1])

ChangeOutbound ==
  { [Update("r1") EXCEPT !.passenger = "boris"], [Update("r1") EXCEPT !.to = "B"],
    [Update("r2") EXCEPT !.passenger = "boris"], Move("r1", 2) }

LinkAndCancel ==
  { Create(<<ReturnOf(ItemOn(2, "ana", 2, "C", "A"), "r1")>>), Cancel("r1"), Move("r1", 2) }

(* A route of four stations, a seat sold twice along it, and an edit that
   swaps the two stations in between. *)
FourStations == <<Bus("out", 1, 2, <<"A", "B", "C", "D">>)>>
FirstAndLastLeg ==
  Rows("r1" :> Seat(1, "ana", 1, "A", "B", 1) @@ "r2" :> Seat(1, "boris", 1, "C", "D", 1))
SwapStops == Unconfirmed({EditTo("line", {1}, 1, 2, <<"A", "C", "B", "D">>)})
OneMoreBooking == { Create(<<ItemOn(1, "ana", 2, "A", "D")>>), Move("r1", 2), Cancel("r1") }

=============================================================================
