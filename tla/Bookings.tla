------------------------------ MODULE Bookings ------------------------------
(***************************************************************************)
(* What the reservation write path promises: the committed departures and  *)
(* reservations change only by whole operations, one after the other, each *)
(* of which leaves every passenger it touches in a seat of a bus that      *)
(* nobody else holds on any leg of the journey.  There are no statements,  *)
(* no locks and no transactions in flight here.                            *)
(***************************************************************************)
EXTENDS Integers, Sequences, FiniteSets

CONSTANTS DepartureId, ReservationId, None

VARIABLES departure, reservation

committed == <<departure, reservation>>

Live(rows) == {r \in ReservationId : rows[r] # None /\ rows[r].status = "ACTIVE"}

\* A station a route visits twice counts where it is visited last.
Position(bus, station) ==
  CHOOSE i \in DOMAIN bus.route :
    bus.route[i] = station /\ \A j \in DOMAIN bus.route : bus.route[j] = station => j <= i

(* The legs of the bus's route that the journey rides. *)
Legs(bus, row) ==
  {n \in DOMAIN bus.route : Position(bus, row.from) <= n /\ n < Position(bus, row.to)}

OnRoute(bus, row) == {row.from, row.to} \subseteq {bus.route[i] : i \in DOMAIN bus.route}

(* The journey follows the route, between stops that take its passengers; the
   termini always do. *)
Travels(bus, row) ==
  /\ OnRoute(bus, row)
  /\ Legs(bus, row) # {}
  /\ row.from \in bus.boarding \cup {bus.route[1]}
  /\ row.to \in bus.dropoff \cup {bus.route[Len(bus.route)]}

(* In rows, reservation r travels on its bus in a seat of its own. *)
Seated(rows, r) ==
  LET bus == departure[rows[r].departure]
      aboard == {s \in Live(rows) \ {r} : rows[s].departure = rows[r].departure}
  IN /\ Travels(bus, rows[r])
     /\ rows[r].seat <= bus.capacity
     /\ \A s \in aboard : rows[s].seat = rows[r].seat =>
            OnRoute(bus, rows[s]) /\ Legs(bus, rows[s]) \cap Legs(bus, rows[r]) = {}

Changed == {r \in ReservationId : reservation'[r] # reservation[r]}

(* r was a stored row and differs by fields F alone. *)
Edits(r, F) ==
  /\ reservation[r] # None /\ reservation'[r] # None
  /\ \A f \in DOMAIN reservation[r] \ F : reservation'[r][f] = reservation[r][f]

-----------------------------------------------------------------------------
(* New bookings, on buses that run, at the buses' own times.  The outbound leg
   of a return leg among them may get a booking marker; nothing else changes. *)
Book ==
  LET new == {r \in Changed : reservation[r] = None}
      outbound == {reservation'[r].returnOf : r \in new}
  IN /\ new # {}
     /\ \A r \in new :
          LET bus == departure[reservation'[r].departure]
          IN /\ r \in Live(reservation')
             /\ bus # None /\ bus.lineActive /\ ~bus.cancelled /\ ~bus.dropped
             /\ reservation'[r].time = bus.time
             /\ Seated(reservation', r)
     /\ \A r \in Changed \ new : r \in outbound /\ Edits(r, {"marker"})

(* One live reservation gets another passenger, seat, journey, group or link.
   An outbound leg it links to may get a booking marker. *)
Change ==
  \E r \in Live(reservation) :
    /\ reservation[r].departure # None
    /\ Edits(r, {"passenger", "seat", "from", "to", "group", "returnOf", "marker"})
    /\ Seated(reservation', r)
    /\ \A s \in Changed \ {r} : s = reservation'[r].returnOf /\ Edits(s, {"marker"})

(* A live reservation changes seats, with the one passenger in its way if
   there is one. *)
ChangeSeats ==
  \E r, s \in Live(reservation) :
    /\ Changed = {r, s}
    /\ reservation[r].departure = reservation[s].departure
    /\ \A x \in Changed : Edits(x, {"seat"}) /\ Seated(reservation', x)
    /\ r # s => /\ reservation'[r].seat = reservation[s].seat
                /\ reservation'[s].seat = reservation[r].seat

Cancel ==
  \E r \in Live(reservation) : Changed = {r} /\ Edits(r, {"status"})

(* Live reservations of one bus become a group. *)
Regroup ==
  /\ Changed \subseteq Live(reservation)
  /\ \A r, s \in Changed :
       /\ Edits(r, {"group"})
       /\ reservation'[r].group = reservation'[s].group
       /\ reservation[r].departure = reservation[s].departure

(* One passenger's reservations become another's. *)
MergePassengers ==
  \A r, s \in Changed :
    /\ Edits(r, {"passenger"})
    /\ reservation[r].passenger = reservation[s].passenger
    /\ reservation'[r].passenger = reservation'[s].passenger

(* The buses change as operators decide.  Passengers stay on theirs, which
   stays stored, and are told its time; they are cancelled all together. *)
EditSchedule ==
  /\ Live(reservation') \subseteq Live(reservation)
  /\ \A r \in Changed : Edits(r, {"time", "status"}) /\ reservation[r].departure # None
  /\ \A r \in ReservationId : reservation[r] # None /\ reservation[r].departure # None =>
       LET before == departure[reservation[r].departure]
           after == departure'[reservation[r].departure]
           told == reservation'[r].time
       IN /\ after # None
          /\ told = after.time \/ (told = reservation[r].time /\ after.time = before.time)
          /\ r \in Live(reservation) \ Live(reservation') =>
               \A s \in Live(reservation') : reservation'[s].departure # reservation[r].departure

-----------------------------------------------------------------------------
(* A reservation with a departure names a stored one. *)
Init ==
  \A r \in ReservationId :
    reservation[r] # None /\ reservation[r].departure # None
      => departure[reservation[r].departure] # None

Write ==
  /\ UNCHANGED departure
  /\ Book \/ Change \/ ChangeSeats \/ Cancel \/ Regroup \/ MergePassengers

Next == Write \/ EditSchedule

Spec == Init /\ [][Next]_committed

=============================================================================
