---------------------------- MODULE Reservations ----------------------------
(***************************************************************************)
(* The reservation write path of one tenant: every transaction that writes *)
(* reservations (create, batch, update, seat move, cancel, group, passen-  *)
(* ger merge) and the schedule edits that change the departures under      *)
(* them.                                                                   *)
(*                                                                         *)
(* A transaction runs at READ COMMITTED.  A step is one statement, or a    *)
(* run of statements that read only what the transaction's locks freeze:   *)
(*                                                                         *)
(*   schedule - waits for the tenant's schedule lock, shared               *)
(*   name     - reads which departures it is about                         *)
(*   lock     - row-locks those departures, in ID order, one at a time     *)
(*   check    - reads again under the locks and decides                    *)
(*   slot     - reads who else claims the return slot it is to take        *)
(*   stamp    - writes the booking marker on the outbound leg              *)
(*   write    - writes its own rows, one at a time                         *)
(*   commit   - its writes become visible and its locks are released       *)
(*                                                                         *)
(* A row a transaction has written is row-locked by it until it ends, so   *)
(* written[w] is both w's uncommitted rows and its row locks.              *)
(*                                                                         *)
(* An operator that stands before another and carries its name with a      *)
(* suffix (NextToLockAnyOrder, RereadNever, ...) is that operator with a   *)
(* mistake in it.  None is used here: PROJECT.json puts them in place one  *)
(* at a time, to see that a property notices.                              *)
(***************************************************************************)
EXTENDS RouteSegment, FiniteSets

CONSTANTS
  Writer,          \* concurrent reservation-writing transactions
  DepartureId,     \* departure IDs, ordered like the lock order
  ReservationId,   \* reservation IDs, those still to be inserted included
  Ride, Passenger, Station,
  SoldMarker,      \* booking markers (roundTripId) already in the database
  SoldGroup,       \* group labels (groupId) already in the database
  Request,         \* the requests a client may send
  Edit,            \* the schedule edits an operator may make
  InitDeparture,   \* the departures stored at the start
  InitReservation, \* the reservations stored at the start
  Window,          \* the last instant that can be booked
  MaxTx,           \* bound: transactions each writer begins
  MaxEdits,        \* bound: schedule edits
  MaxFailures,     \* bound: transactions that fail for an outside reason
  None,            \* SQL NULL, and "no such row"
  Keep             \* a field an update request leaves out

-----------------------------------------------------------------------------
(* Stored rows. *)

(* A departure: a bus on a date.  `time` is its service date and times.  A
   LEGACY departure stores no stops and is read against its ride's line; its
   route here is that line.  A deleted departure is None. *)
DepartureRow ==
  [source : {"SCHEDULE", "EXTRA", "LEGACY"}, ride : Ride, time : Nat,
   capacity : Nat, route : Seq(Station), boarding : SUBSET Station,
   dropoff : SUBSET Station, lineActive : BOOLEAN,
   cancelled : BOOLEAN, dropped : BOOLEAN]

(* The marker a transaction mints when it needs one: a fresh UUID. *)
Marker == SoldMarker \cup (Writer \X (1..MaxTx))

(* A booking's group: one of those stored, or the fresh one of a batch, shared
   by its items on one departure, of one passenger unless they travel together. *)
Group ==
  SoldGroup \cup (Writer \X (1..MaxTx) \X DepartureId \X (Passenger \cup {None}))

SeatNumber == Nat \ {0}

ReservationRow ==
  [departure : DepartureId \cup {None}, passenger : Passenger, seat : SeatNumber,
   from : Station, to : Station, time : Nat, status : {"ACTIVE", "CANCELLED"},
   returnOf : ReservationId \cup {None}, marker : Marker \cup {None},
   group : Group \cup {None}]

(* Requests, one record set for each endpoint.  An item names its departure by
   ID, or, from an old tab, by ride and time alone. *)
Item ==
  [departure : DepartureId \cup {None}, ride : Ride, time : Nat,
   passenger : Passenger, seat : SeatNumber, from : Station, to : Station,
   returnOf : ReservationId \cup {None}, returnOfIndex : Nat]

CreateRequest == [op : {"create"}, items : Seq(Item), travelTogether : BOOLEAN]
UpdateRequest ==
  [op : {"update"}, id : ReservationId, passenger : Passenger \cup {Keep},
   seat : SeatNumber \cup {Keep}, from : Station \cup {Keep}, to : Station \cup {Keep},
   returnOf : ReservationId \cup {None, Keep}, group : SoldGroup \cup {None, Keep}]
MoveRequest   == [op : {"move"}, id : ReservationId, seat : SeatNumber]
CancelRequest == [op : {"cancel"}, id : ReservationId, strict : BOOLEAN]
GroupRequest  == [op : {"group"}, ids : SUBSET ReservationId, group : SoldGroup]
MergeRequest  == [op : {"merge"}, retired : Passenger, canonical : Passenger]

AnyRequest ==
  CreateRequest \cup UpdateRequest \cup MoveRequest \cup CancelRequest
    \cup GroupRequest \cup MergeRequest

(* A batch item may only be the return leg of an earlier item, and then names
   no stored reservation; anything else is refused before a transaction. *)
ValidBatch(items) ==
  /\ items # <<>>
  /\ \A i \in DOMAIN items :
       /\ items[i].returnOfIndex < i
       /\ items[i].returnOfIndex > 0 => items[i].returnOf = None

(* What a schedule edit leaves on the departures it reaches, whether their ride
   runs at all and the timetable still produces them, which extras have lost
   their ADDITIONAL, and whether the operator answered the guard's questions
   with a confirmation. *)
AnyEdit ==
  [kind : {"line", "ride", "extra", "delete", "cancel", "restore", "retire", "cascade"},
   departures : SUBSET DepartureId, confirmed : BOOLEAN, produced : BOOLEAN,
   rideRuns : BOOLEAN, orphans : SUBSET DepartureId,
   time : Nat, capacity : Nat, route : Seq(Station), boarding : SUBSET Station,
   dropoff : SUBSET Station, lineActive : BOOLEAN]

(* Only an active ride on an active line has departures. *)
ValidEdit(e) == (e.produced => e.rideRuns) /\ (e.rideRuns => e.lineActive)

ASSUME ConstantsAssumption ==
  /\ DepartureId \subseteq Nat
  /\ Window \in Nat /\ MaxTx \in Nat /\ MaxEdits \in Nat /\ MaxFailures \in Nat
  /\ Request \subseteq AnyRequest
  /\ \A q \in Request : q.op = "create" => ValidBatch(q.items)
  /\ Edit \subseteq AnyEdit
  /\ \A e \in Edit : ValidEdit(e)
  /\ InitDeparture \in [DepartureId -> DepartureRow \cup {None}]
  /\ InitReservation \in [ReservationId -> ReservationRow \cup {None}]

(* The foreign key from a reservation to its departure. *)
ASSUME ForeignKeyAssumption ==
  \A r \in ReservationId :
    InitReservation[r] # None /\ InitReservation[r].departure # None
      => InitDeparture[InitReservation[r].departure] # None

(* Every writer and every edit leaves on a reservation the times of its bus, so
   those stored at the start carry them. *)
ASSUME CopiesAssumption ==
  \A r \in ReservationId :
    InitReservation[r] # None /\ InitReservation[r].departure # None
      => InitReservation[r].time = InitDeparture[InitReservation[r].departure].time

(* The partial unique index: one live return leg for a stored reservation. *)
ASSUME ReturnSlotAssumption ==
  \A r, s \in ReservationId :
    /\ InitReservation[r] # None /\ InitReservation[s] # None
    /\ InitReservation[r].status = "ACTIVE" /\ InitReservation[s].status = "ACTIVE"
    /\ InitReservation[r].returnOf # None
    /\ InitReservation[r].returnOf = InitReservation[s].returnOf
    => r = s

ASSUME WriterAssumption == IsFiniteSet(Writer)

ASSUME NoneAssumption ==
  /\ None \notin DepartureRow /\ None \notin ReservationRow
  /\ None \notin Writer /\ None \notin DepartureId /\ None \notin ReservationId
  /\ None \notin Marker /\ None \notin AnyRequest
  /\ None \notin Passenger /\ None \notin Group
  /\ Keep \notin Passenger \cup SeatNumber \cup Station \cup ReservationId \cup SoldGroup \cup {None}

-----------------------------------------------------------------------------
VARIABLES
  departure,    \* committed departures
  reservation,  \* committed reservations
  edit,         \* the schedule lock's exclusive side: none, waiting or held
  edits,        \* schedule edits begun
  pc,           \* where each writer's transaction is
  begun,        \* transactions each writer has begun
  failures,     \* transactions that failed for an outside reason
  holder,       \* which transaction holds each departure's row lock
  written,      \* each transaction's uncommitted rows
  mem,          \* what each transaction remembers between its statements
  answer        \* what each writer's last request was answered

schedule == <<departure, edit, edits>>
vars == <<departure, reservation, edit, edits, pc, begun, failures, holder,
          written, mem, answer>>

Phase == {"idle", "schedule", "name", "lock", "check", "slot", "stamp", "write",
         "commit"}
Answer == {"none", "ok", "refused", "full", "busy", "failed"}

(* The return leg link an earlier statement of the transaction settled. *)
Link == [of : ReservationId, marker : Marker, stamp : BOOLEAN]

Memory ==
  [request : AnyRequest \cup {None},
   want : SUBSET DepartureId,             \* departures still to be locked
   read : ReservationRow \cup {None},     \* the reservation as last read
   partner : ReservationId \cup {None},   \* the seat move's swap partner
   todo : SUBSET ReservationId,           \* rows still to be written
   link : Link \cup {None},
   made : Seq(ReservationId)]             \* rows a batch has inserted

Blank ==
  [request |-> None, want |-> {}, read |-> None, partner |-> None, todo |-> {},
   link |-> None, made |-> <<>>]

NothingWritten == [r \in ReservationId |-> None]

InTransaction(w) == pc[w] \notin {"idle", "schedule"}

(* A reservation as w's next statement reads it: its own write, or the
   committed row. *)
View(w, r) == IF written[w][r] # None THEN written[w][r] ELSE reservation[r]

Exists(w, r) == View(w, r) # None

IsActive(row) == row # None /\ row.status = "ACTIVE"

(* The row is not locked by another transaction. *)
RowFree(w, r) == \A x \in Writer \ {w} : written[x][r] = None

Runs(d) == d.source # "LEGACY" /\ ~d.cancelled /\ ~d.dropped

-----------------------------------------------------------------------------
(* Segments and seats on one departure. *)

OnRoute(d, row) == {row.from, row.to} \subseteq RouteStations(d.route)

SegmentOf(d, row) ==
  [departureOrder |-> RouteStationOrder(d.route)[row.from],
   arrivalOrder   |-> RouteStationOrder(d.route)[row.to]]

Overlap(d, a, b) == SegmentsOverlap(SegmentOf(d, a), SegmentOf(d, b))

(* The stations can be travelled between on this departure.  Also the three
   faults reservation.segmentValid counts. *)
Forward(d, leg)  == SegmentOf(d, leg).departureOrder < SegmentOf(d, leg).arrivalOrder
ValidSegment(d, leg) ==
  /\ leg.from # leg.to
  /\ OnRoute(d, leg)
  /\ Forward(d, leg)
  /\ leg.from \in BoardingStations(d)
  /\ leg.to \in DropoffStations(d)

(* The other live reservations on departure d, counted by the departure and
   never by the time copies. *)
Others(w, d, excluded) ==
  {r \in ReservationId \ excluded :
     IsActive(View(w, r)) /\ View(w, r).departure = d}

(* The seat exists and nobody travelling part of the segment holds it.  A
   reservation that is off the route cannot be placed and counts as a clash. *)
SeatFree(w, d, leg, seat, excluded) ==
  /\ seat <= departure[d].capacity
  /\ \A r \in Others(w, d, excluded) :
       /\ OnRoute(departure[d], View(w, r))
       /\ Overlap(departure[d], View(w, r), leg) => View(w, r).seat # seat

(* Counted over the whole segment, not leg by leg. *)
CapacityLeft(w, d, leg, excluded) ==
  Cardinality({r \in Others(w, d, excluded) : Overlap(departure[d], View(w, r), leg)})
    < departure[d].capacity

SeatAvailable(w, d, leg, seat, excluded) ==
  SeatFree(w, d, leg, seat, excluded) /\ CapacityLeft(w, d, leg, excluded)

(* Which of the two refusals the operator sees. *)
SeatRefusal(w, d, leg, seat, excluded) ==
  IF SeatFree(w, d, leg, seat, excluded) THEN "full" ELSE "refused"

-----------------------------------------------------------------------------
Init ==
  /\ departure = InitDeparture
  /\ reservation = InitReservation
  /\ edit = "none"
  /\ edits = 0
  /\ pc = [w \in Writer |-> "idle"]
  /\ begun = [w \in Writer |-> 0]
  /\ failures = 0
  /\ holder = [d \in DepartureId |-> None]
  /\ written = [w \in Writer |-> NothingWritten]
  /\ mem = [w \in Writer |-> Blank]
  /\ answer = [w \in Writer |-> "none"]

(* The request w's transaction serves, and the batch item it is at. *)
Req(w) == mem[w].request
At(w, phase, op) == pc[w] = phase /\ Req(w) # None /\ Req(w).op = op
CurrentItem(w) == Req(w).items[Len(mem[w].made) + 1]

(* The transaction goes on to another phase and remembers m. *)
Goto(w, phase, m) ==
  /\ pc' = [pc EXCEPT ![w] = phase]
  /\ mem' = [mem EXCEPT ![w] = m]
  /\ UNCHANGED <<schedule, reservation, begun, failures, holder, written, answer>>

(* The transaction ends: its locks are released, its buffer and memory go. *)
End(w, code) ==
  /\ pc' = [pc EXCEPT ![w] = "idle"]
  /\ holder' = [d \in DepartureId |-> IF holder[d] = w THEN None ELSE holder[d]]
  /\ written' = [written EXCEPT ![w] = NothingWritten]
  /\ mem' = [mem EXCEPT ![w] = Blank]
  /\ answer' = [answer EXCEPT ![w] = code]

(* A refusal: nothing of the transaction is kept. *)
Rollback(w, code) ==
  /\ End(w, code)
  /\ UNCHANGED <<schedule, reservation, begun, failures>>

(* One row is written and row-locked until the transaction ends. *)
Put(w, r, row) ==
  /\ written' = [written EXCEPT ![w][r] = row]
  /\ mem' = [mem EXCEPT ![w].todo = @ \ {r}]
  /\ pc' = [pc EXCEPT ![w] = IF mem[w].todo \subseteq {r} THEN "commit" ELSE "write"]
  /\ UNCHANGED <<schedule, reservation, begun, failures, holder, answer>>

-----------------------------------------------------------------------------
(* The transaction's frame: reservationWriteTransaction. *)

Submit(w) ==
  /\ pc[w] = "idle"
  /\ begun[w] < MaxTx
  /\ \E q \in Request :
       mem' = [mem EXCEPT ![w].request = q]
  /\ pc' = [pc EXCEPT ![w] = "schedule"]
  /\ begun' = [begun EXCEPT ![w] = @ + 1]
  /\ answer' = [answer EXCEPT ![w] = "none"]
  /\ UNCHANGED <<schedule, reservation, failures, holder, written>>

(* Shared with other writers; behind an edit that holds the lock or waits. *)
AcquireScheduleLockShared(w) ==
  /\ pc[w] = "schedule"
  /\ edit = "none"
  /\ Goto(w, "name", mem[w])

(* lock_timeout while an edit is in the way: SCHEDULE_BEING_UPDATED. *)
ScheduleLockTimeout(w) ==
  /\ pc[w] = "schedule"
  /\ edit # "none"
  /\ Rollback(w, "busy")

Commit(w) ==
  /\ pc[w] = "commit"
  /\ reservation' = [r \in ReservationId |-> View(w, r)]
  /\ End(w, "ok")
  /\ UNCHANGED <<schedule, begun, failures>>

(* The connection, the statement or the transaction timeout gives out. *)
Fail(w) ==
  /\ InTransaction(w)
  /\ failures < MaxFailures
  /\ failures' = failures + 1
  /\ End(w, "failed")
  /\ UNCHANGED <<schedule, reservation, begun>>

-----------------------------------------------------------------------------
(* name: which departures to lock.  Frozen by the shared schedule lock, so an
   item's departure is read here and later alike. *)

Candidates(item) ==
  {d \in DepartureId :
     /\ departure[d] # None
     /\ departure[d].ride = item.ride
     /\ departure[d].time = item.time
     /\ departure[d].source # "LEGACY"}

Nameable(item) ==
  /\ item.time <= Window
  /\ item.departure = None => \E d \in DepartureId : Candidates(item) = {d}

NamedDeparture(item) ==
  IF item.departure # None THEN item.departure
  ELSE CHOOSE d \in DepartureId : d \in Candidates(item)

NameCreate(w) ==
  LET items == Req(w).items
      named == {NamedDeparture(items[i]) : i \in DOMAIN items}
  IN
  /\ At(w, "name", "create")
  /\ \/ /\ \A i \in DOMAIN items : Nameable(items[i])
        /\ Goto(w, "lock", [mem[w] EXCEPT !.want = {d \in DepartureId : d \in named /\ departure[d] # None}])
     \/ /\ \E i \in DOMAIN items : ~Nameable(items[i])
        /\ Rollback(w, "refused")

(* update, moveSeat and softDelete read the reservation once to find its bus.
   Only a cancellation goes ahead on a reservation with no departure. *)
NameOne(w) ==
  LET row == reservation[Req(w).id] IN
  /\ At(w, "name", "update") \/ At(w, "name", "move") \/ At(w, "name", "cancel")
  /\ \/ /\ row # None
        /\ row.departure = None => Req(w).op = "cancel"
        /\ Goto(w, "lock", [mem[w] EXCEPT !.read = row, !.want = {row.departure} \ {None}])
     \/ /\ row # None => row.departure = None /\ Req(w).op # "cancel"
        /\ Rollback(w, "refused")

(* Every reservation live and on one departure, read before the lock. *)
NameGroup(w) ==
  LET ids == Req(w).ids
      onOneDeparture ==
        \E d \in DepartureId : \A r \in ids : IsActive(reservation[r]) /\ reservation[r].departure = d
  IN
  /\ At(w, "name", "group")
  /\ \/ /\ onOneDeparture
        /\ ids # {}
        /\ Goto(w, "lock", [mem[w] EXCEPT !.want = {reservation[r].departure : r \in ids}])
     \/ /\ ids = {} \/ ~onOneDeparture
        /\ Rollback(w, "refused")

(* The departures of the retired passenger's reservations, read before the
   lock: a booking that lands in between is repointed on an unlocked bus. *)
NameMerge(w) ==
  /\ At(w, "name", "merge")
  /\ Goto(w, "lock",
       [mem[w] EXCEPT !.want =
          {d \in DepartureId :
             \E r \in ReservationId :
               /\ reservation[r] # None
               /\ reservation[r].passenger = Req(w).retired
               /\ reservation[r].departure = d}])

Name(w) == NameCreate(w) \/ NameOne(w) \/ NameGroup(w) \/ NameMerge(w)

-----------------------------------------------------------------------------
(* lock: SELECT ... ORDER BY id FOR UPDATE takes the rows as it sorts them. *)

NextToLockAnyOrder(w) == mem[w].want
NextToLock(w) == {d \in mem[w].want : \A e \in mem[w].want : d <= e}

LockDepartureShared(w) ==
  /\ pc[w] = "lock"
  /\ \E d \in NextToLock(w) :
       /\ holder' = [holder EXCEPT ![d] = w]
       /\ mem' = [mem EXCEPT ![w].want = @ \ {d}]
  /\ UNCHANGED <<schedule, reservation, pc, begun, failures, written, answer>>

LockDeparture(w) ==
  /\ pc[w] = "lock"
  /\ \E d \in NextToLock(w) :
       /\ holder[d] = None
       /\ holder' = [holder EXCEPT ![d] = w]
       /\ mem' = [mem EXCEPT ![w].want = @ \ {d}]
  /\ UNCHANGED <<schedule, reservation, pc, begun, failures, written, answer>>

DeparturesLockedFirst(w) ==
  /\ pc[w] = "lock"
  /\ \E d \in DepartureId : holder[d] = w
  /\ Goto(w, "check", [mem[w] EXCEPT !.want = {}])

DeparturesLocked(w) ==
  /\ pc[w] = "lock"
  /\ mem[w].want = {}
  /\ Goto(w, "check", mem[w])

-----------------------------------------------------------------------------
(* linkReturnLeg. *)

(* Another live reservation is the return leg of o. *)
Claims(row, o) == IsActive(row) /\ row.returnOf = o
SlotTaken(w, o, self) == \E r \in ReservationId \ {self} : Claims(View(w, r), o)

LinkAllowedAnyTime(w, o, leg, self) ==
  /\ o # self
  /\ Exists(w, o)
  /\ View(w, o).status = "ACTIVE"
  /\ View(w, o).passenger = leg.passenger
  /\ View(w, o).from = leg.to
  /\ View(w, o).to = leg.from

(* What is asked of the outbound leg o, which is read without its departure's
   lock.  `self` is the reservation being updated, or None. *)
LinkAllowed(w, o, leg, self) ==
  /\ o # self
  /\ Exists(w, o)
  /\ View(w, o).status = "ACTIVE"
  /\ View(w, o).passenger = leg.passenger
  /\ View(w, o).from = leg.to
  /\ View(w, o).to = leg.from
  /\ ~(leg.time < View(w, o).time)

(* The marker is the outbound leg's, or a fresh one both are stamped with. *)
LinkTo(w, o) ==
  [of     |-> o,
   marker |-> IF View(w, o).marker # None THEN View(w, o).marker ELSE <<w, begun[w]>>,
   stamp  |-> View(w, o).marker = None]

LinkOrNone(w, o) == IF o = None THEN None ELSE LinkTo(w, o)

(* A link is looked at twice, and its outbound stamped, before its write. *)
AfterLink(link) == IF link = None THEN "write" ELSE "slot"

(* The reservation that may hold its own slot: the one being updated. *)
Linking(w) == IF Req(w).op = "update" THEN Req(w).id ELSE None

(* Whether the slot is free is a read of its own, after that of the outbound
   row: what commits in between is seen here and not there. *)
CheckSlot(w) ==
  LET link == mem[w].link IN
  /\ pc[w] = "slot"
  /\ \/ /\ ~SlotTaken(w, link.of, Linking(w))
        /\ Goto(w, IF link.stamp THEN "stamp" ELSE "write", mem[w])
     \/ /\ SlotTaken(w, link.of, Linking(w))
        /\ Rollback(w, "refused")

(* The update names the outbound row by ID only: it waits for the row's lock
   and looks at neither its status nor its marker again. *)
Stamp(w) ==
  LET o == mem[w].link.of IN
  /\ pc[w] = "stamp"
  /\ RowFree(w, o)
  /\ written' = [written EXCEPT ![w][o] = [View(w, o) EXCEPT !.marker = mem[w].link.marker]]
  /\ pc' = [pc EXCEPT ![w] = "write"]
  /\ UNCHANGED <<schedule, reservation, begun, failures, holder, mem, answer>>

(* The partial unique index on the outbound of live reservations: a claim waits
   while another transaction has an undecided row in the slot. *)
SlotSettledUnindexed(w, o, self) == TRUE
SlotSettled(w, o, self) ==
  \A x \in Writer \ {w} : \A r \in ReservationId \ {self} :
    written[x][r] # None => ~Claims(written[x][r], o) /\ ~Claims(reservation[r], o)

-----------------------------------------------------------------------------
(* create and createBatch, one item at a time. *)

LegOf(item) ==
  [passenger |-> item.passenger, from |-> item.from, to |-> item.to, time |-> item.time]

(* assertBookable, the line, and the segment.  The time copy is compared too,
   so the booking's own time is the departure's. *)
Bookable(item, d) ==
  /\ departure[d] # None
  /\ departure[d].ride = item.ride
  /\ departure[d].time = item.time
  /\ Runs(departure[d])
  /\ departure[d].lineActive
  /\ ValidSegment(departure[d], item)

(* A return leg inside the batch names its outbound by position. *)
OutboundOf(w, item) ==
  IF item.returnOfIndex > 0 THEN mem[w].made[item.returnOfIndex] ELSE item.returnOf

CheckItem(w) ==
  LET item == CurrentItem(w)
      o    == OutboundOf(w, item)
      ok   == /\ Bookable(item, NamedDeparture(item))
              /\ o # None => LinkAllowed(w, o, LegOf(item), None)
      link == LinkOrNone(w, o)
  IN
  /\ At(w, "check", "create")
  /\ \/ ok /\ Goto(w, AfterLink(link), [mem[w] EXCEPT !.link = link])
     \/ ~ok /\ Rollback(w, "refused")

Unused(r) == reservation[r] = None /\ \A x \in Writer : written[x][r] = None
NewId == CHOOSE r \in ReservationId : Unused(r)

GroupFor(w, item, d) ==
  <<w, begun[w], d, IF Req(w).travelTogether THEN None ELSE item.passenger>>

NewRow(w, item, d, link) ==
  [departure |-> d, passenger |-> item.passenger, seat |-> item.seat,
   from |-> item.from, to |-> item.to, time |-> departure[d].time,
   status |-> "ACTIVE", group |-> GroupFor(w, item, d),
   returnOf |-> IF link # None THEN link.of ELSE None,
   marker   |-> IF link # None THEN link.marker ELSE None]

(* The seat is checked under the departure's lock, then the row is inserted.
   Losing the race for the return slot is the same 409 the check gives. *)
InsertItem(w) ==
  LET item == CurrentItem(w)
      d    == NamedDeparture(item)
      link == mem[w].link
      last == Len(mem[w].made) + 1 = Len(Req(w).items)
  IN
  /\ At(w, "write", "create")
  /\ SeatAvailable(w, d, item, item.seat, {})
  /\ link # None => SlotSettled(w, link.of, None) /\ ~SlotTaken(w, link.of, None)
  /\ \E r \in ReservationId : Unused(r)
  /\ written' = [written EXCEPT ![w][NewId] = NewRow(w, item, d, link)]
  /\ mem' = [mem EXCEPT ![w].made = Append(@, NewId), ![w].link = None]
  /\ pc' = [pc EXCEPT ![w] = IF last THEN "commit" ELSE "check"]
  /\ UNCHANGED <<schedule, reservation, begun, failures, holder, answer>>

RefuseItemForSeatOnly(w) ==
  LET item == CurrentItem(w)
      d    == NamedDeparture(item)
  IN
  /\ At(w, "write", "create")
  /\ ~SeatAvailable(w, d, item, item.seat, {})
  /\ Rollback(w, SeatRefusal(w, d, item, item.seat, {}))

RefuseItem(w) ==
  LET item == CurrentItem(w)
      d    == NamedDeparture(item)
      link == mem[w].link
      free == SeatAvailable(w, d, item, item.seat, {})
  IN
  /\ At(w, "write", "create")
  /\ \/ ~free /\ Rollback(w, SeatRefusal(w, d, item, item.seat, {}))
     \/ /\ free
        /\ link # None /\ SlotSettled(w, link.of, None) /\ SlotTaken(w, link.of, None)
        /\ Rollback(w, "refused")

-----------------------------------------------------------------------------
(* update *)

(* The reservation as the second read, under its bus's lock, finds it. *)
RereadNever(w) == mem[w].read
Reread(w) == View(w, Req(w).id)

Given(field, stored) == IF field = Keep THEN stored ELSE field

(* The leg as the update would leave it. *)
UpdatedLeg(q, row) ==
  [passenger |-> Given(q.passenger, row.passenger), from |-> Given(q.from, row.from),
   to |-> Given(q.to, row.to), time |-> row.time]

(* A link the request sets, or a retained one whose fields it changes. *)
OutboundToValidate(q, row) ==
  LET leg == UpdatedLeg(q, row)
      linkedFieldsChanged ==
        leg.passenger # row.passenger \/ leg.from # row.from \/ leg.to # row.to
  IN IF q.returnOf # Keep THEN q.returnOf
     ELSE IF linkedFieldsChanged THEN row.returnOf ELSE None

(* The second read, under the lock, decides.  Whether the bus still runs is
   not asked. *)
CheckUpdate(w) ==
  LET q    == Req(w)
      row  == Reread(w)
      d    == mem[w].read.departure
      leg  == UpdatedLeg(q, row)
      seat == Given(q.seat, row.seat)
      o    == OutboundToValidate(q, row)
      link == LinkOrNone(w, o)
      editable  == row.status = "ACTIVE" /\ ValidSegment(departure[d], leg)
      available == SeatAvailable(w, d, leg, seat, {q.id})
      linkable  == o # None => LinkAllowed(w, o, leg, q.id)
  IN
  /\ At(w, "check", "update")
  /\ \/ /\ editable /\ available /\ linkable
        /\ Goto(w, AfterLink(link), [mem[w] EXCEPT !.read = row, !.link = link, !.todo = {q.id}])
     \/ ~editable /\ Rollback(w, "refused")
     \/ editable /\ ~available /\ Rollback(w, SeatRefusal(w, d, leg, seat, {q.id}))
     \/ editable /\ available /\ ~linkable /\ Rollback(w, "refused")

UpdatedRowAsSent(q, row, link) ==
  [row EXCEPT !.passenger = q.passenger, !.seat = q.seat, !.from = q.from, !.to = q.to]

(* Only the fields the request gives are written; a link writes both its
   fields, and unlinking clears both. *)
UpdatedRow(q, row, link) ==
  LET unlinks == q.returnOf = None IN
  [departure |-> row.departure, time |-> row.time, status |-> row.status,
   passenger |-> Given(q.passenger, row.passenger), seat |-> Given(q.seat, row.seat),
   from |-> Given(q.from, row.from), to |-> Given(q.to, row.to),
   group |-> Given(q.group, row.group),
   returnOf |-> IF link # None THEN link.of ELSE IF unlinks THEN None ELSE row.returnOf,
   marker |-> IF link # None THEN link.marker ELSE IF unlinks THEN None ELSE row.marker]

WriteUpdate(w) ==
  LET q == Req(w)
      link == mem[w].link
  IN
  /\ At(w, "write", "update")
  /\ RowFree(w, q.id)
  /\ link # None => SlotSettled(w, link.of, q.id)
  /\ \/ /\ link # None => ~SlotTaken(w, link.of, q.id)
        /\ Put(w, q.id, UpdatedRow(q, View(w, q.id), link))
     \/ /\ link # None /\ SlotTaken(w, link.of, q.id)
        /\ Rollback(w, "refused")

-----------------------------------------------------------------------------
(* moveSeat *)

(* Who holds the target seat on the source's segment.  The rows come in no
   particular order and one that is off the route refuses the move when it is
   met first, so either outcome is possible where both kinds exist. *)
AtTarget(w, d) ==
  {r \in Others(w, d, {Req(w).id}) : View(w, r).seat = Req(w).seat}
Unplaced(w, d) == {r \in AtTarget(w, d) : ~ValidSegment(departure[d], View(w, r))}
Destinations(w, d, source) ==
  {r \in AtTarget(w, d) \ Unplaced(w, d) : Overlap(departure[d], source, View(w, r))}

Swappable(w, d, source, r) ==
  LET both == {Req(w).id, r} IN
  /\ SeatAvailable(w, d, source, Req(w).seat, both)
  /\ SeatAvailable(w, d, View(w, r), source.seat, both)

CheckMove(w) ==
  LET id     == Req(w).id
      source == Reread(w)
      d      == mem[w].read.departure
      active == source.status = "ACTIVE"
      moving == source.seat # Req(w).seat
      placed == ValidSegment(departure[d], source)
      dest   == Destinations(w, d, source)
      moveTo(r, rows) ==
        Goto(w, "write", [mem[w] EXCEPT !.read = source, !.partner = r, !.todo = rows])
  IN
  /\ At(w, "check", "move")
  /\ \/ active /\ ~moving /\ Goto(w, "commit", [mem[w] EXCEPT !.read = source])
     \/ /\ active /\ moving /\ placed
        /\ dest = {} /\ Unplaced(w, d) = {}
        /\ SeatAvailable(w, d, source, Req(w).seat, {id})
        /\ moveTo(None, {id})
     \/ /\ active /\ moving /\ placed
        /\ \E r \in dest : Swappable(w, d, source, r) /\ moveTo(r, {id, r})
     \/ /\ \/ ~active
           \/ moving /\ ~placed
           \/ moving /\ placed /\ Unplaced(w, d) # {}
           \/ /\ moving /\ placed /\ dest = {} /\ Unplaced(w, d) = {}
              /\ ~SeatAvailable(w, d, source, Req(w).seat, {id})
           \/ moving /\ placed /\ \E r \in dest : ~Swappable(w, d, source, r)
        /\ Rollback(w, "refused")

WriteSeatInPlace(w) ==
  LET id == Req(w).id IN
  /\ At(w, "write", "move")
  /\ \E r \in mem[w].todo :
       /\ r = id \/ id \notin mem[w].todo
       /\ RowFree(w, r)
       /\ Put(w, r, [View(w, r) EXCEPT !.seat = IF r = id THEN Req(w).seat ELSE View(w, id).seat])

(* The source first, then the reservation it changed seats with. *)
WriteSeat(w) ==
  LET id == Req(w).id IN
  /\ At(w, "write", "move")
  /\ \E r \in mem[w].todo :
       /\ r = id \/ id \notin mem[w].todo
       /\ RowFree(w, r)
       /\ Put(w, r, [View(w, r) EXCEPT !.seat = IF r = id THEN Req(w).seat ELSE mem[w].read.seat])

-----------------------------------------------------------------------------
(* cancel and softDelete.  The other leg of a round trip is left alone. *)

CheckCancel(w) ==
  LET row == Reread(w) IN
  /\ At(w, "check", "cancel")
  /\ \/ /\ row.status = "ACTIVE"
        /\ Goto(w, "write", [mem[w] EXCEPT !.read = row, !.todo = {Req(w).id}])
     \/ row.status = "CANCELLED" /\ ~Req(w).strict /\ Goto(w, "commit", mem[w])
     \/ row.status = "CANCELLED" /\ Req(w).strict /\ Rollback(w, "refused")

WriteCancel(w) ==
  /\ At(w, "write", "cancel")
  /\ RowFree(w, Req(w).id)
  /\ Put(w, Req(w).id, [View(w, Req(w).id) EXCEPT !.status = "CANCELLED"])

-----------------------------------------------------------------------------
(* assignGroup and the passenger merge: one updateMany each, whose WHERE is
   asked again of every row once its lock is had. *)

MatchesMany(q, row) ==
  \/ q.op = "group" /\ IsActive(row)
  \/ q.op = "merge" /\ row # None /\ row.passenger = q.retired

ManyRow(q, row) ==
  IF ~MatchesMany(q, row) THEN row
  ELSE IF q.op = "group" THEN [row EXCEPT !.group = q.group]
  ELSE [row EXCEPT !.passenger = q.canonical]

CheckMany(w) ==
  LET q    == Req(w)
      rows == {r \in ReservationId :
                 MatchesMany(q, View(w, r)) /\ (q.op = "group" => r \in q.ids)}
  IN
  /\ At(w, "check", "group") \/ At(w, "check", "merge")
  /\ Goto(w, IF rows = {} THEN "commit" ELSE "write", [mem[w] EXCEPT !.todo = rows])

WriteMany(w) ==
  /\ At(w, "write", "group") \/ At(w, "write", "merge")
  /\ \E r \in mem[w].todo :
       /\ RowFree(w, r)
       /\ Put(w, r, ManyRow(Req(w), View(w, r)))

-----------------------------------------------------------------------------
(* Schedule edits.  What an edit leaves on each departure it reaches, after
   the departure sync that ends it. *)

OnRideOf(e) ==
  {d \in DepartureId :
     departure[d] # None /\ \E x \in e.departures :
                              departure[x] # None /\ departure[x].ride = departure[d].ride}

Reached(e) ==
  IF e.kind \in {"retire", "cascade"} THEN OnRideOf(e)
  ELSE {d \in e.departures : departure[d] # None}

Referenced(d) == \E r \in ReservationId : reservation[r] # None /\ reservation[r].departure = d

(* No longer produced by the timetable: deleted when nothing references it and
   nobody cancelled it, otherwise marked dropped. *)
Unproduced(id, d) ==
  IF ~Referenced(id) /\ ~d.cancelled THEN None ELSE [d EXCEPT !.dropped = TRUE]

(* An extra still at its ride's capacity; one given its own keeps it. *)
AtRideCapacity(d) ==
  \E x \in DepartureId :
    /\ departure[x] # None /\ departure[x].source = "SCHEDULE" /\ ~departure[x].dropped
    /\ departure[x].ride = d.ride /\ departure[x].capacity = d.capacity

(* An extra is dropped while its ride does not run, and for good once it is an
   orphan that nobody cancelled. *)
ExtraDropped(e, id) ==
  \/ ~e.rideRuns
  \/ id \in e.orphans /\ ~departure[id].cancelled /\ departure[id].dropped

(* A line or a ride edit.  A timetable departure follows in everything while it
   is produced.  An extra follows in its line and stops.  A LEGACY one stores
   nothing and shows its line. *)
Replanned(e, id) ==
  LET d       == departure[id]
      onLine  == [d EXCEPT !.route = e.route, !.boarding = e.boarding,
                           !.dropoff = e.dropoff, !.lineActive = e.lineActive]
      resized == [onLine EXCEPT !.capacity = IF e.kind = "ride" THEN e.capacity ELSE @]
  IN CASE d.source = "SCHEDULE" /\ e.produced  -> [resized EXCEPT !.time = e.time, !.dropped = FALSE]
       [] d.source = "SCHEDULE" /\ ~e.produced -> Unproduced(id, d)
       [] d.source = "EXTRA"  -> [IF AtRideCapacity(d) THEN resized ELSE onLine
                                    EXCEPT !.dropped = ExtraDropped(e, id)]
       [] d.source = "LEGACY" -> onLine

(* Its ride is deactivated. *)
Retired(id) ==
  LET d == departure[id] IN
  CASE d.source = "SCHEDULE" -> Unproduced(id, d)
    [] d.source = "EXTRA"    -> [d EXCEPT !.dropped = TRUE]
    [] d.source = "LEGACY"   -> d

Edited(e, id) ==
  LET d == departure[id] IN
  IF id \notin Reached(e) THEN d
  ELSE CASE e.kind \in {"line", "ride"}       -> Replanned(e, id)
         [] e.kind = "extra"                  -> [d EXCEPT !.time = e.time, !.capacity = e.capacity]
         [] e.kind = "delete"                 -> None
         [] e.kind = "cancel"                 -> [d EXCEPT !.cancelled = TRUE]
         [] e.kind = "restore"                -> [d EXCEPT !.cancelled = FALSE]
         [] e.kind \in {"retire", "cascade"}  -> Retired(id)

ResettledStatusOnly(e, row) ==
  IF row = None \/ row.departure \notin Reached(e) THEN row
  ELSE [row EXCEPT !.status = IF e.kind = "cascade" THEN "CANCELLED" ELSE @]

(* The reservations after it: the time copies follow their bus, whatever the
   reservation's status, and a cascade cancels every live one of the ride. *)
Resettled(e, row) ==
  IF row = None \/ row.departure \notin Reached(e) THEN row
  ELSE [row EXCEPT
          !.time = IF Edited(e, row.departure) # None THEN Edited(e, row.departure).time ELSE @,
          !.status = IF e.kind = "cascade" THEN "CANCELLED" ELSE @]

(* assertOperable and the plain removal's count. *)
EditAllowed(e) ==
  /\ Reached(e) # {}
  /\ e.kind \in {"cancel", "restore", "extra", "delete"} =>
       \A d \in Reached(e) : departure[d].source # "LEGACY"
  /\ e.kind \in {"extra", "delete"} => \A d \in Reached(e) : departure[d].source = "EXTRA"
  /\ e.kind = "delete"  => \A d \in Reached(e) : ~Referenced(d)
  /\ e.kind = "cancel"  => \A d \in Reached(e) : ~departure[d].cancelled
  /\ e.kind = "restore" => \A d \in Reached(e) : departure[d].cancelled /\ ~departure[d].dropped
  /\ e.kind = "retire"  => \A r \in ReservationId :
                             IsActive(reservation[r]) => reservation[r].departure \notin Reached(e)

AskedOfRoutesOnly(kind) ==
  CASE kind = "line" -> {"timeKept", "reachable", "onRoute", "segmentValid", "lineActive"}
    [] kind = "ride" -> {"timeKept", "reachable", "onRoute", "segmentValid"}
    [] OTHER         -> {"reachable"}

(* PROSPECTIVE_INVARIANTS: what the guard measures before and after. *)
Asked(kind) ==
  CASE kind = "line"   -> {"timeKept", "reachable", "onRoute", "segmentValid", "lineActive"}
    [] kind = "ride"   -> {"timeKept", "reachable", "seatWithinCapacity", "notOverbooked",
                           "onRoute", "segmentValid"}
    [] kind = "extra"  -> {"timeKept", "reachable", "seatWithinCapacity", "notOverbooked"}
    [] kind = "cancel" -> {"reachable"}
    [] OTHER           -> {}

One(b) == IF b THEN 1 ELSE 0

(* How wrong one live reservation is on departure d, under one invariant. *)
RowFault(ask, d, row) ==
  CASE ask = "reachable"          -> One(d.cancelled \/ d.dropped)
    [] ask = "seatWithinCapacity" -> One(row.seat > d.capacity)
    [] ask = "onRoute"            -> One(~OnRoute(d, row))
    [] ask = "segmentValid"       ->
         IF ~OnRoute(d, row) THEN 0
         ELSE One(~Forward(d, row)) + One(row.from \notin BoardingStations(d))
                + One(row.to \notin DropoffStations(d))
    [] OTHER                      -> 0

LiveOn(id) ==
  {r \in ReservationId : IsActive(reservation[r]) /\ reservation[r].departure = id}

(* Passengers aboard on a leg of departure d; one whose stations left the
   route is assumed to travel all of it. *)
Aboard(id, d, n) ==
  {r \in LiveOn(id) : OnRoute(d, reservation[r]) => SegmentCoversLeg(SegmentOf(d, reservation[r]), n)}

(* How far over capacity the busiest leg is, 0 when none is. *)
Excess(id, d) ==
  LET over == {Cardinality(Aboard(id, d, n)) - d.capacity : n \in 0..(Len(d.route) - 2)}
  IN IF \E x \in over : x > 0 THEN CHOOSE x \in over : \A y \in over : y <= x ELSE 0

(* A subject that was clean, or that the edit makes worse. *)
AddsViolation(e) ==
  \E id \in Reached(e) :
    LET d == departure[id]
        after == Edited(e, id)
        asked == Asked(e.kind)
    IN
    \/ "lineActive" \in asked /\ d.lineActive /\ ~e.lineActive
    \/ /\ after # None
       /\ \/ \E ask \in asked, r \in LiveOn(id) :
               RowFault(ask, after, reservation[r]) > RowFault(ask, d, reservation[r])
          \/ "timeKept" \in asked /\ LiveOn(id) # {} /\ after.time # d.time
          \/ "notOverbooked" \in asked /\ Excess(id, after) > Excess(id, d)

RequestEdit ==
  /\ edit = "none"
  /\ edits < MaxEdits
  /\ edit' = "waiting"
  /\ edits' = edits + 1
  /\ UNCHANGED <<departure, reservation, pc, begun, failures, holder, written, mem, answer>>

AcquireScheduleLockExclusiveEarly ==
  /\ edit = "waiting"
  /\ \A w \in Writer : InTransaction(w) => pc[w] = "commit"
  /\ edit' = "held"
  /\ UNCHANGED <<departure, reservation, edits, pc, begun, failures, holder, written, mem, answer>>

(* Exclusive: granted once every transaction in flight has ended. *)
AcquireScheduleLockExclusive ==
  /\ edit = "waiting"
  /\ \A w \in Writer : ~InTransaction(w)
  /\ edit' = "held"
  /\ UNCHANGED <<departure, reservation, edits, pc, begun, failures, holder, written, mem, answer>>

(* The edit, the guard's two scans and the sync run alone under the lock. *)
ApplyEdit ==
  /\ edit = "held"
  /\ \E e \in Edit :
       /\ EditAllowed(e)
       /\ e.confirmed \/ ~AddsViolation(e)
       /\ departure' = [id \in DepartureId |-> Edited(e, id)]
       /\ reservation' = [r \in ReservationId |-> Resettled(e, reservation[r])]
  /\ edit' = "none"
  /\ UNCHANGED <<edits, pc, begun, failures, holder, written, mem, answer>>

(* Refused, by its own rules or by the guard, or rolled back. *)
AbandonEdit ==
  /\ edit = "held"
  /\ edit' = "none"
  /\ UNCHANGED <<departure, reservation, edits, pc, begun, failures, holder, written, mem, answer>>

-----------------------------------------------------------------------------
(* Which transactions w waits for, and Postgres' way out of a cycle. *)

RowBlockers(w, r) == {x \in Writer \ {w} : written[x][r] # None}

SlotBlockers(w, self) ==
  LET o == mem[w].link.of IN
  {x \in Writer \ {w} : \E r \in ReservationId \ {self} :
     written[x][r] # None /\ (Claims(written[x][r], o) \/ Claims(reservation[r], o))}

WaitsFor(w) ==
  CASE pc[w] = "lock"          -> {holder[d] : d \in NextToLock(w)} \ {None}
    [] pc[w] = "stamp"         -> RowBlockers(w, mem[w].link.of)
    [] At(w, "write", "create") -> IF mem[w].link = None THEN {} ELSE SlotBlockers(w, None)
    [] At(w, "write", "update") ->
         RowBlockers(w, Req(w).id)
           \cup (IF mem[w].link = None THEN {} ELSE SlotBlockers(w, Req(w).id))
    [] pc[w] = "write" /\ Req(w).op \in {"move", "cancel"} ->
         LET id == Req(w).id IN
         IF id \in mem[w].todo THEN RowBlockers(w, id)
         ELSE UNION {RowBlockers(w, r) : r \in mem[w].todo}
    [] pc[w] = "write" /\ Req(w).op \in {"group", "merge"} ->
         IF \E r \in mem[w].todo : RowFree(w, r) THEN {}
         ELSE UNION {RowBlockers(w, r) : r \in mem[w].todo}
    [] OTHER                   -> {}

(* Every member waits for a member: the set holds a cycle. *)
Deadlocked(S) == S # {} /\ \A w \in S : WaitsFor(w) \cap S # {}

(* The deadlock detector aborts one transaction of the cycle. *)
AbortDeadlock(w) ==
  /\ \E S \in SUBSET Writer : w \in S /\ Deadlocked(S)
  /\ Rollback(w, "failed")

-----------------------------------------------------------------------------
Statement(w) ==
  \/ AcquireScheduleLockShared(w)
  \/ Name(w)
  \/ LockDeparture(w)
  \/ DeparturesLocked(w)
  \/ CheckItem(w) \/ CheckUpdate(w) \/ CheckMove(w) \/ CheckCancel(w) \/ CheckMany(w)
  \/ CheckSlot(w) \/ Stamp(w)
  \/ InsertItem(w) \/ RefuseItem(w)
  \/ WriteUpdate(w) \/ WriteSeat(w) \/ WriteCancel(w) \/ WriteMany(w)
  \/ Commit(w)

Schedule ==
  RequestEdit \/ AcquireScheduleLockExclusive \/ ApplyEdit \/ AbandonEdit

Next ==
  \/ \E w \in Writer :
       Submit(w) \/ ScheduleLockTimeout(w) \/ Statement(w) \/ Fail(w) \/ AbortDeadlock(w)
  \/ Schedule

Spec == Init /\ [][Next]_vars

(* The database and the event loop run every statement that can run, detect
   every deadlock and time every wait out; an edit in hand runs to its end. *)
Fairness ==
  /\ \A w \in Writer :
       WF_vars(Statement(w)) /\ WF_vars(AbortDeadlock(w)) /\ WF_vars(ScheduleLockTimeout(w))
  /\ WF_vars(AcquireScheduleLockExclusive)
  /\ WF_vars(ApplyEdit \/ AbandonEdit)

FairSpec == Spec /\ Fairness
-----------------------------------------------------------------------------
(* What is claimed of it. *)

(* Every variable has its type; an uncommitted row is a whole row. *)
TypeOK ==
  /\ departure \in [DepartureId -> DepartureRow \cup {None}]
  /\ reservation \in [ReservationId -> ReservationRow \cup {None}]
  /\ edit \in {"none", "waiting", "held"}
  /\ edits \in 0..MaxEdits
  /\ pc \in [Writer -> Phase]
  /\ begun \in [Writer -> 0..MaxTx]
  /\ failures \in 0..MaxFailures
  /\ holder \in [DepartureId -> Writer \cup {None}]
  /\ written \in [Writer -> [ReservationId -> ReservationRow \cup {None}]]
  /\ mem \in [Writer -> Memory]
  /\ answer \in [Writer -> Answer]

(* Two live reservations hold one seat of one bus while both are aboard. *)
Clash(a, b) ==
  /\ IsActive(a) /\ IsActive(b)
  /\ a.departure = b.departure /\ a.departure # None
  /\ a.seat = b.seat
  /\ OnRoute(departure[a.departure], a) /\ OnRoute(departure[a.departure], b)
  /\ Overlap(departure[a.departure], a, b)

DoubleSold(r, s) == r # s /\ Clash(reservation[r], reservation[s])

(* No transaction sells a seat twice, however the bookings, updates, moves and
   merges of other operators interleave with it: a pair of clashing live
   reservations is never made by anything but a schedule edit. *)
NoWriterDoubleSells ==
  [][edit = "held" \/
     \A r, s \in ReservationId : DoubleSold(r, s)' => DoubleSold(r, s)]_vars

(* While no edit reorders a route under its passengers, no seat is ever sold
   to two people aboard at once (seat-unique.ts). *)
SeatSoldOnce == \A r, s \in ReservationId : ~DoubleSold(r, s)

(* A cancellation is final: no update, move or merge that read the reservation
   while it was live brings it back or reseats it afterwards. *)
CancelledIsFinal ==
  [][\A r \in ReservationId :
       reservation[r] # None /\ reservation[r].status = "CANCELLED" =>
         /\ reservation'[r].status = "CANCELLED"
         /\ reservation'[r].seat = reservation[r].seat
         /\ reservation'[r].from = reservation[r].from
         /\ reservation'[r].to = reservation[r].to]_vars

(* An outbound reservation has at most one live return leg, whoever claims it
   at the same time (the partial unique index behind linkReturnLeg). *)
OneLiveReturnLeg ==
  \A r, s \in ReservationId :
    IsActive(reservation[r]) /\ IsActive(reservation[s]) /\ reservation[r].returnOf # None
      /\ reservation[r].returnOf = reservation[s].returnOf => r = s

(* A reservation that becomes a return leg travels back no earlier than its
   outbound leg: neither can be retimed while the link is being made. *)
ReturnIsNotEarlier ==
  [][\A r \in ReservationId :
       LET before == reservation[r]
           after  == reservation'[r]
       IN /\ edit # "held"
          /\ after # None /\ after.returnOf # None
          /\ before = None \/ (before # None /\ before.returnOf # after.returnOf)
          => after.time >= reservation'[after.returnOf].time]_vars

(* The time copies on a booked departure's reservations are the bus's times,
   through every retiming and every booking that waited behind it. *)
CopiesFollowBus ==
  \A r \in ReservationId :
    reservation[r] # None /\ reservation[r].departure # None =>
      /\ departure[reservation[r].departure] # None
      /\ reservation[r].time = departure[reservation[r].departure].time

(* The passenger is live on a bus it cannot travel with: gone, not running,
   without its seat or its journey. *)
Stranded(row) ==
  LET d == departure[row.departure] IN
  /\ IsActive(row) /\ row.departure # None
  /\ \/ d = None
     \/ ~Runs(d) \/ ~ValidSegment(d, row) \/ row.seat > d.capacity

(* No passenger loses the bus, the seat or the journey but by an edit whose
   refusal an operator confirmed: the guard's before and after scans miss no
   booking that was in flight when the edit was asked for, and no booking lands
   on what an edit took away (prospective-write.ts:118). *)
StrandingWasConfirmed ==
  [][\A r \in ReservationId :
       Stranded(reservation[r])' /\ ~Stranded(reservation[r]) =>
         \E e \in Edit :
           /\ edit = "held" /\ e.confirmed
           /\ departure' = [id \in DepartureId |-> Edited(e, id)]]_vars

(* Transactions that neither link return legs nor merge passengers never wait
   for each other in a circle: departures are locked in ID order and rows are
   written on locked departures (departure-lock.ts, createSingleInTransaction).
   A stamp or a merge may write a row of a bus it does not hold. *)
NoLockCycle ==
  \A S \in SUBSET Writer :
    Deadlocked(S) => \E w \in S : Req(w).op = "merge" \/ mem[w].link # None

(* Every request ends, with a commit, a refusal or an error, and leaves no
   lock behind. *)
EveryRequestAnswered == \A w \in Writer : pc[w] # "idle" ~> pc[w] = "idle"

(* An edit that waits for the schedule lock gets it, although bookings keep
   coming: they queue behind it. *)
WaitingEditRuns == edit = "waiting" ~> edit = "held"

(* Whatever runs at the same time, what becomes visible is a series of whole
   operations: no statement of one transaction is seen, and none acts on what
   another has undone or taken meanwhile (reservationWriteTransaction). *)
Committed ==
  INSTANCE Bookings WITH departure <- departure, reservation <- reservation

ImplementsBookings == Committed!Spec

-----------------------------------------------------------------------------
(* What a comment of the code says and the code does not keep. *)

(* A live return leg and its live outbound leg are one passenger's journey
   there and back, whichever of the two is updated
   (reservations.service.ts:405-409, return-leg-link.ts:13). *)
LinkedPairAgrees ==
  \A r \in ReservationId :
    IsActive(reservation[r]) /\ reservation[r].returnOf # None =>
      LET leg == reservation[r]
          outbound == reservation[leg.returnOf]
      IN IsActive(outbound) =>
           /\ outbound.passenger = leg.passenger
           /\ outbound.from = leg.to /\ outbound.to = leg.from

(* A return leg is not attached to a cancelled reservation
   (return-leg-link.ts:100-102). *)
AttachedToLive ==
  [][\A r \in ReservationId :
       LET before == reservation[r]
           after  == reservation'[r]
       IN /\ after # None /\ after.returnOf # None
          /\ before = None \/ (before # None /\ before.returnOf # after.returnOf)
          => IsActive(reservation'[after.returnOf])]_vars
=============================================================================
