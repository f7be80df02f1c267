--------------------------- MODULE Bookings_proof ---------------------------
(***************************************************************************)
(* That the transactions of Reservations implement the whole operations of *)
(* Bookings, whatever the constants, and what else holds of the rows they  *)
(* leave: nobody loses a bus but by a confirmed edit, a reservation has    *)
(* one return leg, no earlier than itself, copies tell the bus's time, and *)
(* transactions wait for each other in a circle only over links or merges. *)
(*                                                                         *)
(* Reservations_proof says where a transaction takes seats.  What is added *)
(* here is what it has written so far, compared with what is committed     *)
(* (Ledger), and that whoever it places has a seat alone (SeatsPlanned).   *)
(* At the commit the two together are one operation of Bookings.           *)
(***************************************************************************)
EXTENDS Reservations_proof, FiniteSetTheorems

-----------------------------------------------------------------------------
(* The inductive invariants. *)

(* Two versions of a row that differ in fields F alone. *)
Field ==
  {"departure", "passenger", "seat", "from", "to", "time", "status", "returnOf",
   "marker", "group"}
SameBut(new, old, F) == \A f \in Field \ F : new[f] = old[f]

(* The row carries the time of its bus. *)
Told(row) ==
  row # None /\ row.departure # None =>
    departure[row.departure] # None /\ row.time = departure[row.departure].time

CopiesTold ==
  /\ \A r \in ReservationId : Told(reservation[r])
  /\ \A w \in Writer, r \in ReservationId : Told(written[w][r])

(* As w sees it, and between any two writers, no outbound leg has two return
   legs. *)
ClaimedOnce(w) ==
  \A o, r, s \in ReservationId : Claims(View(w, r), o) /\ Claims(View(w, s), o) => r = s
ClaimedApart ==
  \A w, x \in Writer, o, r, s \in ReservationId :
    w # x => ~(Claims(written[w][r], o) /\ Claims(written[x][s], o))
SlotsInv ==
  /\ OneLiveReturnLeg
  /\ \A w \in Writer : ClaimedOnce(w)
  /\ ClaimedApart

(* Whom w places: the rows it books, updates or moves. *)
Placed(w) ==
  {r \in ReservationId :
     \/ r \in mem[w].todo /\ Req(w).op \in {"update", "move"}
     \/ /\ written[w][r] # None
        /\ \/ Req(w).op = "create" /\ reservation[r] = None
           \/ Req(w).op = "update" /\ r = Req(w).id
           \/ Req(w).op = "move"}

(* As planned, r travels in a seat of its own of a bus that w holds. *)
InOwnSeat(w, r) ==
  LET row == Planned(w, r)
      bus == departure[row.departure]
  IN /\ IsActive(row)
     /\ row.departure # None /\ holder[row.departure] = w /\ bus # None
     /\ ValidSegment(bus, row)
     /\ row.seat <= bus.capacity
     /\ \A s \in ReservationId \ {r} :
          LET other == Planned(w, s) IN
          IsActive(other) /\ other.departure = row.departure /\ other.seat = row.seat
            => OnRoute(bus, other) /\ ~Overlap(bus, other, row)

SeatsPlanned(w) == \A r \in Placed(w) : InOwnSeat(w, r)

(* The item about to be written has passed its checks. *)
ItemChecked(w) ==
  At(w, "slot", "create") \/ At(w, "stamp", "create") \/ At(w, "write", "create") =>
    Bookable(CurrentItem(w), NamedDeparture(CurrentItem(w)))

(* r, as w has written it: what may differ from the committed row, by the kind
   of request. *)
Entry(w, r) ==
  LET new == written[w][r]
      old == reservation[r]
      q   == Req(w)
      outbound ==
        \/ pc[w] = "write" /\ mem[w].link # None /\ mem[w].link.of = r
        \/ \E s \in ReservationId :
             written[w][s] # None /\ reservation[s] = None /\ written[w][s].returnOf = r
  IN
  /\ q.op # "create" => old # None
  /\ q.op = "create" =>
       \/ /\ old = None
          /\ Runs(departure[new.departure]) /\ departure[new.departure].lineActive
          /\ new.time = departure[new.departure].time
       \/ old # None /\ SameBut(new, old, {"marker"}) /\ outbound
  /\ q.op = "update" =>
       \/ /\ r = q.id
          /\ SameBut(new, old, {"passenger", "seat", "from", "to", "group", "returnOf", "marker"})
          /\ mem[w].link # None => new.returnOf = mem[w].link.of
       \/ /\ r # q.id /\ mem[w].link # None /\ mem[w].link.of = r
          /\ SameBut(new, old, {"marker"})
  /\ q.op = "move" =>
       /\ SameBut(new, old, {"seat"})
       /\ new.seat = IF r = q.id THEN q.seat ELSE mem[w].read.seat
  /\ q.op = "cancel" => r = q.id /\ SameBut(new, old, {"status"})
  /\ q.op = "group" =>
       /\ r \in q.ids /\ SameBut(new, old, {"group"})
       /\ new = old \/ (IsActive(old) /\ new.group = q.group)
  /\ q.op = "merge" =>
       /\ SameBut(new, old, {"passenger"})
       /\ new = old \/ (old.passenger = q.retired /\ new.passenger = q.canonical)

(* A seat move as agreed under the lock: nobody else moves the two meanwhile. *)
MoveAgreed(w) ==
  LET id == Req(w).id
      partner == mem[w].partner
      moved == {r \in ReservationId : written[w][r] # None}
  IN
  At(w, "write", "move") \/ (At(w, "commit", "move") /\ moved # {}) =>
    /\ mem[w].todo \cup moved = {id} \cup ({partner} \ {None})
    /\ reservation[id] # None /\ reservation[id].seat = mem[w].read.seat
    /\ mem[w].read.seat # Req(w).seat
    /\ partner # None =>
         /\ partner # id /\ reservation[partner] # None
         /\ reservation[partner].seat = Req(w).seat
         /\ reservation[partner].departure = reservation[id].departure

(* A group is of one bus. *)
GroupAgreed(w) ==
  pc[w] \in {"lock", "check", "write", "commit"} /\ Req(w).op = "group" =>
    /\ mem[w].todo \subseteq Req(w).ids
    /\ \E d \in DepartureId :
         \A r \in Req(w).ids : reservation[r] # None /\ reservation[r].departure = d

Ledger(w) ==
  /\ \A r \in ReservationId : written[w][r] # None => Entry(w, r)
  /\ mem[w].link # None /\ Req(w).op = "update" => mem[w].link.of # Req(w).id
  /\ At(w, "commit", "update") => written[w][Req(w).id] # None
  /\ MoveAgreed(w) /\ GroupAgreed(w)

(* A link under way, or just written, is to a journey that is not later. *)
LegTime(w) ==
  IF Req(w).op = "create" THEN CurrentItem(w).time ELSE View(w, Req(w).id).time
RowTimed(w, r) ==
  LET new == written[w][r]
      old == reservation[r]
  IN new # None =>
       /\ old # None => new.time = old.time
       /\ new.returnOf # None /\ (old = None \/ (old # None /\ old.returnOf # new.returnOf)) =>
            View(w, new.returnOf) # None /\ new.time >= View(w, new.returnOf).time
LinkTimed(w) ==
  /\ \A r \in ReservationId : RowTimed(w, r)
  /\ pc[w] \in {"slot", "stamp", "write"} /\ mem[w].link # None =>
       Req(w).op \in {"create", "update"} /\ LegTime(w) >= View(w, mem[w].link.of).time

-----------------------------------------------------------------------------
(* Steps, as the new invariants see them. *)

(* A row that w has written is locked: what is committed of it stays. *)
LEMMA LockedRowStays ==
  ASSUME Inv, NEW w \in Writer, NEW x \in Writer, w # x, WriterStep(x),
         NEW r \in ReservationId, written[w][r] # None
  PROVE  reservation'[r] = reservation[r]
<1>1. reservation' = reservation \/ Commit(x)
  BY WriterSteps
<1>2. CASE Commit(x)
  <2>1. written[x][r] = None
    BY DEF Inv, RowsExclusive
  <2> QED BY <1>2, <2>1 DEF Commit, View
<1> QED BY <1>1, <1>2

(* The rows of a transaction that has just been written, one at most. *)
OneRow(w, r, row) ==
  /\ RowFree(w, r)
  /\ written'[w] = [written[w] EXCEPT ![r] = row]

(* What a step writes: nothing, nothing any more, a booked row, or a changed
   version of a row it sees. *)
LEMMA WrittenSteps ==
  ASSUME Inv, NEW w \in Writer, WriterStep(w)
  PROVE  \/ written'[w] = written[w] /\ reservation' = reservation
         \/ written'[w] = NothingWritten /\ pc'[w] = "idle" /\ mem'[w] = Blank
         \/ InsertItem(w) \/ Stamp(w)
         \/ WriteUpdate(w) \/ WriteSeat(w) \/ WriteCancel(w) \/ WriteMany(w)
<1> TypeOK /\ LocalInv(w)
  BY DEF Inv
<1>1. CASE Submit(w) \/ LockDeparture(w)
  BY <1>1 DEF Submit, LockDeparture
<1>2. ASSUME NEW code, End(w, code)
      PROVE  written'[w] = NothingWritten /\ pc'[w] = "idle" /\ mem'[w] = Blank
  BY <1>2 DEF TypeOK, End
<1>3. ASSUME NEW phase, NEW m, Goto(w, phase, m)
      PROVE  written'[w] = written[w] /\ reservation' = reservation
  BY <1>3 DEF Goto
<1> QED
  BY <1>1, <1>2, <1>3
  DEF WriterStep, Statement, ScheduleLockTimeout, AbortDeadlock, AcquireScheduleLockShared,
      Name, NameCreate, NameOne, NameGroup, NameMerge, DeparturesLocked, CheckItem,
      CheckUpdate, CheckMove, CheckCancel, CheckMany, CheckSlot, RefuseItem, Rollback, Fail,
      Commit

(* A row with one field changed is the same but for that field. *)
LEMMA OneFieldChanged ==
  ASSUME NEW old \in ReservationRow, NEW v
  PROVE  /\ SameBut([old EXCEPT !.marker = v], old, {"marker"})
         /\ SameBut([old EXCEPT !.seat = v], old, {"seat"})
         /\ SameBut([old EXCEPT !.status = v], old, {"status"})
         /\ SameBut([old EXCEPT !.group = v], old, {"group"})
         /\ SameBut([old EXCEPT !.passenger = v], old, {"passenger"})
BY DEF SameBut, Field, ReservationRow

(* Two rows that are the same but for some fields, field by field. *)
LEMMA SameButFields ==
  ASSUME NEW new, NEW old, NEW F
  PROVE  SameBut(new, old, F) <=>
           /\ "departure" \in F \/ new.departure = old.departure
           /\ "passenger" \in F \/ new.passenger = old.passenger
           /\ "seat" \in F \/ new.seat = old.seat
           /\ "from" \in F \/ new.from = old.from
           /\ "to" \in F \/ new.to = old.to
           /\ "time" \in F \/ new.time = old.time
           /\ "status" \in F \/ new.status = old.status
           /\ "returnOf" \in F \/ new.returnOf = old.returnOf
           /\ "marker" \in F \/ new.marker = old.marker
           /\ "group" \in F \/ new.group = old.group
BY DEF SameBut, Field

(* Fields left alone by two changes in a row are left alone by both. *)
LEMMA SameButTwice ==
  ASSUME NEW a, NEW b, NEW c, NEW F, SameBut(a, b, F), SameBut(b, c, F)
  PROVE  SameBut(a, c, F)
BY DEF SameBut

(* What the marker of an outbound leg is stamped with changes nothing else. *)
LEMMA StampFacts ==
  ASSUME Inv, NEW w \in Writer, Stamp(w)
  PROVE  \E o \in ReservationId, row \in ReservationRow, old \in ReservationRow :
           /\ mem[w].link # None /\ mem[w].link.of = o
           /\ old = View(w, o) /\ SameBut(row, old, {"marker"})
           /\ OneRow(w, o, row)
           /\ UNCHANGED <<departure, reservation, holder, mem>>
           /\ pc[w] = "stamp" /\ pc'[w] = "write"
<1> TypeOK /\ LocalInv(w)
  BY DEF Inv
<1>1. PICK o \in ReservationId : mem[w].link # None /\ o = mem[w].link.of
  BY DEF LocalInv, Shape, Stamp, TypeOK, Memory, Link
<1>2. PICK old \in ReservationRow : old = View(w, o)
  BY <1>1, ViewType DEF LocalInv, LinkExists
<1>3. PICK mark \in Marker : mark = mem[w].link.marker
  BY <1>1 DEF TypeOK, Memory, Link
<1>4. PICK row : row = [old EXCEPT !.marker = mark]
  OBVIOUS
<1>5. row \in ReservationRow
  BY <1>4 DEF ReservationRow
<1>6. SameBut(row, old, {"marker"})
  BY <1>4, OneFieldChanged
<1>7. /\ RowFree(w, o) /\ written' = [written EXCEPT ![w][o] = row]
      /\ UNCHANGED <<departure, reservation, holder, mem>>
      /\ pc[w] = "stamp" /\ pc'[w] = "write"
  BY <1>1, <1>2, <1>3, <1>4 DEF Stamp, schedule, TypeOK
<1>8. OneRow(w, o, row)
  BY <1>7 DEF OneRow, TypeOK
<1> QED BY <1>1, <1>2, <1>5, <1>6, <1>7, <1>8

(* What each of the four writes makes of the row it sees. *)
Writes(w, r, row, old) ==
  LET q == Req(w) IN
  \/ /\ q.op = "update" /\ q \in UpdateRequest /\ r = q.id
     /\ row = UpdatedRow(q, old, mem[w].link)
     /\ mem[w].link # None => SlotSettled(w, mem[w].link.of, r) /\ ~SlotTaken(w, mem[w].link.of, r)
  \/ /\ q.op = "move" /\ SameBut(row, old, {"seat"})
     /\ row.seat = IF r = q.id THEN q.seat ELSE mem[w].read.seat
  \/ /\ q.op = "cancel" /\ r = q.id
     /\ SameBut(row, old, {"status"}) /\ row.status = "CANCELLED"
  \/ /\ q.op = "group" /\ SameBut(row, old, {"group"})
     /\ row = old \/ (IsActive(old) /\ row.group = q.group)
  \/ /\ q.op = "merge" /\ SameBut(row, old, {"passenger"})
     /\ row = old \/ (old.passenger = q.retired /\ row.passenger = q.canonical)

PutsRow(w, r, row, old) ==
  /\ pc[w] = "write" /\ r \in mem[w].todo /\ old = View(w, r)
  /\ RowFree(w, r) /\ Put(w, r, row)
  /\ Writes(w, r, row, old)

LEMMA WriteFacts ==
  ASSUME Inv, NEW w \in Writer,
         WriteUpdate(w) \/ WriteSeat(w) \/ WriteCancel(w) \/ WriteMany(w)
  PROVE  \/ Rollback(w, "refused")
         \/ \E r \in ReservationId, row \in ReservationRow, old \in ReservationRow :
              PutsRow(w, r, row, old)
<1> TypeOK /\ LocalInv(w)
  BY DEF Inv
<1>1. \A r \in mem[w].todo : r \in ReservationId /\ View(w, r) \in ReservationRow
  BY ViewType DEF LocalInv, TodoExists, TypeOK, Memory
<1>2. CASE WriteUpdate(w)
  <2>1. /\ pc[w] = "write" /\ Req(w).op = "update" /\ Req(w) \in Request
        /\ Req(w).id \in mem[w].todo /\ mem[w].link \in Link \cup {None}
    BY <1>2 DEF WriteUpdate, At, LocalInv, Shape, TypeOK, Memory
  <2>2. Req(w) \in UpdateRequest
    BY <2>1, RequestKinds
  <2>3. PICK r \in ReservationId, old \in ReservationRow : r = Req(w).id /\ old = View(w, r)
    BY <1>1, <2>1
  <2>4. PICK row \in ReservationRow : row = UpdatedRow(Req(w), old, mem[w].link)
    BY <2>1, <2>2, UpdatedRowType
  <2>5. CASE Rollback(w, "refused")
    BY <2>5
  <2>6. CASE /\ mem[w].link # None => ~SlotTaken(w, mem[w].link.of, Req(w).id)
             /\ Put(w, Req(w).id, UpdatedRow(Req(w), View(w, Req(w).id), mem[w].link))
    <3>1. /\ RowFree(w, r) /\ Put(w, r, row)
          /\ mem[w].link # None => SlotSettled(w, mem[w].link.of, r) /\ ~SlotTaken(w, mem[w].link.of, r)
      BY <1>2, <2>3, <2>4, <2>6 DEF WriteUpdate
    <3>2. Writes(w, r, row, old)
      BY <2>1, <2>2, <2>3, <2>4, <3>1 DEF Writes
    <3>3. PutsRow(w, r, row, old)
      BY <2>1, <2>3, <3>1, <3>2 DEF PutsRow
    <3> QED BY <3>3
  <2> QED BY <1>2, <2>5, <2>6 DEF WriteUpdate
<1>3. CASE WriteSeat(w)
  <2>1. PICK r \in mem[w].todo :
          /\ RowFree(w, r)
          /\ Put(w, r, [View(w, r) EXCEPT !.seat = IF r = Req(w).id THEN Req(w).seat ELSE mem[w].read.seat])
    BY <1>3 DEF WriteSeat
  <2>2. pc[w] = "write" /\ Req(w).op = "move" /\ Req(w) \in Request /\ mem[w].read \in ReservationRow
    BY <1>3, <2>1 DEF WriteSeat, At, LocalInv, Shape, TodoExists, TypeOK, Memory
  <2>3. PICK n \in SeatNumber : n = IF r = Req(w).id THEN Req(w).seat ELSE mem[w].read.seat
    BY <2>2, RequestKinds DEF MoveRequest, ReservationRow
  <2>4. PICK old \in ReservationRow : old = View(w, r)
    BY <1>1
  <2>5. PICK row : row = [old EXCEPT !.seat = n]
    OBVIOUS
  <2>6. row \in ReservationRow /\ row.seat = n
    BY <2>5 DEF ReservationRow
  <2>7. SameBut(row, old, {"seat"})
    BY <2>5, OneFieldChanged
  <2>8. Put(w, r, row) /\ Writes(w, r, row, old)
    BY <2>1, <2>2, <2>3, <2>4, <2>5, <2>6, <2>7 DEF Writes
  <2>9. PutsRow(w, r, row, old)
    BY <2>1, <2>2, <2>4, <2>8 DEF PutsRow
  <2> QED BY <1>1, <2>1, <2>4, <2>6, <2>9
<1>4. CASE WriteCancel(w)
  <2>1. pc[w] = "write" /\ Req(w).op = "cancel" /\ Req(w).id \in mem[w].todo
    BY <1>4 DEF WriteCancel, At, LocalInv, Shape
  <2>2. PICK r \in ReservationId, old \in ReservationRow : r = Req(w).id /\ old = View(w, r)
    BY <1>1, <2>1
  <2>3. PICK row : row = [old EXCEPT !.status = "CANCELLED"]
    OBVIOUS
  <2>4. row \in ReservationRow /\ row.status = "CANCELLED"
    BY <2>3 DEF ReservationRow
  <2>5. SameBut(row, old, {"status"})
    BY <2>3, OneFieldChanged
  <2>6. RowFree(w, r) /\ Put(w, r, row) /\ Writes(w, r, row, old)
    BY <1>4, <2>1, <2>2, <2>3, <2>4, <2>5 DEF Writes, WriteCancel
  <2>7. PutsRow(w, r, row, old)
    BY <2>1, <2>2, <2>6 DEF PutsRow
  <2> QED BY <2>2, <2>4, <2>7
<1>5. CASE WriteMany(w)
  <2>1. PICK r \in mem[w].todo : RowFree(w, r) /\ Put(w, r, ManyRow(Req(w), View(w, r)))
    BY <1>5 DEF WriteMany
  <2>2. pc[w] = "write" /\ Req(w) \in GroupRequest \cup MergeRequest
    BY <1>5, RequestKinds DEF WriteMany, At, LocalInv, Shape
  <2>3. PICK old \in ReservationRow : old = View(w, r)
    BY <1>1
  <2>4. PICK row : row = ManyRow(Req(w), old)
    OBVIOUS
  <2>5. row \in ReservationRow
    BY <2>2, <2>4 DEF ManyRow, GroupRequest, MergeRequest, ReservationRow, Group
  <2>6. SameBut(old, old, {"group"}) /\ SameBut(old, old, {"passenger"})
    BY DEF SameBut
  <2>7. ASSUME Req(w).op = "group"
        PROVE  Writes(w, r, row, old)
    <3>1. CASE MatchesMany(Req(w), old)
      <4>1. row = [old EXCEPT !.group = Req(w).group] /\ IsActive(old)
        BY <2>4, <2>7, <3>1 DEF ManyRow, MatchesMany
      <4>2. row.group = Req(w).group
        BY <4>1 DEF ReservationRow
      <4> QED BY <2>7, <4>1, <4>2, OneFieldChanged DEF Writes
    <3>2. CASE ~MatchesMany(Req(w), old)
      <4>1. row = old
        BY <2>4, <3>2 DEF ManyRow
      <4> QED BY <2>6, <2>7, <4>1 DEF Writes
    <3> QED BY <3>1, <3>2
  <2>8. ASSUME Req(w).op = "merge"
        PROVE  Writes(w, r, row, old)
    <3>1. CASE MatchesMany(Req(w), old)
      <4>1. row = [old EXCEPT !.passenger = Req(w).canonical] /\ old.passenger = Req(w).retired
        BY <2>4, <2>8, <3>1 DEF ManyRow, MatchesMany
      <4>2. row.passenger = Req(w).canonical
        BY <4>1 DEF ReservationRow
      <4> QED BY <2>8, <4>1, <4>2, OneFieldChanged DEF Writes
    <3>2. CASE ~MatchesMany(Req(w), old)
      <4>1. row = old
        BY <2>4, <3>2 DEF ManyRow
      <4> QED BY <2>6, <2>8, <4>1 DEF Writes
    <3> QED BY <3>1, <3>2
  <2>9. Writes(w, r, row, old)
    <3>1. Req(w).op = "group" \/ Req(w).op = "merge"
      BY <2>2 DEF GroupRequest, MergeRequest
    <3> QED BY <2>7, <2>8, <3>1
  <2>10. PutsRow(w, r, row, old)
    BY <2>1, <2>2, <2>3, <2>4, <2>9 DEF PutsRow
  <2> QED BY <1>1, <2>1, <2>3, <2>5, <2>10
<1> QED BY <1>2, <1>3, <1>4, <1>5

(* What the insert of an item leaves: a row nobody had, on the item's bus. *)
InsertsRow(w, id, d, row) ==
  /\ At(w, "write", "create") /\ mem[w].todo = {} /\ Unused(id)
  /\ d = NamedDeparture(CurrentItem(w)) /\ departure[d] # None /\ holder[d] = w
  /\ CurrentItem(w) \in Item
  /\ row = NewRow(w, CurrentItem(w), d, mem[w].link)
  /\ SeatAvailable(w, d, CurrentItem(w), CurrentItem(w).seat, {})
  /\ mem[w].link # None => ~SlotTaken(w, mem[w].link.of, None) /\ SlotSettled(w, mem[w].link.of, None)
  /\ OneRow(w, id, row)
  /\ UNCHANGED <<departure, reservation, holder>>
  /\ Req(w)' = Req(w) /\ mem'[w].todo = {} /\ mem'[w].link = None
  /\ pc'[w] \in {"check", "commit"}

LEMMA InsertFacts ==
  ASSUME Inv, NEW w \in Writer, InsertItem(w)
  PROVE  \E id \in ReservationId, d \in DepartureId, row \in ReservationRow :
           InsertsRow(w, id, d, row)
<1> TypeOK /\ LocalInv(w)
  BY DEF Inv
<1>1. PICK id \in ReservationId : id = NewId /\ Unused(id)
  BY NewIdFresh DEF InsertItem
<1>2. PICK d \in DepartureId : d = NamedDeparture(CurrentItem(w))
  BY ItemType DEF InsertItem, LocalInv
<1>3. /\ CurrentItem(w) \in Item /\ departure[d] # None /\ holder[d] = w
      /\ pc[w] = "write" /\ Req(w).op = "create" /\ Req(w) \in Request /\ begun[w] # 0
      /\ mem[w].todo = {} /\ mem[w] \in Memory /\ At(w, "write", "create")
  BY <1>2, ItemType DEF InsertItem, LocalInv, Shape, EveryBus, At, TypeOK
<1>4. PICK row \in ReservationRow : row = NewRow(w, CurrentItem(w), d, mem[w].link)
  BY <1>3, NewRowType DEF Memory
<1>5. /\ written' = [written EXCEPT ![w][id] = row]
      /\ UNCHANGED <<departure, reservation, holder>>
      /\ Req(w)' = Req(w) /\ mem'[w].todo = {} /\ mem'[w].link = None
      /\ pc'[w] \in {"check", "commit"}
  BY <1>1, <1>2, <1>3, <1>4 DEF InsertItem, TypeOK, Memory, Req, schedule
<1>6. /\ SeatAvailable(w, d, CurrentItem(w), CurrentItem(w).seat, {})
      /\ mem[w].link # None => ~SlotTaken(w, mem[w].link.of, None) /\ SlotSettled(w, mem[w].link.of, None)
  BY <1>2 DEF InsertItem
<1>7. OneRow(w, id, row)
  BY <1>1, <1>5 DEF OneRow, TypeOK, Unused, RowFree
<1>8. InsertsRow(w, id, d, row)
  BY <1>1, <1>2, <1>3, <1>4, <1>5, <1>6, <1>7 DEF InsertsRow
<1> QED BY <1>8

(* A row that has been written is the row seen, and no other has changed. *)
LEMMA OneRowViews ==
  ASSUME TypeOK, NEW w \in Writer, NEW r \in ReservationId, NEW row \in ReservationRow,
         OneRow(w, r, row), reservation' = reservation
  PROVE  /\ written'[w][r] = row /\ View(w, r)' = row
         /\ \A s \in ReservationId \ {r} : written'[w][s] = written[w][s] /\ View(w, s)' = View(w, s)
         /\ \A x \in Writer \ {w} : written[x][r] = None
BY NoneAssumption DEF OneRow, RowFree, TypeOK, View

(* An update keeps the bus, the time and the status of the row it sees. *)
LEMMA UpdatedRowSameBut ==
  ASSUME NEW q, NEW old, NEW link
  PROVE  SameBut(UpdatedRow(q, old, link), old,
                 {"passenger", "seat", "from", "to", "group", "returnOf", "marker"})
BY DEF UpdatedRow, SameBut, Field

(* What every write keeps: the bus and the time; and every one but a
   cancellation, the status. *)
LEMMA WritesKeep ==
  ASSUME NEW w, NEW r, NEW row, NEW old, Writes(w, r, row, old)
  PROVE  /\ row.departure = old.departure /\ row.time = old.time
         /\ row.status = old.status \/ row.status = "CANCELLED"
         /\ Req(w).op # "cancel" => row.status = old.status
<1>1. CASE row = UpdatedRow(Req(w), old, mem[w].link)
  BY <1>1 DEF UpdatedRow
<1>2. CASE SameBut(row, old, {"seat"})
  BY <1>2 DEF SameBut, Field
<1>3. CASE SameBut(row, old, {"status"}) /\ row.status = "CANCELLED" /\ Req(w).op = "cancel"
  BY <1>3 DEF SameBut, Field
<1>4. CASE SameBut(row, old, {"group"})
  BY <1>4 DEF SameBut, Field
<1>5. CASE SameBut(row, old, {"passenger"})
  BY <1>5 DEF SameBut, Field
<1> QED BY <1>1, <1>2, <1>3, <1>4, <1>5 DEF Writes

-----------------------------------------------------------------------------
(* The time copies. *)

LEMMA StepCopies ==
  ASSUME Inv, CopiesTold, [Next]_vars
  PROVE  CopiesTold'
<1> TypeOK /\ Referential
  BY DEF Inv
<1>1. ASSUME NEW w \in Writer, WriterStep(w)
      PROVE  CopiesTold'
  <2>1. OwnStep(w) /\ (reservation' = reservation \/ Commit(w)) /\ departure' = departure
    BY <1>1, WriterSteps DEF OwnStep
  <2>2. \A row : Told(row)' <=> Told(row)
    BY <2>1 DEF Told
  <2>3. ASSUME NEW r \in ReservationId
        PROVE  Told(reservation[r])'
    <3>1. PICK row : row = reservation'[r]
      OBVIOUS
    <3>2. row = reservation[r] \/ row = View(w, r)
      BY <2>1, <3>1 DEF Commit
    <3>3. Told(row)
      BY <3>2 DEF CopiesTold, View
    <3> QED BY <2>1, <3>1, <3>3 DEF Told
  <2>4. ASSUME NEW x \in Writer \ {w}, NEW r \in ReservationId
        PROVE  Told(written[x][r])'
    <3>1. written'[x][r] = written[x][r] /\ Told(written[x][r])
      BY <2>1 DEF OwnStep, CopiesTold
    <3> QED BY <2>1, <3>1 DEF Told
  <2>5. ASSUME NEW id \in ReservationId, NEW row \in ReservationRow, OneRow(w, id, row),
               Told(row), reservation' = reservation, NEW r \in ReservationId
        PROVE  Told(written[w][r])'
    <3>1. written'[w][r] = row \/ written'[w][r] = written[w][r]
      BY <2>5, OneRowViews
    <3>2. Told(written[w][r])
      BY DEF CopiesTold
    <3> QED BY <2>1, <2>5, <3>1, <3>2 DEF Told
  <2>6. ASSUME NEW old \in ReservationRow, NEW row \in ReservationRow, NEW id \in ReservationId,
               old = View(w, id), row.departure = old.departure, row.time = old.time
        PROVE  Told(row)
    <3>1. Told(old)
      BY <2>6 DEF CopiesTold, View
    <3> QED BY <2>6, <3>1, NoneAssumption DEF Told
  <2>7. ASSUME NEW r \in ReservationId
        PROVE  Told(written[w][r])'
    <3>1. CASE written'[w] = written[w]
      BY <2>1, <3>1 DEF CopiesTold, Told
    <3>2. CASE written'[w] = NothingWritten
      BY <3>2 DEF NothingWritten, Told
    <3>3. CASE InsertItem(w)
      <4>1. PICK id \in ReservationId, d \in DepartureId, row \in ReservationRow :
              InsertsRow(w, id, d, row)
        BY <3>3, InsertFacts
      <4>2. Told(row)
        BY <4>1 DEF InsertsRow, NewRow, Told
      <4> QED BY <2>5, <4>1, <4>2 DEF InsertsRow
    <3>4. CASE Stamp(w)
      <4>1. PICK o \in ReservationId, row \in ReservationRow, old \in ReservationRow :
              old = View(w, o) /\ SameBut(row, old, {"marker"}) /\ OneRow(w, o, row)
              /\ reservation' = reservation
        BY <3>4, StampFacts
      <4>2. row.departure = old.departure /\ row.time = old.time
        BY <4>1 DEF SameBut, Field
      <4> QED BY <2>5, <2>6, <4>1, <4>2
    <3>5. CASE WriteUpdate(w) \/ WriteSeat(w) \/ WriteCancel(w) \/ WriteMany(w)
      <4>1. CASE Rollback(w, "refused")
        BY <4>1, RollbackOwn DEF NothingWritten, Told
      <4>2. CASE \E id \in ReservationId, row \in ReservationRow, old \in ReservationRow :
                   PutsRow(w, id, row, old)
        <5>1. PICK id \in ReservationId, row \in ReservationRow, old \in ReservationRow :
                PutsRow(w, id, row, old)
          BY <4>2
        <5>2. OneRow(w, id, row) /\ reservation' = reservation /\ old = View(w, id)
          BY <5>1, PutOwn DEF PutsRow, OneRow
        <5>3. row.departure = old.departure /\ row.time = old.time
          BY <5>1, WritesKeep DEF PutsRow
        <5> QED BY <2>5, <2>6, <5>2, <5>3
      <4> QED BY <3>5, <4>1, <4>2, WriteFacts
    <3> QED BY <1>1, <3>1, <3>2, <3>3, <3>4, <3>5, WrittenSteps
  <2> QED BY <2>3, <2>4, <2>7 DEF CopiesTold
<1>2. CASE ApplyEdit
  <2>1. PICK e \in Edit :
          /\ EditAllowed(e)
          /\ departure' = [id \in DepartureId |-> Edited(e, id)]
          /\ reservation' = [r \in ReservationId |-> Resettled(e, reservation[r])]
    BY <1>2 DEF ApplyEdit
  <2>2. Referential'
    BY <1>2, StepReferential DEF Next, Schedule
  <2>3. ASSUME NEW r \in ReservationId
        PROVE  Told(reservation[r])'
    <3> SUFFICES ASSUME reservation'[r] # None, reservation'[r].departure # None
                 PROVE  reservation'[r].time = departure'[reservation'[r].departure].time
      BY <2>2 DEF Told, Referential
    <3>1. PICK row \in ReservationRow : row = reservation[r]
      BY <2>1 DEF Resettled, TypeOK
    <3>2. reservation'[r].departure = row.departure /\ row.departure \in DepartureId
      BY <2>1, <3>1 DEF Resettled, ReservationRow
    <3>3. Told(row)
      BY <3>1 DEF CopiesTold
    <3>4. departure'[row.departure] = Edited(e, row.departure) /\ Edited(e, row.departure) # None
      BY <2>1, <2>2, <3>2 DEF Referential
    <3>5. CASE row.departure \notin Reached(e)
      <4>1. reservation'[r] = row /\ Edited(e, row.departure) = departure[row.departure]
        BY <2>1, <3>1, <3>5 DEF Resettled, Edited
      <4> QED BY <3>1, <3>2, <3>3, <3>4, <4>1, NoneAssumption DEF Told
    <3>6. CASE row.departure \in Reached(e)
      <4>1. reservation'[r].time = Edited(e, row.departure).time
        BY <2>1, <3>1, <3>4, <3>6, NoneAssumption DEF Resettled, ReservationRow
      <4> QED BY <3>2, <3>4, <4>1
    <3> QED BY <3>5, <3>6
  <2>4. ASSUME NEW w \in Writer, NEW r \in ReservationId
        PROVE  Told(written[w][r])'
    <3>1. written'[w] = written[w] /\ ~InTransaction(w) /\ LocalInv(w)
      BY <1>2 DEF ApplyEdit, Inv, Frozen
    <3>2. written'[w][r] = None
      BY <3>1 DEF LocalInv, Shape, InTransaction, NothingWritten
    <3> QED BY <3>2 DEF Told
  <2> QED BY <2>3, <2>4 DEF CopiesTold
<1>3. CASE RequestEdit \/ AcquireScheduleLockExclusive \/ AbandonEdit \/ UNCHANGED vars
  BY <1>3
  DEF CopiesTold, Told, RequestEdit, AcquireScheduleLockExclusive, AbandonEdit, vars
<1> QED BY <1>1, <1>2, <1>3 DEF Next, WriterStep, Schedule

(* The time copies on a booked departure's reservations are the bus's own
   times, whoever retimes it and whoever books meanwhile: a booking reads its
   bus under the schedule lock, and the edit that retimes the bus also retimes
   the reservations on it (bookingDeparture, departure-sync.ts). *)
THEOREM CopiesAlwaysTell == Spec => []CopiesFollowBus
<1>1. Init => CopiesTold
  <2>1. SUFFICES ASSUME Init PROVE CopiesTold
    OBVIOUS
  <2>2. ASSUME NEW r \in ReservationId PROVE Told(reservation[r])
    BY <2>1, ForeignKeyAssumption, CopiesAssumption DEF Init, Told
  <2>3. ASSUME NEW w \in Writer, NEW r \in ReservationId PROVE Told(written[w][r])
    BY <2>1 DEF Init, Told, NothingWritten
  <2> QED BY <2>2, <2>3 DEF CopiesTold
<1>2. Inv /\ CopiesTold /\ [Next]_vars => CopiesTold'
  BY StepCopies
<1>3. CopiesTold => CopiesFollowBus
  BY DEF CopiesTold, Told, CopiesFollowBus
<1> QED BY <1>1, <1>2, <1>3, SpecInv, PTL DEF Spec

-----------------------------------------------------------------------------
(* One return leg for an outbound leg. *)

(* A row that w writes claims no outbound leg but the one it claimed already, or
   one that nobody else claims. *)
Settles(w, id, row) ==
  \A o \in ReservationId : Claims(row, o) =>
    \/ Claims(View(w, id), o)
    \/ /\ \A s \in ReservationId \ {id} : ~Claims(View(w, s), o)
       /\ \A x \in Writer \ {w}, s \in ReservationId : ~Claims(written[x][s], o)

LEMMA OneRowSlots ==
  ASSUME TypeOK, SlotsInv, NEW w \in Writer, NEW id \in ReservationId,
         NEW row \in ReservationRow, OneRow(w, id, row), Settles(w, id, row),
         reservation' = reservation, \A x \in Writer \ {w} : written'[x] = written[x]
  PROVE  SlotsInv'
<1>1. /\ written'[w][id] = row /\ View(w, id)' = row
      /\ \A s \in ReservationId \ {id} : written'[w][s] = written[w][s] /\ View(w, s)' = View(w, s)
      /\ \A x \in Writer \ {w} : written[x][id] = None
  BY OneRowViews
<1>2. OneLiveReturnLeg'
  BY DEF SlotsInv, OneLiveReturnLeg, IsActive
<1>3. ASSUME NEW o \in ReservationId, NEW s \in ReservationId \ {id}, Claims(row, o)
      PROVE  /\ ~Claims(View(w, s), o)
             /\ \A x \in Writer \ {w} : ~Claims(written[x][s], o)
  <2>1. CASE Claims(View(w, id), o)
    <3>1. ~Claims(View(w, s), o)
      BY <2>1 DEF SlotsInv, ClaimedOnce
    <3>2. ASSUME NEW x \in Writer \ {w}, Claims(written[x][s], o)
          PROVE  FALSE
      <4>1. CASE written[w][id] # None
        <5>1. Claims(written[w][id], o)
          BY <2>1, <4>1 DEF View
        <5> QED BY <3>2, <5>1 DEF SlotsInv, ClaimedApart
      <4>2. CASE written[w][id] = None
        <5>1. View(x, id) = View(w, id)
          BY <1>1, <4>2 DEF View
        <5>2. View(x, s) = written[x][s]
          BY <3>2 DEF View, Claims, IsActive
        <5>3. Claims(View(x, id), o) /\ Claims(View(x, s), o)
          BY <2>1, <3>2, <5>1, <5>2
        <5> QED BY <5>3 DEF SlotsInv, ClaimedOnce
      <4> QED BY <4>1, <4>2
    <3> QED BY <3>1, <3>2
  <2>2. CASE ~Claims(View(w, id), o)
    BY <1>3, <2>2 DEF Settles
  <2> QED BY <2>1, <2>2
<1>4. ClaimedOnce(w)'
  <2>1. ASSUME NEW o \in ReservationId, NEW r \in ReservationId, NEW s \in ReservationId,
               Claims(View(w, r)', o), Claims(View(w, s)', o), r # s
        PROVE  FALSE
    <3>1. CASE r = id
      BY <1>1, <1>3, <2>1, <3>1
    <3>2. CASE s = id
      BY <1>1, <1>3, <2>1, <3>2
    <3>3. CASE r # id /\ s # id
      BY <1>1, <2>1, <3>3 DEF SlotsInv, ClaimedOnce
    <3> QED BY <3>1, <3>2, <3>3
  <2> QED BY <2>1 DEF ClaimedOnce, Claims, IsActive
<1>5. ASSUME NEW x \in Writer \ {w}
      PROVE  ClaimedOnce(x)'
  <2>1. \A r \in ReservationId : View(x, r)' = View(x, r)
    BY DEF View
  <2>2. ClaimedOnce(x)
    BY DEF SlotsInv
  <2> QED BY <2>1, <2>2 DEF ClaimedOnce, Claims, IsActive
<1>6. ClaimedApart'
  <2>1. ASSUME NEW x \in Writer, NEW y \in Writer, NEW o \in ReservationId,
               NEW r \in ReservationId, NEW s \in ReservationId, x # y,
               Claims(written'[x][r], o), Claims(written'[y][s], o)
        PROVE  FALSE
    <3>1. ASSUME NEW z \in Writer \ {w}, NEW p \in ReservationId, NEW q \in ReservationId,
                 Claims(written'[w][p], o), Claims(written'[z][q], o)
          PROVE  FALSE
      <4>1. Claims(written[z][q], o) /\ q # id
        BY <1>1, <3>1 DEF Claims, IsActive
      <4>2. CASE p = id
        BY <1>1, <1>3, <3>1, <4>1, <4>2
      <4>3. CASE p # id
        BY <1>1, <3>1, <4>1, <4>3 DEF SlotsInv, ClaimedApart
      <4> QED BY <4>2, <4>3
    <3>2. CASE x = w
      BY <2>1, <3>1, <3>2
    <3>3. CASE y = w
      BY <2>1, <3>1, <3>3
    <3>4. CASE x # w /\ y # w
      BY <2>1, <3>4 DEF SlotsInv, ClaimedApart
    <3> QED BY <3>2, <3>3, <3>4
  <2> QED BY <2>1 DEF ClaimedApart, Claims, IsActive
<1> QED BY <1>2, <1>4, <1>5, <1>6 DEF SlotsInv

(* What is written claims what it claimed, or a slot that was asked for. *)
LEMMA WritesSettle ==
  ASSUME NEW w \in Writer, NEW r \in ReservationId, NEW row, NEW old \in ReservationRow,
         Writes(w, r, row, old), old = View(w, r), RowFree(w, r),
         mem[w].link \in Link \cup {None}
  PROVE  Settles(w, r, row)
<1> SUFFICES ASSUME NEW o \in ReservationId, Claims(row, o), ~Claims(old, o)
             PROVE  /\ \A s \in ReservationId \ {r} : ~Claims(View(w, s), o)
                    /\ \A x \in Writer \ {w}, s \in ReservationId : ~Claims(written[x][s], o)
  BY DEF Settles
<1>1. old # None /\ o # None
  BY NoneAssumption
<1>2. ASSUME SameBut(row, old, {"seat"}) \/ SameBut(row, old, {"group"})
              \/ SameBut(row, old, {"passenger"})
      PROVE  FALSE
  <2>1. row.status = old.status /\ row.returnOf = old.returnOf
    BY <1>2 DEF SameBut, Field
  <2> QED BY <1>1, <2>1 DEF Claims, IsActive
<1>3. CASE /\ Req(w).op = "update" /\ r = Req(w).id
           /\ row = UpdatedRow(Req(w), old, mem[w].link)
           /\ mem[w].link # None =>
                SlotSettled(w, mem[w].link.of, r) /\ ~SlotTaken(w, mem[w].link.of, r)
  <2>1. row.status = old.status /\ row.returnOf = o
    BY <1>3 DEF UpdatedRow, Claims
  <2>2. mem[w].link # None /\ o = mem[w].link.of
    <3>1. o # old.returnOf
      BY <1>1, <2>1 DEF Claims, IsActive
    <3> QED BY <1>1, <1>3, <2>1, <3>1 DEF UpdatedRow
  <2>3. \A s \in ReservationId \ {r} : ~Claims(View(w, s), o)
    BY <1>3, <2>2 DEF SlotTaken
  <2>4. ASSUME NEW x \in Writer \ {w}, NEW s \in ReservationId
        PROVE  ~Claims(written[x][s], o)
    BY <1>3, <2>2 DEF SlotSettled, RowFree, Claims, IsActive
  <2> QED BY <2>3, <2>4
<1>4. CASE SameBut(row, old, {"status"}) /\ row.status = "CANCELLED"
  BY <1>4 DEF Claims, IsActive
<1> QED BY <1>2, <1>3, <1>4 DEF Writes

(* What one transaction commits is claimed once, next to what another sees. *)
LEMMA CommitSlots ==
  ASSUME Inv, SlotsInv, NEW w \in Writer, Commit(w)
  PROVE  SlotsInv'
<1>1. /\ \A r \in ReservationId : reservation'[r] = View(w, r)
      /\ \A x \in Writer \ {w} : written'[x] = written[x]
      /\ \A r \in ReservationId : written'[w][r] = None
  BY DEF Commit, End, Inv, TypeOK, NothingWritten
<1>2. ASSUME NEW o \in ReservationId, NEW r \in ReservationId, NEW s \in ReservationId,
             Claims(reservation'[r], o), Claims(reservation'[s], o)
      PROVE  r = s
  BY <1>1, <1>2 DEF SlotsInv, ClaimedOnce
<1>3. OneLiveReturnLeg'
  <2> SUFFICES ASSUME NEW r \in ReservationId, NEW s \in ReservationId,
                      IsActive(reservation'[r]), IsActive(reservation'[s]),
                      reservation'[r].returnOf # None,
                      reservation'[r].returnOf = reservation'[s].returnOf
               PROVE  r = s
    BY DEF OneLiveReturnLeg, IsActive
  <2>1. reservation'[r] \in ReservationRow
    BY <1>1, ViewType DEF Inv, IsActive
  <2>2. reservation'[r].returnOf \in ReservationId
    BY <2>1 DEF ReservationRow
  <2> QED BY <1>2, <2>2 DEF Claims
<1>4. ClaimedOnce(w)'
  <2>1. \A r \in ReservationId : View(w, r)' = reservation'[r]
    BY <1>1 DEF View
  <2> QED BY <1>2, <2>1 DEF ClaimedOnce, Claims, IsActive
<1>5. ASSUME NEW x \in Writer \ {w}
      PROVE  ClaimedOnce(x)'
  <2>1. ASSUME NEW o \in ReservationId, NEW r \in ReservationId, NEW s \in ReservationId,
               Claims(View(x, r)', o), Claims(View(x, s)', o), r # s
        PROVE  FALSE
    <3>1. \A p \in ReservationId :
            View(x, p)' = IF written[x][p] # None THEN written[x][p] ELSE View(w, p)
      BY <1>1 DEF View
    <3>2. ASSUME NEW p \in ReservationId, NEW q \in ReservationId, p # q,
                 Claims(View(x, p)', o), Claims(View(x, q)', o),
                 written[x][p] # None, written[x][q] = None
          PROVE  FALSE
      <4>1. Claims(written[x][p], o) /\ Claims(View(w, q), o)
        BY <3>1, <3>2
      <4>2. CASE written[w][q] # None
        <5>1. Claims(written[w][q], o)
          BY <4>1, <4>2 DEF View
        <5> QED BY <4>1, <5>1 DEF SlotsInv, ClaimedApart
      <4>3. CASE written[w][q] = None
        <5>1. View(x, q) = View(w, q) /\ View(x, p) = written[x][p]
          BY <3>2, <4>3 DEF View
        <5> QED BY <3>2, <4>1, <5>1 DEF SlotsInv, ClaimedOnce
      <4> QED BY <4>2, <4>3
    <3>3. CASE written[x][r] # None /\ written[x][s] # None
      <4>1. Claims(View(x, r), o) /\ Claims(View(x, s), o)
        BY <2>1, <3>1, <3>3 DEF View
      <4> QED BY <2>1, <4>1 DEF SlotsInv, ClaimedOnce
    <3>4. CASE written[x][r] = None /\ written[x][s] = None
      BY <2>1, <3>1, <3>4 DEF SlotsInv, ClaimedOnce
    <3> QED BY <2>1, <3>2, <3>3, <3>4
  <2> QED BY <2>1 DEF ClaimedOnce, Claims, IsActive
<1>6. ClaimedApart'
  <2> SUFFICES ASSUME NEW x \in Writer, NEW y \in Writer, NEW o \in ReservationId,
                      NEW r \in ReservationId, NEW s \in ReservationId, x # y,
                      Claims(written'[x][r], o), Claims(written'[y][s], o)
               PROVE  FALSE
    BY DEF ClaimedApart, Claims, IsActive
  <2>1. x # w /\ y # w
    BY <1>1 DEF Claims, IsActive
  <2> QED BY <1>1, <2>1 DEF SlotsInv, ClaimedApart
<1> QED BY <1>3, <1>4, <1>5, <1>6 DEF SlotsInv

(* Where nothing is written, what is committed is all there is to claim. *)
LEMMA CommittedSlots ==
  ASSUME OneLiveReturnLeg, NEW w \in Writer, written[w] = NothingWritten
  PROVE  ClaimedOnce(w)
<1>1. \A r \in ReservationId : View(w, r) = reservation[r]
  BY DEF View, NothingWritten
<1> QED BY <1>1, NoneAssumption DEF ClaimedOnce, OneLiveReturnLeg, Claims

LEMMA StepSlots ==
  ASSUME Inv, SlotsInv, [Next]_vars
  PROVE  SlotsInv'
<1> TypeOK
  BY DEF Inv
<1>1. ASSUME NEW w \in Writer, WriterStep(w)
      PROVE  SlotsInv'
  <2>1. /\ \A x \in Writer \ {w} : written'[x] = written[x]
        /\ reservation' = reservation \/ Commit(w)
    BY <1>1, WriterSteps DEF OwnStep
  <2>2. CASE Commit(w)
    BY <2>2, CommitSlots
  <2>3. CASE reservation' = reservation /\ written'[w] = written[w]
    <3>1. \A x \in Writer, r \in ReservationId :
            written'[x][r] = written[x][r] /\ View(x, r)' = View(x, r)
      BY <2>1, <2>3 DEF View
    <3> QED BY <2>3, <3>1
        DEF SlotsInv, OneLiveReturnLeg, ClaimedOnce, ClaimedApart, Claims, IsActive
  <2>4. CASE reservation' = reservation /\ written'[w] = NothingWritten
    <3>1. OneLiveReturnLeg'
      BY <2>4 DEF SlotsInv, OneLiveReturnLeg, IsActive
    <3>2. ClaimedOnce(w)'
      <4>1. \A r \in ReservationId : View(w, r)' = reservation[r]
        BY <2>4 DEF View, NothingWritten
      <4> QED BY <4>1, NoneAssumption DEF SlotsInv, ClaimedOnce, OneLiveReturnLeg, Claims, IsActive
    <3>3. ASSUME NEW x \in Writer \ {w}
          PROVE  ClaimedOnce(x)'
      <4>1. \A r \in ReservationId : View(x, r)' = View(x, r)
        BY <2>1, <2>4 DEF View
      <4> QED BY <4>1 DEF SlotsInv, ClaimedOnce, Claims, IsActive
    <3>4. ClaimedApart'
      BY <2>1, <2>4 DEF SlotsInv, ClaimedApart, Claims, IsActive, NothingWritten
    <3> QED BY <3>1, <3>2, <3>3, <3>4 DEF SlotsInv
  <2>5. CASE InsertItem(w)
    <3>1. PICK id \in ReservationId, d \in DepartureId, row \in ReservationRow :
            InsertsRow(w, id, d, row)
      BY <2>5, InsertFacts
    <3>2. Settles(w, id, row)
      <4> SUFFICES ASSUME NEW o \in ReservationId, Claims(row, o)
                   PROVE  /\ \A s \in ReservationId \ {id} : ~Claims(View(w, s), o)
                          /\ \A x \in Writer \ {w}, s \in ReservationId : ~Claims(written[x][s], o)
        BY DEF Settles
      <4>1. mem[w].link # None /\ o = mem[w].link.of
        BY <3>1, NoneAssumption DEF InsertsRow, NewRow, Claims
      <4>2. SlotSettled(w, o, None) /\ ~SlotTaken(w, o, None)
        BY <3>1, <4>1 DEF InsertsRow
      <4> QED BY <4>2, NoneAssumption DEF SlotSettled, SlotTaken, Claims, IsActive
    <3>3. OneRow(w, id, row) /\ reservation' = reservation
      BY <3>1 DEF InsertsRow
    <3> QED BY <2>1, <3>2, <3>3, OneRowSlots
  <2>6. CASE Stamp(w)
    <3>1. PICK o \in ReservationId, row \in ReservationRow, old \in ReservationRow :
            /\ old = View(w, o) /\ SameBut(row, old, {"marker"}) /\ OneRow(w, o, row)
            /\ reservation' = reservation
      BY <2>6, StampFacts
    <3>2. row.status = old.status /\ row.returnOf = old.returnOf /\ old # None
      BY <3>1, NoneAssumption DEF SameBut, Field
    <3>3. Settles(w, o, row)
      BY <3>1, <3>2 DEF Settles, Claims, IsActive
    <3> QED BY <2>1, <3>1, <3>3, OneRowSlots
  <2>7. CASE WriteUpdate(w) \/ WriteSeat(w) \/ WriteCancel(w) \/ WriteMany(w)
    <3>1. CASE Rollback(w, "refused")
      BY <2>4, <3>1, RollbackOwn
    <3>2. CASE \E r \in ReservationId, row \in ReservationRow, old \in ReservationRow :
                 PutsRow(w, r, row, old)
      <4>1. PICK r \in ReservationId, row \in ReservationRow, old \in ReservationRow :
              PutsRow(w, r, row, old)
        BY <3>2
      <4>2. /\ OneRow(w, r, row) /\ reservation' = reservation
            /\ old = View(w, r) /\ RowFree(w, r) /\ Writes(w, r, row, old)
        BY <4>1, PutOwn DEF PutsRow, OneRow
      <4>3. mem[w].link \in Link \cup {None}
        BY DEF TypeOK, Memory
      <4>4. Settles(w, r, row)
        BY <4>2, <4>3, WritesSettle
      <4> QED BY <2>1, <4>2, <4>4, OneRowSlots
    <3> QED BY <2>7, <3>1, <3>2, WriteFacts
  <2> QED BY <1>1, <2>1, <2>2, <2>3, <2>4, <2>5, <2>6, <2>7, WrittenSteps
<1>2. CASE ApplyEdit
  <2>1. PICK e \in Edit : reservation' = [r \in ReservationId |-> Resettled(e, reservation[r])]
    BY <1>2 DEF ApplyEdit
  <2>2. ASSUME NEW r \in ReservationId, IsActive(reservation'[r])
        PROVE  IsActive(reservation[r]) /\ reservation'[r].returnOf = reservation[r].returnOf
    <3>1. reservation'[r] = Resettled(e, reservation[r]) /\ reservation[r] # None
      BY <2>1, <2>2 DEF Resettled, IsActive
    <3>2. PICK row \in ReservationRow : row = reservation[r]
      BY <3>1 DEF TypeOK
    <3>3. CASE row.departure \notin Reached(e)
      BY <2>2, <3>1, <3>2, <3>3 DEF Resettled
    <3>4. CASE row.departure \in Reached(e)
      <4>1. PICK t, c : /\ Resettled(e, row) = [row EXCEPT !.time = t, !.status = c]
                        /\ c \in {"CANCELLED", row.status}
        BY <3>1, <3>2, <3>4 DEF Resettled
      <4>2. /\ Resettled(e, row).status = c
            /\ Resettled(e, row).returnOf = row.returnOf
        BY <4>1 DEF ReservationRow
      <4> QED BY <2>2, <3>1, <3>2, <4>1, <4>2 DEF IsActive
    <3> QED BY <3>3, <3>4
  <2>3. OneLiveReturnLeg'
    <3> SUFFICES ASSUME NEW r \in ReservationId, NEW s \in ReservationId,
                        IsActive(reservation'[r]), IsActive(reservation'[s]),
                        reservation'[r].returnOf # None,
                        reservation'[r].returnOf = reservation'[s].returnOf
                 PROVE  r = s
      BY DEF OneLiveReturnLeg, IsActive
    <3> QED BY <2>2 DEF SlotsInv, OneLiveReturnLeg
  <2>4. \A w \in Writer : written'[w] = NothingWritten
    BY <1>2 DEF ApplyEdit, Inv, Frozen, InTransaction, LocalInv, Shape
  <2>5. ASSUME NEW w \in Writer
        PROVE  ClaimedOnce(w)'
    <3>1. \A r \in ReservationId : View(w, r)' = reservation'[r]
      BY <2>4 DEF View, NothingWritten
    <3> QED BY <2>3, <3>1, NoneAssumption DEF ClaimedOnce, OneLiveReturnLeg, Claims, IsActive
  <2>6. ClaimedApart'
    BY <2>4 DEF ClaimedApart, Claims, IsActive, NothingWritten
  <2> QED BY <2>3, <2>5, <2>6 DEF SlotsInv
<1>3. CASE RequestEdit \/ AcquireScheduleLockExclusive \/ AbandonEdit \/ UNCHANGED vars
  <2>1. UNCHANGED <<reservation, written>>
    BY <1>3 DEF RequestEdit, AcquireScheduleLockExclusive, AbandonEdit, vars
  <2> QED BY <2>1 DEF SlotsInv, OneLiveReturnLeg, ClaimedOnce, ClaimedApart, Claims, IsActive, View
<1> QED BY <1>1, <1>2, <1>3 DEF Next, WriterStep, Schedule

(* No reservation ever has two live return legs, however many bookings and
   updates claim it at once: a claim waits for every undecided row in its slot,
   then finds it taken (the partial unique index behind linkReturnLeg). *)
THEOREM ReturnSlotHeld == Spec => []OneLiveReturnLeg
<1>1. Init => SlotsInv
  <2> SUFFICES ASSUME Init PROVE SlotsInv
    OBVIOUS
  <2>1. OneLiveReturnLeg
    BY ReturnSlotAssumption DEF Init, OneLiveReturnLeg, IsActive
  <2>2. \A w \in Writer : written[w] = NothingWritten
    BY DEF Init
  <2>3. \A w \in Writer : ClaimedOnce(w)
    BY <2>1, <2>2, CommittedSlots
  <2>4. ClaimedApart
    BY <2>2 DEF ClaimedApart, Claims, IsActive, NothingWritten
  <2> QED BY <2>1, <2>3, <2>4 DEF SlotsInv
<1>2. Inv /\ SlotsInv /\ [Next]_vars => SlotsInv'
  BY StepSlots
<1>3. SlotsInv => OneLiveReturnLeg
  BY DEF SlotsInv
<1> QED BY <1>1, <1>2, <1>3, SpecInv, PTL DEF Spec

-----------------------------------------------------------------------------
(* Before a transaction has decided anything, and after it has ended. *)

Quiet(w) ==
  /\ written[w] = NothingWritten /\ mem[w].todo = {} /\ mem[w].link = None
  /\ pc[w] \notin {"slot", "stamp", "write", "commit"}

(* A transaction that has ended. *)
LEMMA EndQuiet ==
  ASSUME TypeOK, NEW w \in Writer, NEW code, End(w, code)
  PROVE  Quiet(w)' /\ pc'[w] = "idle"
BY DEF End, TypeOK, Quiet, Blank

(* The return slot is found free: the transaction goes on as it was. *)
SlotFound(w) ==
  /\ pc[w] = "slot" /\ pc'[w] \in {"stamp", "write"}
  /\ UNCHANGED <<departure, reservation, holder, written>>
  /\ mem'[w] = mem[w] /\ Req(w)' = Req(w)
  /\ Req(w).op \in {"create", "update"} /\ mem[w].link # None

LEMMA CheckSlotFacts ==
  ASSUME Inv, NEW w \in Writer, CheckSlot(w)
  PROVE  SlotFound(w) \/ Rollback(w, "refused")
<1> TypeOK /\ LocalInv(w)
  BY DEF Inv
<1>1. ASSUME NEW phase \in {"stamp", "write"}, Goto(w, phase, mem[w])
      PROVE  SlotFound(w)
  <2>1. /\ pc[w] = "slot" /\ mem[w].request = Req(w)
        /\ Req(w).op \in {"create", "update"} /\ mem[w].link # None
    BY DEF CheckSlot, LocalInv, Shape, Req
  <2> QED BY <1>1, <2>1, GotoFacts DEF SlotFound
<1> QED BY <1>1 DEF CheckSlot

(* What a step of w is: quiet, or one that decides or writes. *)
LEMMA OwnCases ==
  ASSUME Inv, NEW w \in Writer, WriterStep(w)
  PROVE  \/ Quiet(w)'
         \/ CheckItem(w) \/ CheckUpdate(w) \/ CheckMove(w) \/ CheckCancel(w) \/ CheckMany(w)
         \/ SlotFound(w) \/ Stamp(w) \/ InsertItem(w)
         \/ WriteUpdate(w) \/ WriteSeat(w) \/ WriteCancel(w) \/ WriteMany(w)
<1> TypeOK /\ LocalInv(w)
  BY DEF Inv
<1>1. CASE Submit(w)
  <2>1. pc[w] = "idle" /\ written[w] = NothingWritten /\ mem[w].todo = {} /\ mem[w].link = None
    BY <1>1 DEF Submit, LocalInv, Shape
  <2>2. pc'[w] = "schedule" /\ written' = written
        /\ mem'[w].todo = mem[w].todo /\ mem'[w].link = mem[w].link
    BY <1>1 DEF Submit, TypeOK, Memory
  <2> QED BY <2>1, <2>2 DEF Quiet
<1>2. CASE LockDeparture(w)
  <2>1. pc[w] = "lock" /\ written[w] = NothingWritten /\ mem[w].todo = {} /\ mem[w].link = None
    BY <1>2 DEF LockDeparture, LocalInv, Shape
  <2>2. pc' = pc /\ written' = written
        /\ mem'[w].todo = mem[w].todo /\ mem'[w].link = mem[w].link
    BY <1>2 DEF LockDeparture, TypeOK, Memory
  <2> QED BY <2>1, <2>2 DEF Quiet
<1>3. ASSUME NEW code, End(w, code)
      PROVE  Quiet(w)'
  BY <1>3, EndQuiet
<1>4. ASSUME NEW phase \in {"name", "lock", "check"}, NEW m, Goto(w, phase, m),
             m.todo = mem[w].todo, m.link = mem[w].link,
             pc[w] \in {"schedule", "name", "lock"}
      PROVE  Quiet(w)'
  <2>1. written[w] = NothingWritten /\ mem[w].todo = {} /\ mem[w].link = None
    BY <1>4 DEF LocalInv, Shape
  <2>2. pc'[w] = phase /\ mem'[w] = m /\ written' = written
    BY <1>4, GotoFacts
  <2> QED BY <1>4, <2>1, <2>2 DEF Quiet
<1>5. CASE AcquireScheduleLockShared(w) \/ DeparturesLocked(w)
  BY <1>4, <1>5 DEF AcquireScheduleLockShared, DeparturesLocked
<1>6. ASSUME NEW ds, NEW row
      PROVE  /\ [mem[w] EXCEPT !.want = ds].todo = mem[w].todo
             /\ [mem[w] EXCEPT !.want = ds].link = mem[w].link
             /\ [mem[w] EXCEPT !.read = row, !.want = ds].todo = mem[w].todo
             /\ [mem[w] EXCEPT !.read = row, !.want = ds].link = mem[w].link
  BY MemoryType DEF Memory
<1>7. CASE NameCreate(w) \/ NameGroup(w) \/ NameMerge(w)
  BY <1>3, <1>4, <1>6, <1>7 DEF NameCreate, NameGroup, NameMerge, At, Rollback
<1>8. CASE NameOne(w)
  BY <1>3, <1>4, <1>6, <1>8 DEF NameOne, At, Rollback
<1>9. CASE CheckSlot(w)
  BY <1>3, <1>9, CheckSlotFacts DEF Rollback
<1> QED
  BY <1>1, <1>2, <1>3, <1>5, <1>7, <1>8, <1>9
  DEF WriterStep, Statement, Name, ScheduleLockTimeout, AbortDeadlock, RefuseItem, Rollback,
      Fail, Commit

(* Nothing is placed, linked or written in a quiet state. *)
LEMMA QuietHolds ==
  ASSUME NEW w \in Writer, Quiet(w)'
  PROVE  /\ ItemChecked(w)' /\ SeatsPlanned(w)' /\ LinkTimed(w)'
         /\ GroupAgreed(w)' => Ledger(w)'
<1>1. ItemChecked(w)'
  BY DEF Quiet, ItemChecked, At
<1>2. SeatsPlanned(w)'
  BY DEF Quiet, SeatsPlanned, Placed, NothingWritten
<1>3. LinkTimed(w)'
  BY DEF Quiet, LinkTimed, RowTimed, NothingWritten
<1>4. GroupAgreed(w)' => Ledger(w)'
  BY DEF Quiet, Ledger, MoveAgreed, At, NothingWritten
<1> QED BY <1>1, <1>2, <1>3, <1>4

-----------------------------------------------------------------------------
(* What the checks decide. *)

(* The outbound leg of the link that is settled exists and does not leave later
   than the journey it is linked to. *)
LinkDecided(w, time) ==
  mem'[w].link # None =>
    /\ mem'[w].link.of \in ReservationId /\ View(w, mem'[w].link.of) # None
    /\ time >= View(w, mem'[w].link.of).time

(* The rows T are planned in free seats of bus d, and no other plan is made. *)
Places(w, d, T) ==
  /\ holder[d] = w /\ departure[d] # None
  /\ \A r \in T :
       LET row == Planned(w, r)' IN
       /\ row \in ReservationRow /\ IsActive(row) /\ row.departure = d
       /\ ValidSegment(departure[d], row)
       /\ SeatFree(w, d, row, row.seat, T)
  /\ \A r, s \in T : r # s => Planned(w, r)'.seat # Planned(w, s)'.seat
  /\ \A r \in ReservationId \ T : Planned(w, r)' = View(w, r)

ItemDecided(w) ==
  /\ pc[w] = "check" /\ pc'[w] \in {"slot", "write"}
  /\ UNCHANGED <<departure, reservation, holder, written>>
  /\ Req(w)' = Req(w) /\ Req(w).op = "create"
  /\ mem[w].todo = {} /\ mem'[w].todo = {} /\ mem[w].link = None
  /\ mem'[w].made = mem[w].made
  /\ CurrentItem(w) \in Item /\ Bookable(CurrentItem(w), NamedDeparture(CurrentItem(w)))
  /\ LinkDecided(w, CurrentItem(w).time)

LEMMA CheckItemFacts ==
  ASSUME Inv, NEW w \in Writer, CheckItem(w)
  PROVE  Quiet(w)' \/ ItemDecided(w)
<1> TypeOK /\ LocalInv(w)
  BY DEF Inv
<1> DEFINE item == CurrentItem(w)
           o == OutboundOf(w, item)
           link == LinkOrNone(w, o)
<1>1. CASE Rollback(w, "refused")
  BY <1>1, EndQuiet DEF Rollback
<1>2. CASE /\ Bookable(item, NamedDeparture(item))
           /\ o # None => LinkAllowed(w, o, LegOf(item), None)
           /\ Goto(w, AfterLink(link), [mem[w] EXCEPT !.link = link])
  <2>1. /\ mem[w] \in Memory /\ pc[w] = "check" /\ Req(w).op = "create" /\ Req(w) \in Request
        /\ mem[w].todo = {} /\ mem[w].link = None /\ begun[w] # 0 /\ At(w, "check", "create")
    BY DEF TypeOK, LocalInv, Shape, CheckItem, At
  <2>2. item \in Item /\ o \in ReservationId \cup {None} /\ (o # None => Exists(w, o))
    BY <1>2, <2>1, ItemType DEF LocalInv, LinkAllowed
  <2>3. link # None => o # None /\ link.of = o
    BY <2>1, <2>2, LinkType
  <2>4. ASSUME o # None
        PROVE  View(w, o) # None /\ item.time >= View(w, o).time
    <3>1. View(w, o) \in ReservationRow /\ ~(item.time < View(w, o).time)
      BY <1>2, <2>2, <2>4, ViewType DEF LinkAllowed, LegOf, Exists
    <3> QED BY <2>2, <3>1, NoneAssumption DEF Item, ReservationRow
  <2> HIDE DEF link
  <2>5. /\ UNCHANGED <<departure, reservation, holder, written>>
        /\ pc'[w] = AfterLink(link) /\ mem'[w] = [mem[w] EXCEPT !.link = link]
    BY <1>2, GotoFacts
  <2>6. /\ Req(w)' = Req(w) /\ mem'[w].todo = {} /\ mem'[w].made = mem[w].made
        /\ mem'[w].link = link
    BY <2>1, <2>5 DEF Memory, Req
  <2>7. LinkDecided(w, item.time)
    BY <2>2, <2>3, <2>4, <2>6 DEF LinkDecided
  <2> QED BY <1>2, <2>1, <2>2, <2>5, <2>6, <2>7 DEF ItemDecided, AfterLink
<1> QED BY <1>1, <1>2 DEF CheckItem

UpdateDecided(w, id) ==
  /\ pc[w] = "check" /\ pc'[w] \in {"slot", "write"}
  /\ UNCHANGED <<departure, reservation, holder, written>> /\ written[w] = NothingWritten
  /\ Req(w)' = Req(w) /\ Req(w).op = "update" /\ Req(w).id = id
  /\ mem[w].todo = {} /\ mem'[w].todo = {id}
  /\ View(w, id) \in ReservationRow
  /\ LinkDecided(w, View(w, id).time) /\ (mem'[w].link # None => mem'[w].link.of # id)
  /\ \E d \in DepartureId : Places(w, d, {id})

LEMMA CheckUpdateFacts ==
  ASSUME Inv, NEW w \in Writer, CheckUpdate(w)
  PROVE  Quiet(w)' \/ \E id \in ReservationId : UpdateDecided(w, id)
<1> TypeOK /\ Referential /\ LocalInv(w)
  BY DEF Inv
<1> DEFINE q == Req(w)
           row == Reread(w)
           d == mem[w].read.departure
           leg == UpdatedLeg(q, row)
           seat == Given(q.seat, row.seat)
           o == OutboundToValidate(q, row)
           link == LinkOrNone(w, o)
           m == [mem[w] EXCEPT !.read = row, !.link = link, !.todo = {q.id}]
<1>1. CASE \E code : Rollback(w, code)
  BY <1>1, EndQuiet DEF Rollback
<1>2. CASE /\ row.status = "ACTIVE" /\ ValidSegment(departure[d], leg)
           /\ SeatAvailable(w, d, leg, seat, {q.id})
           /\ o # None => LinkAllowed(w, o, leg, q.id)
           /\ Goto(w, AfterLink(link), m)
  <2>1. pc[w] = "check" /\ OneRowRequest(w) /\ q.op = "update"
    BY DEF CheckUpdate, At, OneRowRequest
  <2>2. /\ q.id \in ReservationId /\ q \in UpdateRequest /\ begun[w] # 0
        /\ mem[w] \in Memory /\ mem[w].todo = {}
        /\ row = View(w, q.id) /\ row \in ReservationRow /\ row.departure = d
    BY <2>1, RereadFacts, RequestKinds
  <2>3. d # None /\ written[w] = NothingWritten
    BY <2>1 DEF LocalInv, ItsBus, Shape
  <2>4. d \in DepartureId /\ holder[d] = w /\ departure[d] # None
    BY <2>1, <2>3, RereadFacts
  <2>5. /\ o \in ReservationId \cup {None} /\ (o # None => Exists(w, o))
        /\ link \in Link \cup {None} /\ (link # None => o # None /\ link.of = o)
    BY <1>2, <2>2, OutboundType, LinkType DEF LinkAllowed
  <2>6. ASSUME o # None
        PROVE  View(w, o) # None /\ row.time >= View(w, o).time /\ o # q.id
    <3>1. View(w, o) \in ReservationRow /\ ~(row.time < View(w, o).time) /\ o # q.id
      BY <1>2, <2>5, <2>6, ViewType DEF LinkAllowed, UpdatedLeg, Exists
    <3> QED BY <2>2, <3>1, NoneAssumption DEF ReservationRow
  <2>7. PICK new \in ReservationRow : new = UpdatedRow(q, row, link)
    BY <2>2, <2>5, UpdatedRowType
  <2>8. /\ new.departure = d /\ new.seat = seat /\ new.status = "ACTIVE"
        /\ new.from = leg.from /\ new.to = leg.to
    BY <1>2, <2>2, <2>7 DEF UpdatedRow, UpdatedLeg
  <2>9. SeatFree(w, d, new, new.seat, {q.id})
    BY <1>2, <2>8 DEF SeatAvailable, SeatFree, Overlap, SegmentOf
  <2>10. ValidSegment(departure[d], new)
    BY <1>2, <2>8 DEF ValidSegment, OnRoute, Forward, SegmentOf
  <2> HIDE DEF link, leg, seat
  <2>11. m.request = q /\ m.todo = {q.id} /\ m.link = link
    BY <2>2 DEF Memory, Req
  <2>12. /\ UNCHANGED <<departure, reservation, holder, written>>
         /\ pc'[w] = AfterLink(link) /\ mem'[w] = m /\ Req(w)' = q
         /\ \A r : View(w, r)' = View(w, r)
    <3>1. Goto(w, AfterLink(link), m)
      BY <1>2
    <3> HIDE DEF m, q
    <3> QED BY <2>11, <3>1, GotoFacts
  <2>13. LinkDecided(w, View(w, q.id).time) /\ (mem'[w].link # None => mem'[w].link.of # q.id)
    BY <2>2, <2>5, <2>6, <2>11, <2>12 DEF LinkDecided
  <2> HIDE DEF row, m, d, q, o
  <2>14. PICK id \in ReservationId : id = q.id
    BY <2>2
  <2>15. /\ Planned(w, id)' = new
         /\ \A r \in ReservationId \ {id} : Planned(w, r)' = View(w, r)
    BY <2>1, <2>2, <2>7, <2>11, <2>12, <2>14 DEF Planned, PlannedRow
  <2>16. Places(w, d, {id})
    BY <2>4, <2>8, <2>9, <2>10, <2>14, <2>15, NoneAssumption DEF Places, IsActive
  <2>17. UpdateDecided(w, id)
    BY <2>1, <2>2, <2>3, <2>4, <2>11, <2>12, <2>13, <2>14, <2>16 DEF UpdateDecided, AfterLink, q
  <2> QED BY <2>17
<1> QED BY <1>1, <1>2 DEF CheckUpdate

(* A seat move as it is agreed: with nobody, or with the one in its way. *)
SwapAgreed(w, id) ==
  LET partner == mem'[w].partner IN
  /\ mem'[w].todo = {id} \cup ({partner} \ {None})
  /\ reservation[id] # None /\ mem'[w].read = reservation[id]
  /\ reservation[id].seat # Req(w).seat
  /\ partner # None =>
       /\ partner \in ReservationId /\ partner # id /\ reservation[partner] # None
       /\ reservation[partner].seat = Req(w).seat
       /\ reservation[partner].departure = reservation[id].departure

MoveDecided(w, id) ==
  /\ pc[w] = "check"
  /\ UNCHANGED <<departure, reservation, holder, written>> /\ written[w] = NothingWritten
  /\ Req(w)' = Req(w) /\ Req(w).op = "move" /\ Req(w).id = id
  /\ mem[w].todo = {} /\ mem'[w].link = None
  /\ \/ pc'[w] = "commit" /\ mem'[w].todo = {}
     \/ /\ pc'[w] = "write" /\ SwapAgreed(w, id)
        /\ \E d \in DepartureId : Places(w, d, mem'[w].todo)

LEMMA CheckMoveFacts ==
  ASSUME Inv, NEW w \in Writer, CheckMove(w)
  PROVE  Quiet(w)' \/ \E id \in ReservationId : MoveDecided(w, id)
<1> TypeOK /\ Referential /\ LocalInv(w)
  BY DEF Inv
<1> DEFINE q == Req(w)
           source == Reread(w)
           d == mem[w].read.departure
           seatFor(r) == IF r = q.id THEN q.seat ELSE source.seat
<1>1. pc[w] = "check" /\ OneRowRequest(w) /\ q.op = "move"
  BY DEF CheckMove, At, OneRowRequest
<1>2. PICK id \in ReservationId : id = q.id
  BY <1>1, RereadFacts
<1>3. /\ q \in MoveRequest /\ q.seat \in SeatNumber
      /\ mem[w] \in Memory /\ mem[w].todo = {} /\ mem[w].link = None
      /\ \A r \in ReservationId : View(w, r) = reservation[r]
      /\ source = View(w, id) /\ source \in ReservationRow /\ source.departure = d
      /\ written[w] = NothingWritten
  BY <1>1, <1>2, RereadFacts, RequestKinds DEF MoveRequest, LocalInv, Shape
<1>4. d # None
  BY <1>1 DEF LocalInv, ItsBus
<1>5. d \in DepartureId /\ holder[d] = w /\ departure[d] # None
  BY <1>1, <1>4, RereadFacts
<1>6. CASE Rollback(w, "refused")
  BY <1>6, EndQuiet DEF Rollback
<1>7. CASE Goto(w, "commit", [mem[w] EXCEPT !.read = source])
  <2> DEFINE m == [mem[w] EXCEPT !.read = source]
  <2>1. m.request = q /\ m.todo = {} /\ m.link = None
    BY <1>3 DEF Memory, Req
  <2>2. /\ UNCHANGED <<departure, reservation, holder, written>>
        /\ pc'[w] = "commit" /\ mem'[w] = m /\ Req(w)' = q
    <3>1. Goto(w, "commit", m)
      BY <1>7
    <3> HIDE DEF m, q
    <3> QED BY <2>1, <3>1, GotoFacts
  <2> HIDE DEF m
  <2>3. MoveDecided(w, id)
    BY <1>1, <1>2, <1>3, <2>1, <2>2 DEF MoveDecided
  <2> QED BY <2>3
<1>8. ASSUME NEW partner \in ReservationId \cup {None}, NEW T \in SUBSET ReservationId,
             T = {id} \cup ({partner} \ {None}),
             Goto(w, "write", [mem[w] EXCEPT !.read = source, !.partner = partner, !.todo = T]),
             source.seat # q.seat,
             partner # None => /\ partner # id
                               /\ View(w, partner).seat = q.seat,
             \A r \in T : /\ View(w, r) \in ReservationRow /\ View(w, r).departure = d
                          /\ View(w, r).status = "ACTIVE"
                          /\ ValidSegment(departure[d], View(w, r))
                          /\ SeatFree(w, d, View(w, r), seatFor(r), T)
      PROVE  MoveDecided(w, id)
  <2> DEFINE m == [mem[w] EXCEPT !.read = source, !.partner = partner, !.todo = T]
  <2>1. m.request = q /\ m.todo = T /\ m.link = None /\ m.read = source /\ m.partner = partner
    BY <1>3 DEF Memory, Req
  <2>2. /\ UNCHANGED <<departure, reservation, holder, written>>
        /\ pc'[w] = "write" /\ mem'[w] = m /\ Req(w)' = q
        /\ \A r : View(w, r)' = View(w, r)
    <3>1. Goto(w, "write", m)
      BY <1>8
    <3> HIDE DEF m, q
    <3> QED BY <2>1, <3>1, GotoFacts
  <2> HIDE DEF m
  <2>3. ASSUME NEW r \in T
        PROVE  /\ Planned(w, r)' \in ReservationRow /\ Planned(w, r)'.departure = d
               /\ IsActive(Planned(w, r)')
               /\ Planned(w, r)'.seat = seatFor(r)
               /\ ValidSegment(departure[d], Planned(w, r)')
               /\ SeatFree(w, d, Planned(w, r)', Planned(w, r)'.seat, T)
    <3>1. Planned(w, r)' = [View(w, r) EXCEPT !.seat = seatFor(r)]
      BY <1>1, <2>1, <2>2 DEF Planned, PlannedRow
    <3>2. seatFor(r) \in SeatNumber
      BY <1>3 DEF ReservationRow
    <3>3. PICK n \in SeatNumber : n = seatFor(r)
      BY <3>2
    <3> HIDE DEF seatFor
    <3>4. PICK row \in ReservationRow : row = View(w, r)
      BY <1>8
    <3>5. PICK new : new = [row EXCEPT !.seat = n]
      OBVIOUS
    <3>6. /\ new \in ReservationRow /\ new.departure = row.departure /\ new.seat = n
          /\ new.from = row.from /\ new.to = row.to /\ new.status = row.status
      BY <3>5 DEF ReservationRow
    <3>7. /\ row.departure = d /\ row.status = "ACTIVE" /\ SeatFree(w, d, row, n, T)
          /\ ValidSegment(departure[d], row)
      BY <1>8, <3>3, <3>4
    <3>8. SeatFree(w, d, new, n, T) /\ ValidSegment(departure[d], new)
      BY <3>6, <3>7 DEF SeatFree, Overlap, SegmentOf, ValidSegment, OnRoute, Forward
    <3>9. Planned(w, r)' = new
      BY <3>1, <3>3, <3>4, <3>5
    <3> QED BY <3>3, <3>6, <3>7, <3>8, <3>9, NoneAssumption DEF IsActive
  <2>4. \A r \in ReservationId \ T : Planned(w, r)' = View(w, r)
    BY <2>1, <2>2 DEF Planned, PlannedRow
  <2>5. \A r, s \in T : r # s => Planned(w, r)'.seat # Planned(w, s)'.seat
    BY <1>2, <1>8, <2>3
  <2> HIDE DEF seatFor
  <2>6. Places(w, d, T)
    BY <1>5, <2>3, <2>4, <2>5 DEF Places
  <2>7. SwapAgreed(w, id)
    BY <1>3, <1>8, <2>1, <2>2, NoneAssumption DEF SwapAgreed
  <2> HIDE DEF d, source
  <2> QED BY <1>1, <1>2, <1>3, <1>5, <2>1, <2>2, <2>6, <2>7 DEF MoveDecided
<1>9. CASE /\ source.status = "ACTIVE" /\ source.seat # q.seat
           /\ ValidSegment(departure[d], source)
           /\ SeatAvailable(w, d, source, q.seat, {id})
           /\ Goto(w, "write", [mem[w] EXCEPT !.read = source, !.partner = None, !.todo = {id}])
  <2>1. \A r \in {id} : /\ View(w, r) \in ReservationRow /\ View(w, r).departure = d
                        /\ View(w, r).status = "ACTIVE"
                        /\ ValidSegment(departure[d], View(w, r))
                        /\ SeatFree(w, d, View(w, r), seatFor(r), {id})
    BY <1>2, <1>3, <1>9 DEF SeatAvailable
  <2>2. {id} \in SUBSET ReservationId /\ {id} = {id} \cup ({None} \ {None})
    OBVIOUS
  <2> HIDE DEF seatFor, source, d, q
  <2>3. MoveDecided(w, id)
    BY <1>8, <1>9, <2>1, <2>2
  <2> QED BY <2>3
<1>10. ASSUME source.status = "ACTIVE", ValidSegment(departure[d], source),
              NEW r \in Destinations(w, d, source), source.seat # q.seat,
              Swappable(w, d, source, r),
              Goto(w, "write", [mem[w] EXCEPT !.read = source, !.partner = r, !.todo = {id, r}])
       PROVE  MoveDecided(w, id)
  <2>1. /\ r \in ReservationId /\ r # id /\ View(w, r).departure = d /\ View(w, r) # None
        /\ View(w, r).status = "ACTIVE" /\ View(w, r).seat = q.seat
    BY <1>2 DEF Destinations, AtTarget, Others, IsActive
  <2>2. View(w, r) \in ReservationRow /\ ValidSegment(departure[d], View(w, r))
    BY <2>1, ViewType DEF Destinations, Unplaced
  <2>3. /\ SeatFree(w, d, source, q.seat, {id, r})
        /\ SeatFree(w, d, View(w, r), source.seat, {id, r})
    BY <1>2, <1>10 DEF Swappable, SeatAvailable
  <2>4. seatFor(id) = q.seat /\ seatFor(r) = source.seat
    BY <1>2, <2>1
  <2>5. \A x \in {id, r} : /\ View(w, x) \in ReservationRow /\ View(w, x).departure = d
                           /\ View(w, x).status = "ACTIVE"
                           /\ ValidSegment(departure[d], View(w, x))
                           /\ SeatFree(w, d, View(w, x), seatFor(x), {id, r})
    BY <1>3, <1>10, <2>1, <2>2, <2>3, <2>4
  <2>6. {id, r} \in SUBSET ReservationId /\ r # None /\ {id, r} = {id} \cup ({r} \ {None})
    BY <2>1, NoneAssumption
  <2> HIDE DEF seatFor, source, d, q
  <2> QED BY <1>8, <1>10, <2>1, <2>5, <2>6
<1> QED BY <1>2, <1>6, <1>7, <1>9, <1>10 DEF CheckMove

(* A cancellation, an assignment or a merge decides on rows and places nobody. *)
ManyDecided(w) ==
  /\ pc[w] = "check" /\ pc'[w] \in {"write", "commit"}
  /\ UNCHANGED <<departure, reservation, holder, written>> /\ written[w] = NothingWritten
  /\ Req(w)' = Req(w) /\ Req(w).op \in {"cancel", "group", "merge"}
  /\ mem'[w].link = None
  /\ Req(w).op = "group" => mem'[w].todo \subseteq Req(w).ids

LEMMA CheckOtherFacts ==
  ASSUME Inv, NEW w \in Writer, CheckCancel(w) \/ CheckMany(w)
  PROVE  Quiet(w)' \/ ManyDecided(w)
<1> TypeOK /\ LocalInv(w)
  BY DEF Inv
<1>1. CASE Rollback(w, "refused")
  BY <1>1, EndQuiet DEF Rollback
<1>2. /\ pc[w] = "check" /\ Req(w).op \in {"cancel", "group", "merge"}
      /\ written[w] = NothingWritten /\ mem[w].link = None /\ mem[w].todo = {} /\ mem[w] \in Memory
  BY DEF LocalInv, Shape, CheckCancel, CheckMany, At, TypeOK
<1>3. ASSUME NEW phase \in {"write", "commit"}, NEW m, Goto(w, phase, m), m.request = Req(w),
             m.link = None, Req(w).op = "group" => m.todo \subseteq Req(w).ids
      PROVE  ManyDecided(w)
  BY <1>2, <1>3, GotoFacts DEF ManyDecided
<1>4. CASE CheckCancel(w)
  <2>1. Req(w).op = "cancel"
    BY <1>4 DEF CheckCancel, At
  <2>2. ASSUME NEW row, NEW rows
        PROVE  /\ [mem[w] EXCEPT !.read = row, !.todo = rows].request = Req(w)
               /\ [mem[w] EXCEPT !.read = row, !.todo = rows].link = None
    BY <1>2 DEF Memory, Req
  <2>3. mem[w].request = Req(w)
    BY DEF Req
  <2> QED BY <1>1, <1>2, <1>3, <1>4, <2>1, <2>2, <2>3 DEF CheckCancel
<1>5. CASE CheckMany(w)
  <2> DEFINE rows == {r \in ReservationId :
                        MatchesMany(Req(w), View(w, r)) /\ (Req(w).op = "group" => r \in Req(w).ids)}
  <2>1. PICK phase \in {"write", "commit"} : Goto(w, phase, [mem[w] EXCEPT !.todo = rows])
    BY <1>5 DEF CheckMany
  <2>2. Req(w).op = "group" => rows \subseteq Req(w).ids
    OBVIOUS
  <2> HIDE DEF rows
  <2>3. /\ [mem[w] EXCEPT !.todo = rows].request = Req(w)
        /\ [mem[w] EXCEPT !.todo = rows].link = None
        /\ [mem[w] EXCEPT !.todo = rows].todo = rows
    BY <1>2 DEF Memory, Req
  <2> QED BY <1>3, <2>1, <2>3, <2>2
<1> QED BY <1>4, <1>5

-----------------------------------------------------------------------------
(* Whom a transaction places keeps a seat of their own: its own steps. *)

(* What a write leaves of the transaction's memory. *)
LEMMA PutMemory ==
  ASSUME TypeOK, NEW w \in Writer, NEW r \in ReservationId, NEW row, Put(w, r, row)
  PROVE  /\ UNCHANGED <<departure, reservation, holder>>
         /\ Req(w)' = Req(w) /\ mem'[w].todo = mem[w].todo \ {r} /\ mem'[w].link = mem[w].link
         /\ mem'[w].read = mem[w].read /\ mem'[w].partner = mem[w].partner
         /\ mem'[w].made = mem[w].made
         /\ pc'[w] = IF mem[w].todo \subseteq {r} THEN "commit" ELSE "write"
<1>1. /\ UNCHANGED <<departure, reservation, holder>>
      /\ mem'[w] = [mem[w] EXCEPT !.todo = @ \ {r}] /\ mem[w] \in Memory
      /\ pc'[w] = IF mem[w].todo \subseteq {r} THEN "commit" ELSE "write"
  BY DEF Put, TypeOK, Memory, schedule
<1>2. /\ mem'[w].todo = mem[w].todo \ {r} /\ mem'[w].link = mem[w].link
      /\ mem'[w].made = mem[w].made /\ mem'[w].read = mem[w].read
      /\ mem'[w].request = mem[w].request /\ mem'[w].partner = mem[w].partner
  BY <1>1 DEF Memory
<1> QED BY <1>1, <1>2 DEF Req

(* Plans that take the same room of the buses w holds leave everyone placed in
   their own seat. *)
LEMMA SameSeats ==
  ASSUME TypeOK, NEW w \in Writer, LocalInv(w), SeatsPlanned(w), departure' = departure,
         \A r \in ReservationId : r \in Placed(w)' => r \in Placed(w),
         \A r \in ReservationId, d \in DepartureId :
           /\ holder[d] = w
           /\ \/ Planned(w, r) # None /\ Planned(w, r).departure = d
              \/ Planned(w, r)' # None /\ Planned(w, r)'.departure = d
           => SameRoom(Planned(w, r)', Planned(w, r)),
         \A d \in DepartureId : holder[d] = w => holder'[d] = w
  PROVE  SeatsPlanned(w)'
<1> SUFFICES ASSUME NEW r \in Placed(w)'
             PROVE  InOwnSeat(w, r)'
  BY DEF SeatsPlanned
<1>1. r \in ReservationId /\ InOwnSeat(w, r)
  BY DEF SeatsPlanned, Placed
<1>2. PICK row, d : row = Planned(w, r) /\ d = row.departure
  OBVIOUS
<1>3. PICK new : new = Planned(w, r)'
  OBVIOUS
<1>4. /\ IsActive(row) /\ d # None /\ holder[d] = w /\ departure[d] # None
      /\ ValidSegment(departure[d], row) /\ row.seat <= departure[d].capacity
      /\ \A s \in ReservationId \ {r} :
           IsActive(Planned(w, s)) /\ Planned(w, s).departure = d /\ Planned(w, s).seat = row.seat
             => OnRoute(departure[d], Planned(w, s)) /\ ~Overlap(departure[d], Planned(w, s), row)
  BY <1>1, <1>2 DEF InOwnSeat
<1>5. d \in DepartureId
  BY <1>1, <1>2, <1>4, PlannedType DEF LocalInv, IsActive, ReservationRow
<1>6. SameRoom(new, row)
  BY <1>1, <1>2, <1>3, <1>4, <1>5 DEF IsActive
<1>7. /\ IsActive(new) /\ new.departure = d /\ holder'[d] = w /\ departure'[d] # None
      /\ ValidSegment(departure'[d], new) /\ new.seat <= departure'[d].capacity
  BY <1>2, <1>4, <1>5, <1>6 DEF SameRoom, IsActive, ValidSegment, OnRoute, Forward, SegmentOf
<1>8. ASSUME NEW s \in ReservationId \ {r}, IsActive(Planned(w, s)'),
             Planned(w, s)'.departure = d, Planned(w, s)'.seat = new.seat
      PROVE  OnRoute(departure'[d], Planned(w, s)') /\ ~Overlap(departure'[d], Planned(w, s)', new)
  <2>1. SameRoom(Planned(w, s)', Planned(w, s))
    BY <1>4, <1>5, <1>8 DEF IsActive
  <2>2. /\ IsActive(Planned(w, s)) /\ Planned(w, s).departure = d
        /\ Planned(w, s).seat = row.seat
    BY <1>6, <1>8, <2>1 DEF SameRoom, IsActive
  <2> QED BY <1>4, <1>6, <2>1, <2>2 DEF SameRoom, OnRoute, Overlap, SegmentOf
<1> QED BY <1>3, <1>4, <1>7, <1>8 DEF InOwnSeat, IsActive, ValidSegment, OnRoute, Forward, SegmentOf, Overlap

(* A decision places its rows, each in a seat of its own. *)
LEMMA PlacedSeats ==
  ASSUME NEW w \in Writer, NEW d \in DepartureId, NEW T, Places(w, d, T),
         \A r \in ReservationId : r \in Placed(w)' => r \in T,
         UNCHANGED <<departure, holder>>
  PROVE  SeatsPlanned(w)'
<1> SUFFICES ASSUME NEW r \in Placed(w)'
             PROVE  InOwnSeat(w, r)'
  BY DEF SeatsPlanned
<1>1. r \in ReservationId /\ r \in T
  BY DEF Placed
<1>2. PICK row : row = Planned(w, r)'
  OBVIOUS
<1>3. /\ IsActive(row) /\ row.departure = d /\ d # None /\ holder[d] = w /\ departure[d] # None
      /\ ValidSegment(departure[d], row) /\ SeatFree(w, d, row, row.seat, T)
  BY <1>1, <1>2, NoneAssumption DEF Places
<1>4. ASSUME NEW s \in ReservationId \ {r}, IsActive(Planned(w, s)'),
             Planned(w, s)'.departure = d, Planned(w, s)'.seat = row.seat
      PROVE  OnRoute(departure[d], Planned(w, s)') /\ ~Overlap(departure[d], Planned(w, s)', row)
  <2>1. s \notin T
    BY <1>1, <1>2, <1>4 DEF Places
  <2>2. Planned(w, s)' = View(w, s)
    BY <2>1 DEF Places
  <2> QED BY <1>3, <1>4, <2>1, <2>2 DEF SeatFree, Others
<1>5. row.seat <= departure[d].capacity
  BY <1>3 DEF SeatFree
<1> QED
  BY <1>2, <1>3, <1>4, <1>5
  DEF InOwnSeat, IsActive, ValidSegment, OnRoute, Forward, SegmentOf, Overlap

(* An item that has passed its checks is the same item, on the same bus. *)
LEMMA SameItem ==
  ASSUME NEW w \in Writer, departure' = departure, Req(w)' = Req(w),
         mem'[w].made = mem[w].made, Bookable(CurrentItem(w), NamedDeparture(CurrentItem(w)))
  PROVE  Bookable(CurrentItem(w), NamedDeparture(CurrentItem(w)))'
<1>1. PICK item, d : item = CurrentItem(w) /\ d = NamedDeparture(CurrentItem(w))
  OBVIOUS
<1>2. CurrentItem(w)' = item
  BY <1>1 DEF CurrentItem
<1>3. (NamedDeparture(CurrentItem(w)))' = d
  BY <1>1, NamesKept
<1>4. Bookable(item, d)
  BY <1>1
<1>5. Bookable(item, d)'
  BY <1>4 DEF Bookable, Runs, ValidSegment, OnRoute, Forward, SegmentOf
<1> QED
  BY <1>2, <1>3, <1>5 DEF Bookable, Runs, ValidSegment, OnRoute, Forward, SegmentOf

LEMMA OwnItem ==
  ASSUME Inv, NEW w \in Writer, ItemChecked(w), WriterStep(w)
  PROVE  ItemChecked(w)'
<1> TypeOK /\ LocalInv(w)
  BY DEF Inv
<1>1. CASE Quiet(w)'
  BY <1>1, QuietHolds
<1>2. ASSUME Req(w)'.op # "create"
      PROVE  ItemChecked(w)'
  BY <1>2 DEF ItemChecked, At
<1>3. CASE CheckItem(w)
  <2>1. CASE ItemDecided(w)
    BY <2>1, SameItem DEF ItemDecided, ItemChecked
  <2> QED BY <1>1, <1>3, <2>1, CheckItemFacts
<1>4. CASE CheckUpdate(w) \/ CheckMove(w) \/ CheckCancel(w) \/ CheckMany(w)
  <2>1. Quiet(w)' \/ Req(w)'.op # "create"
    BY <1>4, CheckUpdateFacts, CheckMoveFacts, CheckOtherFacts
    DEF UpdateDecided, MoveDecided, ManyDecided
  <2> QED BY <1>1, <1>2, <2>1
<1>5. CASE Stamp(w)
  <2>1. pc[w] = "stamp" /\ mem' = mem /\ departure' = departure
    BY <1>5, StampFacts
  <2>2. Req(w)' = Req(w)
    BY <2>1 DEF Req
  <2>3. CASE Req(w).op = "create"
    <3>1. At(w, "stamp", "create")
      BY <2>1, <2>3, RequestKinds DEF LocalInv, Shape, At
    <3>2. Bookable(CurrentItem(w), NamedDeparture(CurrentItem(w)))'
      BY <2>1, <2>2, <3>1, SameItem DEF ItemChecked
    <3> QED BY <3>2 DEF ItemChecked
  <2> QED BY <1>2, <2>2, <2>3
<1>6. CASE InsertItem(w)
  BY <1>6, InsertFacts DEF InsertsRow, ItemChecked, At
<1>7. CASE WriteUpdate(w) \/ WriteSeat(w) \/ WriteCancel(w) \/ WriteMany(w)
  <2>1. CASE Rollback(w, "refused")
    BY <1>1, <2>1, EndQuiet DEF Rollback
  <2>2. ASSUME NEW r \in ReservationId, NEW row, NEW old, PutsRow(w, r, row, old)
        PROVE  ItemChecked(w)'
    <3>1. Req(w)' = Req(w)
      BY <2>2, PutMemory DEF PutsRow
    <3>2. Req(w).op # "create"
      BY <2>2 DEF PutsRow, Writes
    <3> QED BY <1>2, <3>1, <3>2
  <2> QED BY <1>7, <2>1, <2>2, WriteFacts
<1>8. CASE SlotFound(w)
  <2>1. mem'[w].made = mem[w].made /\ departure' = departure /\ Req(w)' = Req(w)
    BY <1>8 DEF SlotFound
  <2>2. CASE Req(w).op = "create"
    <3>1. At(w, "slot", "create")
      BY <1>8, <2>2, RequestKinds DEF SlotFound, LocalInv, Shape, At
    <3>2. Bookable(CurrentItem(w), NamedDeparture(CurrentItem(w)))'
      BY <2>1, <3>1, SameItem DEF ItemChecked
    <3> QED BY <3>2 DEF ItemChecked
  <2> QED BY <1>2, <2>1, <2>2
<1> QED BY <1>1, <1>3, <1>4, <1>5, <1>6, <1>7, <1>8, OwnCases

(* A row stamped with a marker takes the room it took. *)
LEMMA StampSeats ==
  ASSUME Inv, NEW w \in Writer, SeatsPlanned(w), Stamp(w)
  PROVE  SeatsPlanned(w)'
<1> TypeOK /\ LocalInv(w)
  BY DEF Inv
<1>1. PICK o \in ReservationId, row \in ReservationRow, old \in ReservationRow :
        /\ mem[w].link # None /\ mem[w].link.of = o
        /\ old = View(w, o) /\ SameBut(row, old, {"marker"})
        /\ OneRow(w, o, row)
        /\ UNCHANGED <<departure, reservation, holder, mem>>
        /\ pc[w] = "stamp" /\ pc'[w] = "write"
  BY StampFacts
<1>2. /\ written'[w][o] = row /\ View(w, o)' = row
      /\ \A s \in ReservationId \ {o} : written'[w][s] = written[w][s] /\ View(w, s)' = View(w, s)
  BY <1>1, OneRowViews
<1>3. Req(w)' = Req(w) /\ mem[w] \in Memory /\ SameRoom(row, old)
  BY <1>1, SameButFields, NoneAssumption DEF Req, TypeOK, SameRoom
<1>4. ASSUME NEW r \in ReservationId
      PROVE  SameRoom(Planned(w, r)', Planned(w, r))
  <2>1. CASE r # o
    <3>1. Planned(w, r)' = Planned(w, r)
      BY <1>1, <1>2, <2>1 DEF Planned
    <3> QED BY <3>1, SameRoomRelation
  <2>2. CASE r = o
    <3>1. r \in mem[w].todo => Req(w) \in Request /\ (Req(w).op = "move" => mem[w].read # None)
      BY <1>1 DEF LocalInv, Shape, TodoExists
    <3>2. SameRoom(PlannedRow(mem[w], r, row), PlannedRow(mem[w], r, old))
      BY <1>3, <3>1, PlannedRowRoom DEF Req
    <3> QED BY <1>1, <1>2, <2>2, <3>2 DEF Planned
  <2> QED BY <2>1, <2>2
<1>5. ASSUME NEW r \in ReservationId, r \in Placed(w)'
      PROVE  r \in Placed(w)
  <2>1. CASE r # o
    BY <1>1, <1>2, <1>3, <1>5, <2>1 DEF Placed
  <2>2. CASE r = o /\ Req(w).op = "create"
    <3>1. reservation[r] = None
      BY <1>1, <1>3, <1>5, <2>2 DEF Placed, LocalInv, Shape
    <3>2. written[w][r] # None
      BY <1>1, <2>2, <3>1, NoneAssumption DEF View
    <3> QED BY <2>2, <3>1, <3>2 DEF Placed
  <2>3. CASE r = o /\ Req(w).op # "create"
    <3>1. Req(w).op = "update" /\ mem[w].todo = {Req(w).id}
      BY <1>1, <2>3 DEF LocalInv, Shape
    <3> QED BY <1>1, <1>3, <1>5, <3>1 DEF Placed
  <2> QED BY <2>1, <2>2, <2>3
<1> QED BY <1>1, <1>4, <1>5, SameSeats

(* A booked row takes a free seat, and leaves the others theirs. *)
LEMMA InsertSeats ==
  ASSUME Inv, NEW w \in Writer, ItemChecked(w), SeatsPlanned(w), InsertItem(w)
  PROVE  SeatsPlanned(w)'
<1> TypeOK /\ LocalInv(w)
  BY DEF Inv
<1> DEFINE item == CurrentItem(w)
<1>1. PICK id \in ReservationId, d \in DepartureId, row \in ReservationRow : InsertsRow(w, id, d, row)
  BY InsertFacts
<1>2. /\ Bookable(item, d) /\ departure[d] # None /\ holder[d] = w
      /\ mem[w].todo = {} /\ mem'[w].todo = {} /\ Req(w).op = "create" /\ Req(w)' = Req(w)
      /\ SeatFree(w, d, item, item.seat, {}) /\ OneRow(w, id, row)
      /\ UNCHANGED <<departure, reservation, holder>>
  BY <1>1 DEF InsertsRow, ItemChecked, SeatAvailable, At
<1>3. /\ row.departure = d /\ row.seat = item.seat /\ row.status = "ACTIVE"
      /\ row.from = item.from /\ row.to = item.to
  BY <1>1 DEF InsertsRow, NewRow
<1>4. ValidSegment(departure[d], row)
  BY <1>2, <1>3 DEF Bookable, ValidSegment, OnRoute, Forward, SegmentOf
<1>5. SeatFree(w, d, row, row.seat, {}) /\ row.seat <= departure[d].capacity
  BY <1>2, <1>3 DEF SeatFree, Overlap, SegmentOf
<1> HIDE DEF item
<1>6. /\ Planned(w, id)' = row
      /\ \A s \in ReservationId \ {id} :
           Planned(w, s)' = View(w, s) /\ Planned(w, s) = View(w, s) /\ written'[w][s] = written[w][s]
  BY <1>2, OneRowViews DEF Planned, PlannedRow
<1> SUFFICES ASSUME NEW r \in Placed(w)'
             PROVE  InOwnSeat(w, r)'
  BY DEF SeatsPlanned
<1>7. r \in ReservationId /\ IsActive(row) /\ d # None
  BY <1>3, NoneAssumption DEF Placed, IsActive
<1>8. CASE r = id
  <2>1. ASSUME NEW s \in ReservationId \ {id}, IsActive(View(w, s)),
               View(w, s).departure = d, View(w, s).seat = row.seat
        PROVE  OnRoute(departure[d], View(w, s)) /\ ~Overlap(departure[d], View(w, s), row)
    BY <1>5, <2>1 DEF SeatFree, Others
  <2> QED
    BY <1>2, <1>3, <1>4, <1>5, <1>6, <1>7, <1>8, <2>1
    DEF InOwnSeat, IsActive, ValidSegment, OnRoute, Forward, SegmentOf, Overlap
<1>9. CASE r # id
  <2>1. PICK mine : mine = View(w, r)
    OBVIOUS
  <2>2. r \in Placed(w)
    BY <1>2, <1>6, <1>7, <1>9 DEF Placed
  <2>3. PICK bus : bus = mine.departure
    OBVIOUS
  <2>4. /\ IsActive(mine) /\ bus # None /\ holder[bus] = w /\ departure[bus] # None
        /\ ValidSegment(departure[bus], mine) /\ mine.seat <= departure[bus].capacity
        /\ \A s \in ReservationId \ {r} :
             IsActive(Planned(w, s)) /\ Planned(w, s).departure = bus /\ Planned(w, s).seat = mine.seat
               => OnRoute(departure[bus], Planned(w, s)) /\ ~Overlap(departure[bus], Planned(w, s), mine)
    BY <1>6, <1>7, <1>9, <2>1, <2>2, <2>3 DEF SeatsPlanned, InOwnSeat
  <2>5. ASSUME NEW s \in ReservationId \ {r}, IsActive(Planned(w, s)'),
               Planned(w, s)'.departure = bus, Planned(w, s)'.seat = mine.seat
        PROVE  OnRoute(departure[bus], Planned(w, s)') /\ ~Overlap(departure[bus], Planned(w, s)', mine)
    <3>1. CASE s # id
      BY <1>6, <2>4, <2>5, <3>1
    <3>2. CASE s = id
      <4>1. Planned(w, s)' = row /\ bus = d /\ mine.seat = row.seat
        BY <1>3, <1>6, <2>5, <3>2
      <4>2. ~Clash(row, mine)
        BY <1>2, <1>3, <1>5, <1>7, <2>1, FreeNoClash
      <4>3. OnRoute(departure[d], row) /\ OnRoute(departure[d], mine)
        BY <1>4, <2>4, <4>1 DEF ValidSegment
      <4> QED BY <1>3, <1>7, <2>3, <2>4, <4>1, <4>2, <4>3 DEF Clash
    <3> QED BY <3>1, <3>2
  <2>6. Planned(w, r)' = mine
    BY <1>6, <1>7, <1>9, <2>1
  <2> QED
    BY <1>2, <2>3, <2>4, <2>5, <2>6
    DEF InOwnSeat, IsActive, ValidSegment, OnRoute, Forward, SegmentOf, Overlap
<1> QED BY <1>8, <1>9

(* An updated or moved row takes the room that was planned. *)
LEMMA PutSeats ==
  ASSUME Inv, NEW w \in Writer, SeatsPlanned(w),
         NEW r \in ReservationId, NEW row \in ReservationRow, NEW old \in ReservationRow,
         PutsRow(w, r, row, old)
  PROVE  SeatsPlanned(w)'
<1> TypeOK /\ LocalInv(w)
  BY DEF Inv
<1>1. /\ pc[w] = "write" /\ r \in mem[w].todo /\ old = View(w, r) /\ Put(w, r, row)
      /\ Writes(w, r, row, old) /\ row.departure = old.departure
  BY WritesKeep DEF PutsRow
<1>2. /\ UNCHANGED <<departure, reservation, holder>> /\ Planned(w, r)' = row
      /\ \A s \in ReservationId \ {r} : Planned(w, s)' = Planned(w, s)
  BY <1>1, PutKeeps
<1>3. /\ Req(w)' = Req(w) /\ mem'[w].todo = mem[w].todo \ {r}
      /\ \A s \in ReservationId \ {r} : written'[w][s] = written[w][s]
  <2>1. Req(w)' = Req(w) /\ mem'[w].todo = mem[w].todo \ {r}
    BY <1>1, PutMemory
  <2>2. written'[w] = [written[w] EXCEPT ![r] = row]
    BY <1>1, PutOwn
  <2> QED BY <2>1, <2>2 DEF TypeOK
<1>4. CASE Req(w).op \in {"update", "move"}
  <2>1. SameRoom(row, Planned(w, r))
    <3>1. CASE Req(w).op = "update"
      <4>1. row = Planned(w, r)
        BY <1>1, <3>1 DEF Writes, Planned, PlannedRow, Req
      <4> QED BY <4>1, SameRoomRelation
    <3>2. CASE Req(w).op = "move"
      <4>1. PICK n : n = IF r = Req(w).id THEN Req(w).seat ELSE mem[w].read.seat
        OBVIOUS
      <4>2. PICK plan : plan = [old EXCEPT !.seat = n]
        OBVIOUS
      <4>3. Planned(w, r) = plan
        BY <1>1, <3>2, <4>1, <4>2 DEF Planned, PlannedRow, Req
      <4>4. SameBut(row, old, {"seat"}) /\ row.seat = n
        BY <1>1, <3>2, <4>1 DEF Writes
      <4>5. /\ plan.departure = old.departure /\ plan.seat = n /\ plan.from = old.from
            /\ plan.to = old.to /\ plan.status = old.status
        BY <4>2 DEF ReservationRow
      <4>6. plan # None
        BY <4>3, PlannedType, <1>1, NoneAssumption DEF LocalInv
      <4> QED BY <4>3, <4>4, <4>5, <4>6, SameButFields, NoneAssumption DEF SameRoom
    <3> QED BY <1>4, <3>1, <3>2
  <2>2. ASSUME NEW s \in ReservationId
        PROVE  SameRoom(Planned(w, s)', Planned(w, s))
    <3>1. CASE s = r
      BY <1>2, <2>1, <3>1
    <3>2. CASE s # r
      BY <1>2, <3>2, SameRoomRelation
    <3> QED BY <3>1, <3>2
  <2>3. ASSUME NEW s \in ReservationId, s \in Placed(w)'
        PROVE  s \in Placed(w)
    BY <1>1, <1>2, <1>3, <1>4, <2>3 DEF Placed
  <2> QED BY <1>2, <2>2, <2>3, SameSeats
<1>5. CASE Req(w).op \notin {"update", "move"}
  <2>1. Placed(w)' = {}
    BY <1>1, <1>3, <1>5 DEF Placed, Writes
  <2> QED BY <2>1 DEF SeatsPlanned
<1> QED BY <1>4, <1>5

LEMMA OwnSeats ==
  ASSUME Inv, NEW w \in Writer, ItemChecked(w), SeatsPlanned(w), WriterStep(w)
  PROVE  SeatsPlanned(w)'
<1> TypeOK /\ LocalInv(w)
  BY DEF Inv
<1>1. CASE Quiet(w)'
  BY <1>1, QuietHolds
<1>2. CASE CheckItem(w)
  <2>1. CASE ItemDecided(w)
    <3>1. /\ UNCHANGED <<departure, reservation, holder, written>> /\ Req(w)' = Req(w)
          /\ mem[w].todo = {} /\ mem'[w].todo = {}
      BY <2>1 DEF ItemDecided
    <3>2. \A r \in ReservationId : r \in Placed(w)' => r \in Placed(w)
      BY <3>1 DEF Placed
    <3>3. \A r \in ReservationId : Planned(w, r)' = Planned(w, r)
      BY <3>1 DEF Planned, PlannedRow, View
    <3> QED BY <3>1, <3>2, <3>3, SameSeats, SameRoomRelation
  <2> QED BY <1>1, <1>2, <2>1, CheckItemFacts
<1>3. CASE CheckUpdate(w)
  <2>1. ASSUME NEW id \in ReservationId, UpdateDecided(w, id)
        PROVE  SeatsPlanned(w)'
    <3>1. /\ UNCHANGED <<departure, holder, written>> /\ written[w] = NothingWritten
          /\ mem'[w].todo = {id}
      BY <2>1 DEF UpdateDecided
    <3>2. PICK d \in DepartureId : Places(w, d, {id})
      BY <2>1 DEF UpdateDecided
    <3>3. \A r \in ReservationId : r \in Placed(w)' => r \in {id}
      BY <3>1 DEF Placed, NothingWritten
    <3> QED BY <3>1, <3>2, <3>3, PlacedSeats
  <2> QED BY <1>1, <1>3, <2>1, CheckUpdateFacts
<1>4. CASE CheckMove(w)
  <2>1. ASSUME NEW id \in ReservationId, MoveDecided(w, id)
        PROVE  SeatsPlanned(w)'
    <3>1. UNCHANGED <<departure, holder, written>> /\ written[w] = NothingWritten
      BY <2>1 DEF MoveDecided
    <3>2. \A r \in ReservationId : r \in Placed(w)' => r \in mem'[w].todo
      BY <3>1 DEF Placed, NothingWritten
    <3>3. CASE mem'[w].todo = {}
      BY <3>2, <3>3 DEF SeatsPlanned, Placed
    <3>4. ASSUME NEW d \in DepartureId, Places(w, d, mem'[w].todo)
          PROVE  SeatsPlanned(w)'
      BY <3>1, <3>2, <3>4, PlacedSeats
    <3> QED BY <2>1, <3>3, <3>4 DEF MoveDecided
  <2> QED BY <1>1, <1>4, <2>1, CheckMoveFacts
<1>5. CASE CheckCancel(w) \/ CheckMany(w)
  <2>1. CASE ManyDecided(w)
    <3>1. Placed(w)' = {}
      BY <2>1 DEF ManyDecided, Placed, NothingWritten
    <3> QED BY <3>1 DEF SeatsPlanned
  <2> QED BY <1>1, <1>5, <2>1, CheckOtherFacts
<1>6. CASE Stamp(w) \/ InsertItem(w)
  BY <1>6, StampSeats, InsertSeats
<1>7. CASE WriteUpdate(w) \/ WriteSeat(w) \/ WriteCancel(w) \/ WriteMany(w)
  <2>1. CASE Rollback(w, "refused")
    BY <1>1, <2>1, EndQuiet DEF Rollback
  <2>2. ASSUME NEW r \in ReservationId, NEW row \in ReservationRow, NEW old \in ReservationRow,
               PutsRow(w, r, row, old)
        PROVE  SeatsPlanned(w)'
    BY <2>2, PutSeats
  <2> QED BY <1>7, <2>1, <2>2, WriteFacts
<1>8. CASE SlotFound(w)
  <2>1. \A r \in ReservationId : r \in Placed(w)' => r \in Placed(w)
    BY <1>8 DEF SlotFound, Placed
  <2>2. \A r \in ReservationId : Planned(w, r)' = Planned(w, r)
    BY <1>8 DEF SlotFound, Planned, View
  <2> QED BY <1>8, <2>1, <2>2, SameSeats, SameRoomRelation DEF SlotFound
<1> QED BY <1>1, <1>2, <1>3, <1>4, <1>5, <1>6, <1>7, <1>8, OwnCases

-----------------------------------------------------------------------------
(* A journey back is linked to one that is not later: the transaction's own
   steps. *)

(* A new version of a row keeps its time, and its link unless the new link is
   to a journey that is not later. *)
LEMMA RowsTimed ==
  ASSUME TypeOK, NEW w \in Writer, LinkTimed(w), reservation' = reservation,
         NEW r \in ReservationId, NEW row \in ReservationRow, NEW old \in ReservationRow,
         OneRow(w, r, row), old = View(w, r), row.time = old.time,
         \/ row.returnOf \in {old.returnOf, None}
         \/ View(w, row.returnOf) # None /\ row.time >= View(w, row.returnOf).time
  PROVE  /\ \A s \in ReservationId : RowTimed(w, s)'
         /\ \A s \in ReservationId : View(w, s)'.time = View(w, s).time
<1>1. /\ written'[w][r] = row /\ View(w, r)' = row /\ row # None /\ old # None
      /\ \A s \in ReservationId \ {r} : written'[w][s] = written[w][s] /\ View(w, s)' = View(w, s)
  BY OneRowViews, NoneAssumption
<1>2. ASSUME NEW s \in ReservationId
      PROVE  View(w, s)'.time = View(w, s).time /\ (View(w, s) # None => View(w, s)' # None)
  BY <1>1
<1>3. ASSUME NEW s \in ReservationId
      PROVE  RowTimed(w, s)'
  <2>1. PICK new : new = written'[w][s]
    OBVIOUS
  <2>2. CASE new = None
    BY <2>1, <2>2 DEF RowTimed
  <2>3. CASE s # r /\ new # None
    <3>1. new = written[w][s] /\ RowTimed(w, s) /\ new \in ReservationRow
      BY <1>1, <2>1, <2>3 DEF LinkTimed, TypeOK
    <3>2. new.returnOf # None => new.returnOf \in ReservationId
      BY <3>1 DEF ReservationRow
    <3> QED BY <1>2, <2>1, <2>3, <3>1, <3>2 DEF RowTimed
  <2>4. CASE s = r
    <3>1. new = row /\ RowTimed(w, r) /\ (row.returnOf # None => row.returnOf \in ReservationId)
      BY <1>1, <2>1, <2>4 DEF LinkTimed, ReservationRow
    <3>2. \/ written[w][r] = old
          \/ written[w][r] = None /\ reservation[r] = old
      BY DEF View
    <3> QED BY <1>1, <1>2, <2>1, <2>4, <3>1, <3>2 DEF RowTimed
  <2> QED BY <2>2, <2>3, <2>4
<1> QED BY <1>2, <1>3

(* A stamped outbound leg. *)
LEMMA StampLink ==
  ASSUME Inv, NEW w \in Writer, LinkTimed(w), Stamp(w)
  PROVE  LinkTimed(w)'
<1> TypeOK /\ LocalInv(w)
  BY DEF Inv
<1>1. PICK o \in ReservationId, row \in ReservationRow, old \in ReservationRow :
        /\ mem[w].link # None /\ mem[w].link.of = o
        /\ old = View(w, o) /\ SameBut(row, old, {"marker"})
        /\ OneRow(w, o, row)
        /\ UNCHANGED <<departure, reservation, holder, mem>>
        /\ pc[w] = "stamp" /\ pc'[w] = "write"
  BY StampFacts
<1>2. row.time = old.time /\ row.returnOf = old.returnOf
  BY <1>1, SameButFields
<1>3. /\ \A s \in ReservationId : RowTimed(w, s)'
      /\ \A s \in ReservationId : View(w, s)'.time = View(w, s).time
  BY <1>1, <1>2, RowsTimed
<1>4. Req(w)' = Req(w) /\ CurrentItem(w)' = CurrentItem(w)
  BY <1>1 DEF Req, CurrentItem
<1>5. Req(w).op # "create" => Req(w).id \in ReservationId
  BY <1>1, RequestKinds DEF LocalInv, Shape, UpdateRequest
<1>6. LegTime(w)' = LegTime(w)
  BY <1>3, <1>4, <1>5 DEF LegTime
<1>7. View(w, mem[w].link.of)' = View(w, o)' /\ View(w, o)'.time = View(w, o).time
  BY <1>1, <1>3 DEF View
<1> QED BY <1>1, <1>3, <1>4, <1>6, <1>7 DEF LinkTimed

(* A booked return leg leaves at the time its item was checked with. *)
LEMMA InsertLink ==
  ASSUME Inv, NEW w \in Writer, ItemChecked(w), LinkTimed(w), InsertItem(w)
  PROVE  LinkTimed(w)'
<1> TypeOK /\ LocalInv(w)
  BY DEF Inv
<1>1. PICK id \in ReservationId, d \in DepartureId, row \in ReservationRow : InsertsRow(w, id, d, row)
  BY InsertFacts
<1>2. /\ At(w, "write", "create") /\ Unused(id) /\ OneRow(w, id, row)
      /\ UNCHANGED <<departure, reservation, holder>> /\ pc'[w] \in {"check", "commit"}
      /\ row = NewRow(w, CurrentItem(w), d, mem[w].link) /\ Bookable(CurrentItem(w), d)
  BY <1>1 DEF InsertsRow, ItemChecked
<1>3. /\ row.time = CurrentItem(w).time
      /\ row.returnOf = IF mem[w].link # None THEN mem[w].link.of ELSE None
  BY <1>2 DEF NewRow, Bookable
<1>4. mem[w].link # None =>
        /\ mem[w].link.of \in ReservationId /\ View(w, mem[w].link.of) # None
        /\ CurrentItem(w).time >= View(w, mem[w].link.of).time
  BY <1>2 DEF At, LinkTimed, LegTime, LocalInv, LinkExists, TypeOK, Memory, Link
<1>5. /\ written'[w][id] = row /\ View(w, id)' = row /\ View(w, id) = None /\ reservation[id] = None
      /\ \A s \in ReservationId \ {id} : written'[w][s] = written[w][s] /\ View(w, s)' = View(w, s)
  BY <1>2, OneRowViews DEF Unused, View
<1>6. ASSUME NEW s \in ReservationId
      PROVE  RowTimed(w, s)'
  <2>1. PICK new : new = written'[w][s]
    OBVIOUS
  <2>2. CASE new = None
    BY <2>1, <2>2 DEF RowTimed
  <2>3. CASE s # id /\ new # None
    <3>1. new = written[w][s] /\ RowTimed(w, s) /\ new \in ReservationRow
      BY <1>5, <2>1, <2>3 DEF LinkTimed, TypeOK
    <3>2. new.returnOf # None => new.returnOf \in ReservationId
      BY <3>1 DEF ReservationRow
    <3> QED BY <1>2, <1>5, <2>1, <2>3, <3>1, <3>2 DEF RowTimed
  <2>4. CASE s = id
    <3>1. row.returnOf # None =>
            View(w, row.returnOf)' # None /\ row.time >= View(w, row.returnOf)'.time
      BY <1>3, <1>4, <1>5
    <3> QED BY <1>2, <1>5, <2>1, <2>4, <3>1 DEF RowTimed
  <2> QED BY <2>2, <2>3, <2>4
<1> QED BY <1>2, <1>6 DEF LinkTimed

(* A changed row keeps its link, loses it or has the one that was checked. *)
LEMMA PutLink ==
  ASSUME Inv, NEW w \in Writer, LinkTimed(w),
         NEW r \in ReservationId, NEW row \in ReservationRow, NEW old \in ReservationRow,
         PutsRow(w, r, row, old)
  PROVE  LinkTimed(w)'
<1> TypeOK /\ LocalInv(w)
  BY DEF Inv
<1>1. /\ pc[w] = "write" /\ r \in mem[w].todo /\ old = View(w, r) /\ Put(w, r, row)
      /\ RowFree(w, r) /\ Writes(w, r, row, old) /\ row.time = old.time
  BY WritesKeep DEF PutsRow
<1>2. /\ UNCHANGED <<departure, reservation, holder>> /\ Req(w)' = Req(w)
      /\ mem'[w].link = mem[w].link /\ OneRow(w, r, row)
  BY <1>1, PutMemory, PutOwn DEF OneRow
<1>3. \/ row.returnOf \in {old.returnOf, None}
      \/ View(w, row.returnOf) # None /\ row.time >= View(w, row.returnOf).time
  <2>1. CASE Req(w).op = "update"
    <3>1. row = UpdatedRow(Req(w), old, mem[w].link) /\ r = Req(w).id
      BY <1>1, <2>1 DEF Writes
    <3>2. CASE mem[w].link = None
      BY <3>1, <3>2 DEF UpdatedRow
    <3>3. CASE mem[w].link # None
      <4>1. row.returnOf = mem[w].link.of /\ row.time = LegTime(w)
        BY <1>1, <2>1, <3>1, <3>3 DEF UpdatedRow, LegTime
      <4> QED BY <1>1, <3>3, <4>1 DEF LinkTimed, LocalInv, LinkExists
    <3> QED BY <3>2, <3>3
  <2>2. CASE Req(w).op # "update"
    BY <1>1, <2>2, SameButFields DEF Writes
  <2> QED BY <2>1, <2>2
<1>4. /\ \A s \in ReservationId : RowTimed(w, s)'
      /\ \A s \in ReservationId : View(w, s)'.time = View(w, s).time
  BY <1>1, <1>2, <1>3, RowsTimed
<1>5. Req(w).op # "create"
  BY <1>1 DEF LocalInv, Shape
<1>6. mem[w].link # None => mem[w].link.of \in ReservationId
  BY DEF TypeOK, Memory, Link
<1>7. CASE Req(w).op = "update"
  <2>1. LegTime(w)' = LegTime(w)
    BY <1>1, <1>2, <1>4, <1>5, <1>7 DEF LegTime, Writes
  <2> QED BY <1>1, <1>2, <1>4, <1>6, <2>1 DEF LinkTimed
<1>8. CASE Req(w).op # "update"
  <2>1. mem[w].link = None
    BY <1>1, <1>5, <1>8 DEF LinkTimed
  <2> QED BY <1>2, <1>4, <2>1 DEF LinkTimed
<1> QED BY <1>7, <1>8

LEMMA OwnLink ==
  ASSUME Inv, NEW w \in Writer, ItemChecked(w), LinkTimed(w), WriterStep(w)
  PROVE  LinkTimed(w)'
<1> TypeOK /\ LocalInv(w)
  BY DEF Inv
<1>1. CASE Quiet(w)'
  BY <1>1, QuietHolds
<1>2. ASSUME UNCHANGED <<reservation, written>>
      PROVE  /\ \A s \in ReservationId : RowTimed(w, s)'
             /\ \A s : View(w, s)' = View(w, s)
  BY <1>2 DEF LinkTimed, RowTimed, View
<1>3. CASE CheckItem(w)
  <2>1. CASE ItemDecided(w)
    <3>1. CurrentItem(w)' = CurrentItem(w)
      BY <2>1 DEF ItemDecided, CurrentItem
    <3>2. LegTime(w)' = CurrentItem(w).time /\ Req(w)'.op = "create"
      BY <2>1, <3>1 DEF ItemDecided, LegTime
    <3>3. ASSUME mem'[w].link # None
          PROVE  (LegTime(w) >= View(w, mem[w].link.of).time)'
      <4>1. PICK o : o = mem'[w].link.of
        OBVIOUS
      <4>2. CurrentItem(w).time >= View(w, o).time
        BY <2>1, <3>3, <4>1 DEF ItemDecided, LinkDecided
      <4>3. View(w, o)' = View(w, o)
        BY <2>1 DEF ItemDecided, UpdateDecided, View
      <4> QED BY <3>2, <4>1, <4>2, <4>3 DEF View
    <3> QED BY <1>2, <2>1, <3>2, <3>3 DEF ItemDecided, LinkTimed
  <2> QED BY <1>1, <1>3, <2>1, CheckItemFacts
<1>4. CASE CheckUpdate(w)
  <2>1. ASSUME NEW id \in ReservationId, UpdateDecided(w, id)
        PROVE  LinkTimed(w)'
    <3>1. LegTime(w)' = View(w, id).time /\ Req(w)'.op = "update"
      BY <1>2, <2>1 DEF UpdateDecided, LegTime
    <3>2. ASSUME mem'[w].link # None
          PROVE  (LegTime(w) >= View(w, mem[w].link.of).time)'
      <4>1. PICK o : o = mem'[w].link.of
        OBVIOUS
      <4>2. View(w, id).time >= View(w, o).time
        BY <2>1, <3>2, <4>1 DEF UpdateDecided, LinkDecided
      <4>3. View(w, o)' = View(w, o)
        BY <2>1 DEF ItemDecided, UpdateDecided, View
      <4> QED BY <3>1, <4>1, <4>2, <4>3 DEF View
    <3> QED BY <1>2, <2>1, <3>1, <3>2 DEF UpdateDecided, LinkTimed
  <2> QED BY <1>1, <1>4, <2>1, CheckUpdateFacts
<1>5. CASE CheckMove(w)
  <2>1. ASSUME NEW id \in ReservationId, MoveDecided(w, id)
        PROVE  LinkTimed(w)'
    BY <1>2, <2>1 DEF MoveDecided, LinkTimed
  <2> QED BY <1>1, <1>5, <2>1, CheckMoveFacts
<1>6. CASE CheckCancel(w) \/ CheckMany(w)
  <2>1. CASE ManyDecided(w)
    BY <1>2, <2>1 DEF ManyDecided, LinkTimed
  <2> QED BY <1>1, <1>6, <2>1, CheckOtherFacts
<1>7. CASE Stamp(w) \/ InsertItem(w)
  BY <1>7, StampLink, InsertLink
<1>8. CASE WriteUpdate(w) \/ WriteSeat(w) \/ WriteCancel(w) \/ WriteMany(w)
  <2>1. CASE Rollback(w, "refused")
    BY <1>1, <2>1, EndQuiet DEF Rollback
  <2>2. ASSUME NEW r \in ReservationId, NEW row \in ReservationRow, NEW old \in ReservationRow,
               PutsRow(w, r, row, old)
        PROVE  LinkTimed(w)'
    BY <2>2, PutLink
  <2> QED BY <1>8, <2>1, <2>2, WriteFacts
<1>9. CASE SlotFound(w)
  <2>1. LegTime(w)' = LegTime(w)
    BY <1>9 DEF SlotFound, LegTime, CurrentItem, View
  <2>2. View(w, mem[w].link.of)' = View(w, mem[w].link.of)
    BY <1>9 DEF SlotFound, View
  <2> QED BY <1>2, <1>9, <2>1, <2>2 DEF SlotFound, LinkTimed
<1> QED BY <1>1, <1>3, <1>4, <1>5, <1>6, <1>7, <1>8, <1>9, OwnCases

-----------------------------------------------------------------------------
(* What a transaction has written, compared with what is committed: its own
   steps. *)

(* The reservations of an assignment stay on their one bus. *)
LEMMA OwnGroup ==
  ASSUME Inv, NEW w \in Writer, GroupAgreed(w), WriterStep(w)
  PROVE  GroupAgreed(w)'
<1> TypeOK /\ LocalInv(w)
  BY DEF Inv
<1>1. ASSUME pc'[w] \notin {"lock", "check", "write", "commit"}
      PROVE  GroupAgreed(w)'
  BY <1>1 DEF GroupAgreed
<1>2. ASSUME Req(w)'.op # "group"
      PROVE  GroupAgreed(w)'
  BY <1>2 DEF GroupAgreed
<1>3. ASSUME reservation' = reservation, Req(w)' = Req(w),
             pc[w] \in {"lock", "check", "write", "commit"},
             mem'[w].todo \subseteq mem[w].todo
               \/ (Req(w).op = "group" => mem'[w].todo \subseteq Req(w).ids)
      PROVE  GroupAgreed(w)'
  BY <1>3 DEF GroupAgreed
<1>4. ASSUME NEW code, End(w, code)
      PROVE  GroupAgreed(w)'
  BY <1>1, <1>4, EndQuiet
<1>5. CASE Submit(w) \/ AcquireScheduleLockShared(w)
  <2>1. pc'[w] \in {"schedule", "name"}
    BY <1>5 DEF Submit, AcquireScheduleLockShared, Goto, TypeOK
  <2> QED BY <1>1, <2>1
<1>6. ASSUME NEW ds, NEW row
      PROVE  /\ [mem[w] EXCEPT !.want = ds].request = Req(w)
             /\ [mem[w] EXCEPT !.want = ds].todo = mem[w].todo
             /\ [mem[w] EXCEPT !.read = row, !.want = ds].request = Req(w)
  BY MemoryType DEF Memory, Req
<1>7. CASE NameCreate(w) \/ NameOne(w) \/ NameMerge(w)
  <2>1. Req(w).op # "group"
    BY <1>7 DEF NameCreate, NameOne, NameMerge, At
  <2>2. ASSUME NEW phase, NEW m, Goto(w, phase, m), m.request = Req(w)
        PROVE  GroupAgreed(w)'
    BY <1>2, <2>1, <2>2, GotoFacts
  <2> QED
    BY <1>4, <1>6, <1>7, <2>2 DEF NameCreate, NameOne, NameMerge, Rollback
<1>8. CASE NameGroup(w)
  <2>1. CASE Rollback(w, "refused")
    BY <1>4, <2>1 DEF Rollback
  <2>2. CASE /\ \E d \in DepartureId : \A r \in Req(w).ids :
                  IsActive(reservation[r]) /\ reservation[r].departure = d
             /\ Goto(w, "lock", [mem[w] EXCEPT !.want = {reservation[r].departure : r \in Req(w).ids}])
    <3>1. mem[w].todo = {}
      BY <1>8 DEF NameGroup, At, LocalInv, Shape
    <3>2. PICK m : Goto(w, "lock", m) /\ m.request = Req(w) /\ m.todo = {}
      BY <1>6, <2>2, <3>1
    <3>3. reservation' = reservation /\ Req(w)' = Req(w) /\ mem'[w].todo = {}
      BY <3>2, GotoFacts
    <3> QED BY <2>2, <3>3 DEF GroupAgreed, IsActive
  <2> QED BY <1>8, <2>1, <2>2 DEF NameGroup
<1>9. CASE LockDeparture(w) \/ DeparturesLocked(w)
  <2>1. /\ pc[w] = "lock" /\ reservation' = reservation
        /\ Req(w)' = Req(w) /\ mem'[w].todo = mem[w].todo
    BY <1>9 DEF LockDeparture, DeparturesLocked, Goto, TypeOK, Memory, Req
  <2> QED BY <1>3, <2>1
<1>10. CASE CheckItem(w) \/ CheckUpdate(w) \/ CheckMove(w)
  <2>1. ASSUME ItemDecided(w) \/ \E id : UpdateDecided(w, id) \/ MoveDecided(w, id)
        PROVE  GroupAgreed(w)'
    BY <1>2, <2>1 DEF ItemDecided, UpdateDecided, MoveDecided
  <2>2. CASE Quiet(w)'
    <3>1. \/ \E code : Rollback(w, code)
          \/ \E phase \in {"slot", "write", "commit"} : \E m : Goto(w, phase, m)
      BY <1>10 DEF CheckItem, CheckUpdate, CheckMove, AfterLink
    <3>2. CASE \E phase \in {"slot", "write", "commit"} : \E m : Goto(w, phase, m)
      BY <2>2, <3>2, GotoFacts DEF Quiet
    <3> QED BY <1>4, <3>1, <3>2 DEF Rollback
  <2> QED BY <1>10, <2>1, <2>2, CheckItemFacts, CheckUpdateFacts, CheckMoveFacts
<1>11. CASE CheckCancel(w) \/ CheckMany(w)
  <2>1. CASE ManyDecided(w)
    BY <1>3, <2>1 DEF ManyDecided
  <2>2. CASE Quiet(w)'
    <3>1. \/ \E code : Rollback(w, code)
          \/ \E phase \in {"write", "commit"} : \E m : Goto(w, phase, m)
      BY <1>11 DEF CheckCancel, CheckMany
    <3>2. CASE \E phase \in {"write", "commit"} : \E m : Goto(w, phase, m)
      BY <2>2, <3>2, GotoFacts DEF Quiet
    <3> QED BY <1>4, <3>1, <3>2 DEF Rollback
  <2> QED BY <1>11, <2>1, <2>2, CheckOtherFacts
<1>12. CASE Stamp(w)
  <2>1. Req(w)' = Req(w) /\ Req(w).op # "group"
    BY <1>12 DEF Stamp, Req, LocalInv, Shape
  <2> QED BY <1>2, <2>1
<1>13. CASE InsertItem(w)
  BY <1>2, <1>13, InsertFacts DEF InsertsRow, At
<1>14. CASE WriteUpdate(w) \/ WriteSeat(w) \/ WriteCancel(w) \/ WriteMany(w)
  <2>1. ASSUME NEW r \in ReservationId, NEW row, NEW old, PutsRow(w, r, row, old)
        PROVE  GroupAgreed(w)'
    BY <1>3, <2>1, PutMemory DEF PutsRow
  <2> QED BY <1>4, <1>14, <2>1, WriteFacts DEF Rollback
<1>15. CASE CheckSlot(w)
  BY <1>2, <1>4, <1>15, CheckSlotFacts DEF SlotFound, Rollback
<1> QED
  BY <1>4, <1>5, <1>7, <1>8, <1>9, <1>10, <1>11, <1>12, <1>13, <1>14, <1>15
  DEF WriterStep, Statement, Name, ScheduleLockTimeout, AbortDeadlock, RefuseItem, Rollback,
      Fail, Commit

(* The outbound leg is stamped for the row that will name it. *)
LEMMA StampLedger ==
  ASSUME Inv, NEW w \in Writer, Ledger(w), Stamp(w), GroupAgreed(w)'
  PROVE  Ledger(w)'
<1> TypeOK /\ LocalInv(w)
  BY DEF Inv
<1>1. PICK o \in ReservationId, row \in ReservationRow, old \in ReservationRow :
        /\ mem[w].link # None /\ mem[w].link.of = o
        /\ old = View(w, o) /\ SameBut(row, old, {"marker"})
        /\ OneRow(w, o, row)
        /\ UNCHANGED <<departure, reservation, holder, mem>>
        /\ pc[w] = "stamp" /\ pc'[w] = "write"
  BY StampFacts
<1>2. /\ written'[w][o] = row /\ old # None
      /\ \A s \in ReservationId \ {o} : written'[w][s] = written[w][s]
      /\ Req(w)' = Req(w) /\ Req(w).op \in {"create", "update"}
  BY <1>1, OneRowViews, NoneAssumption DEF Req, LocalInv, Shape
<1>3. \/ written[w][o] # None /\ old = written[w][o] /\ Entry(w, o)
      \/ written[w][o] = None /\ old = reservation[o]
  BY <1>1 DEF View, Ledger
<1>4. Entry(w, o)'
  <2>1. CASE Req(w).op = "create" /\ reservation[o] = None
    <3>1. written[w][o] # None /\ old = written[w][o] /\ Entry(w, o)
      BY <1>2, <1>3, <2>1
    <3>2. /\ Runs(departure[old.departure]) /\ departure[old.departure].lineActive
          /\ old.time = departure[old.departure].time
      BY <2>1, <3>1 DEF Entry
    <3>3. row.departure = old.departure /\ row.time = old.time
      BY <1>1, SameButFields
    <3> QED BY <1>1, <1>2, <2>1, <3>2, <3>3 DEF Entry, Runs
  <2>2. CASE Req(w).op = "create" /\ reservation[o] # None
    <3>1. old = reservation[o] \/ SameBut(old, reservation[o], {"marker"})
      BY <1>3, <2>2 DEF Entry
    <3>2. SameBut(row, reservation[o], {"marker"})
      BY <1>1, <3>1, SameButTwice
    <3> QED BY <1>1, <1>2, <2>2, <3>2 DEF Entry
  <2>3. CASE Req(w).op = "update"
    <3>1. o # Req(w).id
      BY <1>1, <2>3 DEF Ledger
    <3>2. /\ reservation[o] # None
          /\ old = reservation[o] \/ SameBut(old, reservation[o], {"marker"})
      BY <1>2, <1>3, <2>3, <3>1 DEF Entry
    <3>3. SameBut(row, reservation[o], {"marker"})
      BY <1>1, <3>2, SameButTwice
    <3> QED BY <1>1, <1>2, <2>3, <3>1, <3>2, <3>3 DEF Entry
  <2> QED BY <1>2, <2>1, <2>2, <2>3
<1>5. ASSUME NEW r \in ReservationId \ {o}, written'[w][r] # None
      PROVE  Entry(w, r)'
  <2>1. PICK new : new = written[w][r]
    OBVIOUS
  <2>2. new = written'[w][r] /\ Entry(w, r)
    BY <1>2, <1>5, <2>1 DEF Ledger
  <2>3. CASE Req(w).op = "create" /\ reservation[r] = None
    BY <1>1, <1>2, <2>1, <2>2, <2>3 DEF Entry, Runs
  <2>4. CASE Req(w).op = "create" /\ reservation[r] # None
    <3>1. SameBut(new, reservation[r], {"marker"})
      BY <2>1, <2>2, <2>4 DEF Entry
    <3>2. PICK s \in ReservationId :
            written[w][s] # None /\ reservation[s] = None /\ written[w][s].returnOf = r
      BY <1>1, <2>2, <2>4 DEF Entry
    <3>3. written'[w][s] # None /\ written'[w][s].returnOf = r
      <4>1. CASE s # o
        BY <1>2, <3>2, <4>1
      <4>2. CASE s = o
        BY <1>1, <1>2, <1>3, <3>2, <4>2, SameButFields, NoneAssumption
      <4> QED BY <4>1, <4>2
    <3> QED BY <1>1, <1>2, <2>2, <2>4, <3>1, <3>2, <3>3 DEF Entry
  <2>5. CASE Req(w).op = "update"
    BY <1>1, <1>2, <2>1, <2>2, <2>5 DEF Entry
  <2> QED BY <1>2, <2>3, <2>4, <2>5
<1>6. MoveAgreed(w)'
  BY <1>2 DEF MoveAgreed, At
<1>7. \A r \in ReservationId : written'[w][r] # None => Entry(w, r)'
  BY <1>4, <1>5
<1> QED BY <1>1, <1>2, <1>6, <1>7 DEF Ledger, At

(* A booked row is new, and names the outbound leg that was stamped for it. *)
LEMMA InsertLedger ==
  ASSUME Inv, NEW w \in Writer, ItemChecked(w), Ledger(w), InsertItem(w), GroupAgreed(w)'
  PROVE  Ledger(w)'
<1>1. PICK id \in ReservationId, d \in DepartureId, row \in ReservationRow : InsertsRow(w, id, d, row)
  BY InsertFacts
<1>2. /\ At(w, "write", "create") /\ Unused(id) /\ OneRow(w, id, row)
      /\ UNCHANGED <<departure, reservation, holder>> /\ pc'[w] \in {"check", "commit"}
      /\ Req(w)' = Req(w) /\ Req(w).op = "create" /\ mem'[w].link = None
      /\ row = NewRow(w, CurrentItem(w), d, mem[w].link) /\ Bookable(CurrentItem(w), d)
  BY <1>1 DEF InsertsRow, ItemChecked, At
<1>3. /\ row.time = departure[d].time /\ row.departure = d
      /\ row.returnOf = IF mem[w].link # None THEN mem[w].link.of ELSE None
      /\ Runs(departure[d]) /\ departure[d].lineActive
  BY <1>2 DEF NewRow, Bookable
<1>4. /\ written'[w][id] = row /\ row # None /\ written[w][id] = None /\ reservation[id] = None
      /\ \A s \in ReservationId \ {id} : written'[w][s] = written[w][s]
  BY <1>2, OneRowViews, NoneAssumption DEF Unused, Inv
<1>5. Entry(w, id)'
  BY <1>2, <1>3, <1>4 DEF Entry, Runs
<1>6. ASSUME NEW r \in ReservationId \ {id}, written'[w][r] # None
      PROVE  Entry(w, r)'
  <2>1. PICK new : new = written[w][r]
    OBVIOUS
  <2>2. new = written'[w][r] /\ Entry(w, r)
    BY <1>4, <1>6, <2>1 DEF Ledger
  <2>3. CASE reservation[r] = None
    BY <1>2, <2>1, <2>2, <2>3 DEF Entry, Runs
  <2>4. CASE reservation[r] # None
    <3>1. SameBut(new, reservation[r], {"marker"})
      BY <1>2, <2>1, <2>2, <2>4 DEF Entry
    <3>2. \/ mem[w].link # None /\ mem[w].link.of = r
          \/ \E s \in ReservationId :
               written[w][s] # None /\ reservation[s] = None /\ written[w][s].returnOf = r
      BY <1>2, <2>2, <2>4 DEF Entry
    <3>3. \E s \in ReservationId :
            written'[w][s] # None /\ reservation[s] = None /\ written'[w][s].returnOf = r
      BY <1>3, <1>4, <3>2
    <3> QED BY <1>2, <2>2, <2>4, <3>1, <3>3 DEF Entry
  <2> QED BY <2>3, <2>4
<1>7. MoveAgreed(w)'
  BY <1>2 DEF MoveAgreed, At
<1>8. \A r \in ReservationId : written'[w][r] # None => Entry(w, r)'
  BY <1>5, <1>6
<1> QED BY <1>2, <1>7, <1>8 DEF Ledger, At

(* A row written is a version of the committed row, by the request. *)
LEMMA PutLedger ==
  ASSUME Inv, NEW w \in Writer, Ledger(w), GroupAgreed(w)',
         NEW r \in ReservationId, NEW row \in ReservationRow, NEW old \in ReservationRow,
         PutsRow(w, r, row, old)
  PROVE  Ledger(w)'
<1> TypeOK /\ LocalInv(w)
  BY DEF Inv
<1>1. /\ pc[w] = "write" /\ r \in mem[w].todo /\ old = View(w, r) /\ Put(w, r, row)
      /\ Writes(w, r, row, old) /\ old # None /\ row # None
  BY NoneAssumption DEF PutsRow
<1>2. /\ UNCHANGED <<departure, reservation, holder>> /\ Req(w)' = Req(w)
      /\ mem'[w].todo = mem[w].todo \ {r} /\ mem'[w].link = mem[w].link
      /\ mem'[w].read = mem[w].read /\ mem'[w].partner = mem[w].partner
      /\ pc'[w] \in {"write", "commit"}
  BY <1>1, PutMemory
<1>3. written'[w][r] = row /\ \A s \in ReservationId \ {r} : written'[w][s] = written[w][s]
  <2>1. written'[w] = [written[w] EXCEPT ![r] = row]
    BY <1>1, PutOwn
  <2> QED BY <2>1 DEF TypeOK
<1>4. \/ written[w][r] # None /\ old = written[w][r] /\ Entry(w, r)
      \/ written[w][r] = None /\ old = reservation[r]
  BY <1>1 DEF View, Ledger
<1>5. Req(w).op # "create" /\ reservation[r] # None
  BY <1>1, <1>4 DEF Writes, Entry
<1>6. Entry(w, r)'
  <2>1. CASE Req(w).op = "update"
    <3>1. r = Req(w).id /\ row = UpdatedRow(Req(w), old, mem[w].link)
      BY <1>1, <2>1 DEF Writes
    <3>2. SameBut(row, old, {"passenger", "seat", "from", "to", "group", "returnOf", "marker"})
      BY <3>1, UpdatedRowSameBut
    <3>3. SameBut(row, reservation[r], {"passenger", "seat", "from", "to", "group", "returnOf", "marker"})
      BY <1>4, <2>1, <3>1, <3>2, SameButTwice DEF Entry
    <3>4. mem[w].link # None => row.returnOf = mem[w].link.of
      BY <3>1 DEF UpdatedRow
    <3> QED BY <1>2, <1>3, <1>5, <2>1, <3>1, <3>3, <3>4 DEF Entry
  <2>2. CASE Req(w).op = "move"
    <3>1. SameBut(row, reservation[r], {"seat"})
      BY <1>1, <1>4, <2>2, SameButTwice DEF Entry, Writes
    <3> QED BY <1>1, <1>2, <1>3, <1>5, <2>2, <3>1 DEF Entry, Writes
  <2>3. CASE Req(w).op = "cancel"
    <3>1. SameBut(row, reservation[r], {"status"})
      BY <1>1, <1>4, <2>3, SameButTwice DEF Entry, Writes
    <3> QED BY <1>1, <1>2, <1>3, <1>5, <2>3, <3>1 DEF Entry, Writes
  <2>4. CASE Req(w).op = "group"
    <3>1. SameBut(row, reservation[r], {"group"})
      BY <1>1, <1>4, <2>4, SameButTwice DEF Entry, Writes
    <3>2. r \in Req(w).ids
      BY <1>1, <2>4 DEF Ledger, GroupAgreed
    <3>3. row = reservation[r] \/ (IsActive(reservation[r]) /\ row.group = Req(w).group)
      <4>1. CASE old = reservation[r]
        BY <1>1, <2>4, <4>1 DEF Writes
      <4>2. CASE old # reservation[r]
        <5>1. IsActive(reservation[r]) /\ old.group = Req(w).group
          BY <1>4, <2>4, <4>2 DEF Entry
        <5> QED BY <1>1, <2>4, <5>1 DEF Writes
      <4> QED BY <4>1, <4>2
    <3> QED BY <1>2, <1>3, <1>5, <2>4, <3>1, <3>2, <3>3 DEF Entry, IsActive
  <2>5. CASE Req(w).op = "merge"
    <3>1. SameBut(row, reservation[r], {"passenger"})
      BY <1>1, <1>4, <2>5, SameButTwice DEF Entry, Writes
    <3>2. \/ row = reservation[r]
          \/ reservation[r].passenger = Req(w).retired /\ row.passenger = Req(w).canonical
      <4>1. CASE old = reservation[r]
        BY <1>1, <2>5, <4>1 DEF Writes
      <4>2. CASE old # reservation[r]
        <5>1. reservation[r].passenger = Req(w).retired /\ old.passenger = Req(w).canonical
          BY <1>4, <2>5, <4>2 DEF Entry
        <5> QED BY <1>1, <2>5, <5>1 DEF Writes
      <4> QED BY <4>1, <4>2
    <3> QED BY <1>2, <1>3, <1>5, <2>5, <3>1, <3>2 DEF Entry
  <2> QED BY <1>1, <2>1, <2>2, <2>3, <2>4, <2>5 DEF Writes
<1>7. ASSUME NEW s \in ReservationId \ {r}, written'[w][s] # None
      PROVE  Entry(w, s)'
  <2>1. Entry(w, s)
    BY <1>3, <1>7 DEF Ledger
  <2>2. written'[w][s] = written[w][s]
    BY <1>3
  <2> QED BY <1>2, <1>5, <2>1, <2>2 DEF Entry, IsActive
<1>8. MoveAgreed(w)'
  <2>1. CASE Req(w).op = "move"
    <3> DEFINE moved == {s \in ReservationId : written[w][s] # None}
               moved2 == {s \in ReservationId : written'[w][s] # None}
    <3>1. mem'[w].todo \cup moved2 = mem[w].todo \cup moved
      BY <1>1, <1>2, <1>3
    <3>2. At(w, "write", "move")
      BY <1>1, <2>1, RequestKinds DEF At, LocalInv, Shape
    <3>3. MoveAgreed(w)
      BY DEF Ledger
    <3> QED BY <1>2, <3>1, <3>2, <3>3 DEF MoveAgreed
  <2>2. CASE Req(w).op # "move"
    BY <1>2, <2>2 DEF MoveAgreed, At
  <2> QED BY <2>1, <2>2
<1>9. At(w, "commit", "update")' => written'[w][Req(w).id] # None
  <2>1. Req(w).op = "update" => r = Req(w).id
    BY <1>1 DEF Writes
  <2> QED BY <1>1, <1>2, <1>3, <2>1 DEF At
<1>10. \A s \in ReservationId : written'[w][s] # None => Entry(w, s)'
  BY <1>6, <1>7
<1> QED BY <1>2, <1>8, <1>9, <1>10 DEF Ledger

LEMMA OwnLedger ==
  ASSUME Inv, NEW w \in Writer, ItemChecked(w), Ledger(w), WriterStep(w)
  PROVE  Ledger(w)'
<1> TypeOK /\ LocalInv(w)
  BY DEF Inv
<1>1. GroupAgreed(w)'
  BY OwnGroup DEF Ledger
<1>2. CASE Quiet(w)'
  BY <1>1, <1>2, QuietHolds
<1>3. CASE CheckItem(w)
  <2>1. CASE ItemDecided(w)
    <3>1. /\ pc[w] = "check" /\ UNCHANGED <<departure, reservation, written>>
          /\ Req(w)' = Req(w) /\ Req(w).op = "create" /\ pc'[w] # "commit"
      BY <2>1 DEF ItemDecided
    <3>2. ASSUME NEW r \in ReservationId, written'[w][r] # None
          PROVE  Entry(w, r)'
      <4>1. Entry(w, r)
        BY <3>1, <3>2 DEF Ledger
      <4>2. CASE reservation[r] = None
        BY <3>1, <4>1, <4>2 DEF Entry, Runs
      <4>3. CASE reservation[r] # None
        <5>1. /\ SameBut(written[w][r], reservation[r], {"marker"})
              /\ \E s \in ReservationId :
                   written[w][s] # None /\ reservation[s] = None /\ written[w][s].returnOf = r
          BY <3>1, <4>1, <4>3 DEF Entry
        <5> QED BY <3>1, <4>3, <5>1 DEF Entry
      <4> QED BY <4>2, <4>3
    <3> QED BY <1>1, <3>1, <3>2 DEF Ledger, MoveAgreed, At
  <2> QED BY <1>2, <1>3, <2>1, CheckItemFacts
<1>4. CASE CheckUpdate(w)
  <2>1. ASSUME NEW id \in ReservationId, UpdateDecided(w, id)
        PROVE  Ledger(w)'
    BY <1>1, <2>1 DEF UpdateDecided, Ledger, MoveAgreed, At, NothingWritten
  <2> QED BY <1>2, <1>4, <2>1, CheckUpdateFacts
<1>5. CASE CheckMove(w)
  <2>1. ASSUME NEW id \in ReservationId, MoveDecided(w, id)
        PROVE  Ledger(w)'
    <3>1. /\ UNCHANGED <<reservation, written>> /\ written[w] = NothingWritten
          /\ Req(w)' = Req(w) /\ Req(w).op = "move" /\ Req(w).id = id /\ mem'[w].link = None
          /\ \/ pc'[w] = "commit"
             \/ pc'[w] = "write" /\ SwapAgreed(w, id)
      BY <2>1 DEF MoveDecided
    <3>2. {r \in ReservationId : written'[w][r] # None} = {}
      BY <3>1 DEF NothingWritten
    <3>3. MoveAgreed(w)'
      BY <3>1, <3>2 DEF MoveAgreed, SwapAgreed, At
    <3> QED BY <1>1, <3>1, <3>3 DEF Ledger, At, NothingWritten
  <2> QED BY <1>2, <1>5, <2>1, CheckMoveFacts
<1>6. CASE CheckCancel(w) \/ CheckMany(w)
  <2>1. CASE ManyDecided(w)
    BY <1>1, <2>1 DEF ManyDecided, Ledger, MoveAgreed, At, NothingWritten
  <2> QED BY <1>2, <1>6, <2>1, CheckOtherFacts
<1>7. CASE Stamp(w) \/ InsertItem(w)
  BY <1>1, <1>7, StampLedger, InsertLedger
<1>8. CASE WriteUpdate(w) \/ WriteSeat(w) \/ WriteCancel(w) \/ WriteMany(w)
  <2>1. CASE Rollback(w, "refused")
    BY <1>2, <2>1, EndQuiet DEF Rollback
  <2>2. ASSUME NEW r \in ReservationId, NEW row \in ReservationRow, NEW old \in ReservationRow,
               PutsRow(w, r, row, old)
        PROVE  Ledger(w)'
    BY <1>1, <2>2, PutLedger
  <2> QED BY <1>8, <2>1, <2>2, WriteFacts
<1>9. CASE SlotFound(w)
  <2>1. ASSUME NEW r \in ReservationId, written'[w][r] # None
        PROVE  Entry(w, r)'
    <3>1. Entry(w, r)
      BY <1>9, <2>1 DEF Ledger, SlotFound
    <3> QED BY <1>9, <3>1 DEF Entry, SlotFound, Runs
  <2> QED BY <1>1, <1>9, <2>1 DEF SlotFound, Ledger, MoveAgreed, At
<1> QED BY <1>2, <1>3, <1>4, <1>5, <1>6, <1>7, <1>8, <1>9, OwnCases

-----------------------------------------------------------------------------
(* What a transaction has decided survives the steps of everybody else. *)

Booked(w) == ItemChecked(w) /\ SeatsPlanned(w) /\ Ledger(w) /\ LinkTimed(w)

(* Another transaction's step that commits nothing, and most steps of an edit. *)
LEMMA BystanderBooked ==
  ASSUME TypeOK, NEW w \in Writer, LocalInv(w), Booked(w),
         UNCHANGED <<departure, reservation>>,
         pc'[w] = pc[w], mem'[w] = mem[w], written'[w] = written[w],
         \A d \in DepartureId : holder[d] = w => holder'[d] = w
  PROVE  Booked(w)'
<1>1. /\ \A r : View(w, r)' = View(w, r) /\ Planned(w, r)' = Planned(w, r)
      /\ Req(w)' = Req(w) /\ CurrentItem(w)' = CurrentItem(w)
  BY DEF View, Planned, Req, CurrentItem
<1>2. ItemChecked(w)'
  BY <1>1, SameItem DEF Booked, ItemChecked, At
<1>3. SeatsPlanned(w)'
  <2>1. \A r \in ReservationId : r \in Placed(w)' => r \in Placed(w)
    BY <1>1 DEF Placed
  <2> QED BY <1>1, <2>1, SameSeats, SameRoomRelation DEF Booked
<1>4. Ledger(w)'
  <2>1. MoveAgreed(w)' /\ GroupAgreed(w)'
    BY <1>1 DEF Booked, Ledger, MoveAgreed, GroupAgreed, At
  <2>2. ASSUME NEW r \in ReservationId, written'[w][r] # None
        PROVE  Entry(w, r)'
    <3>1. Entry(w, r)
      BY <2>2 DEF Booked, Ledger
    <3> QED BY <1>1, <3>1 DEF Entry, Runs, IsActive
  <2> QED BY <1>1, <2>1, <2>2 DEF Booked, Ledger, At
<1>5. LinkTimed(w)'
  <2>1. LegTime(w)' = LegTime(w)
    BY <1>1 DEF LegTime, View
  <2>2. View(w, mem[w].link.of)' = View(w, mem[w].link.of)
    BY DEF View
  <2>3. \A r \in ReservationId : RowTimed(w, r)'
    BY <1>1 DEF Booked, LinkTimed, RowTimed, View
  <2> QED BY <1>1, <2>1, <2>2, <2>3 DEF Booked, LinkTimed
<1> QED BY <1>2, <1>3, <1>4, <1>5 DEF Booked

(* Another transaction's commit changes nothing on a bus that w holds. *)
LEMMA HeldBusKept ==
  ASSUME Inv, NEW w \in Writer, NEW x \in Writer, w # x, Commit(x),
         NEW d \in DepartureId, holder[d] = w, NEW r \in ReservationId
  PROVE  /\ reservation[r] # None /\ reservation[r].departure = d =>
              SameRoom(reservation'[r], reservation[r])
         /\ \/ Planned(w, r) # None /\ Planned(w, r).departure = d
            \/ Planned(w, r)' # None /\ Planned(w, r)'.departure = d
            => SameRoom(Planned(w, r)', Planned(w, r))
<1>1. /\ TypeOK /\ LocalInv(w) /\ mem'[w] = mem[w] /\ d # None
      /\ reservation'[r] = View(x, r)
  BY WriterSteps, NoneAssumption DEF Inv, WriterStep, Statement, OwnStep, Commit
<1>2. /\ View(x, r) # None /\ reservation[r] # None => View(x, r).departure = reservation[r].departure
      /\ reservation[r] # None => View(x, r) # None
      /\ \/ SameRoom(View(x, r), reservation[r])
         \/ /\ View(x, r) # None
            /\ View(x, r).departure = None \/ holder[View(x, r).departure] = x
  BY CommitPlans
<1>3. reservation[r] # None /\ reservation[r].departure = d => SameRoom(reservation'[r], reservation[r])
  BY <1>1, <1>2
<1>4. ASSUME \/ Planned(w, r) # None /\ Planned(w, r).departure = d
             \/ Planned(w, r)' # None /\ Planned(w, r)'.departure = d
      PROVE  SameRoom(Planned(w, r)', Planned(w, r))
  <2>1. CASE View(w, r)' = View(w, r)
    <3>1. Planned(w, r)' = Planned(w, r)
      BY <1>1, <2>1 DEF Planned
    <3> QED BY <3>1, SameRoomRelation
  <2>2. CASE View(w, r)' = View(x, r) /\ View(w, r) = reservation[r]
    <3>1. \/ SameRoom(Planned(w, r)', Planned(w, r))
          \/ /\ SameRoom(Planned(w, r)', View(x, r)) /\ View(x, r) # None
             /\ View(x, r).departure = None \/ holder[View(x, r).departure] = x
      BY CommitPlans
    <3>2. Planned(w, r) # None => reservation[r] # None /\ Planned(w, r).departure = reservation[r].departure
      BY <1>1, <2>2, PlannedType DEF LocalInv
    <3> QED BY <1>1, <1>2, <1>4, <3>1, <3>2 DEF SameRoom
  <2> QED BY <2>1, <2>2, CommitPlans
<1> QED BY <1>3, <1>4

(* Another transaction's commit: what w has written is locked, what it has
   placed is on buses it holds, and no time changes. *)
LEMMA CommitLeaves ==
  ASSUME Inv, NEW w \in Writer, NEW x \in Writer, w # x, Commit(x)
  PROVE  /\ pc'[w] = pc[w] /\ mem'[w] = mem[w] /\ written'[w] = written[w]
         /\ departure' = departure /\ Req(w)' = Req(w) /\ CurrentItem(w)' = CurrentItem(w)
         /\ \A d \in DepartureId : holder[d] = w => holder'[d] = w
         /\ \A r \in ReservationId : written[w][r] # None => reservation'[r] = reservation[r]
         /\ \A r \in ReservationId :
              reservation[r] # None =>
                reservation'[r] # None /\ reservation'[r].departure = reservation[r].departure
<1>1. WriterStep(x)
  BY DEF WriterStep, Statement
<1>2. \A r \in ReservationId : reservation'[r] = View(x, r)
  BY DEF Commit
<1>3. /\ pc'[w] = pc[w] /\ mem'[w] = mem[w] /\ written'[w] = written[w] /\ departure' = departure
      /\ \A d \in DepartureId : holder[d] = w => holder'[d] = w
  BY <1>1, WriterSteps DEF OwnStep
<1>4. \A r \in ReservationId : written[w][r] # None => reservation'[r] = reservation[r]
  BY <1>1, LockedRowStays
<1>5. \A r \in ReservationId :
        reservation[r] # None =>
          reservation'[r] # None /\ reservation'[r].departure = reservation[r].departure
  BY <1>2, CommitPlans
<1>6. Req(w)' = Req(w) /\ CurrentItem(w)' = CurrentItem(w)
  BY <1>3 DEF Req, CurrentItem
<1> QED BY <1>3, <1>4, <1>5, <1>6

LEMMA CommitKeepsMove ==
  ASSUME Inv, NEW w \in Writer, NEW x \in Writer, w # x, Commit(x), Booked(w)
  PROVE  MoveAgreed(w)'
<1> DEFINE moved == {r \in ReservationId : written[w][r] # None}
           id == Req(w).id
           partner == mem[w].partner
<1>1. /\ pc'[w] = pc[w] /\ mem'[w] = mem[w] /\ written'[w] = written[w] /\ Req(w)' = Req(w)
      /\ \A r \in ReservationId : written[w][r] # None => reservation'[r] = reservation[r]
  BY CommitLeaves
<1>2. TypeOK /\ LocalInv(w)
  BY DEF Inv
<1> SUFFICES ASSUME At(w, "write", "move") \/ (At(w, "commit", "move") /\ moved # {})
             PROVE  MoveAgreed(w)'
  BY <1>1 DEF MoveAgreed, At
<1>3. /\ mem[w].todo \cup moved = {id} \cup ({partner} \ {None})
      /\ reservation[id] # None /\ reservation[id].seat = mem[w].read.seat
      /\ mem[w].read.seat # Req(w).seat
      /\ partner # None =>
           /\ partner # id /\ reservation[partner] # None
           /\ reservation[partner].seat = Req(w).seat
           /\ reservation[partner].departure = reservation[id].departure
  BY DEF Booked, Ledger, MoveAgreed
<1>4. ASSUME NEW r \in mem[w].todo \cup moved
      PROVE  r \in ReservationId /\ SameRoom(reservation'[r], reservation[r])
  <2>1. CASE r \in moved
    BY <1>1, <2>1, SameRoomRelation
  <2>2. CASE r \in mem[w].todo \ moved
    <3>1. r \in ReservationId /\ View(w, r) = reservation[r]
      BY <1>2, <2>2 DEF TypeOK, Memory, View
    <3>2. /\ pc[w] = "write" /\ OneRowRequest(w) /\ Req(w).op = "move"
      BY <1>2, <2>2 DEF At, OneRowRequest, LocalInv, Shape
    <3>3. /\ mem[w].read # None /\ mem[w].read.departure # None
          /\ holder[mem[w].read.departure] = w
      BY <1>2, <3>2 DEF LocalInv, ItsBus
    <3>4. reservation[r] # None /\ reservation[r].departure = mem[w].read.departure
      BY <1>2, <2>2, <3>1, <3>2 DEF LocalInv, TodoExists
    <3>5. reservation[r].departure \in DepartureId
      BY <1>2, <3>1, <3>3, <3>4 DEF TypeOK, ReservationRow
    <3> QED BY <3>1, <3>3, <3>4, <3>5, HeldBusKept
  <2> QED BY <2>1, <2>2
<1>5. SameRoom(reservation'[id], reservation[id])
  BY <1>3, <1>4
<1>6. partner # None => SameRoom(reservation'[partner], reservation[partner])
  BY <1>3, <1>4
<1>7. {r \in ReservationId : written'[w][r] # None} = moved
  BY <1>1
<1> HIDE DEF moved
<1> QED BY <1>1, <1>3, <1>5, <1>6, <1>7 DEF MoveAgreed, SameRoom

LEMMA BystanderBookedCommit ==
  ASSUME Inv, NEW w \in Writer, NEW x \in Writer, w # x, Commit(x), Booked(w), Booked(x)
  PROVE  Booked(w)'
<1> TypeOK /\ LocalInv(w)
  BY DEF Inv
<1>1. /\ pc'[w] = pc[w] /\ mem'[w] = mem[w] /\ written'[w] = written[w]
      /\ departure' = departure /\ Req(w)' = Req(w) /\ CurrentItem(w)' = CurrentItem(w)
      /\ \A d \in DepartureId : holder[d] = w => holder'[d] = w
      /\ \A r \in ReservationId : written[w][r] # None => reservation'[r] = reservation[r]
      /\ \A r \in ReservationId :
           reservation[r] # None =>
             reservation'[r] # None /\ reservation'[r].departure = reservation[r].departure
  BY CommitLeaves
<1>2. ItemChecked(w)'
  BY <1>1, SameItem DEF Booked, ItemChecked, At
<1>3. SeatsPlanned(w)'
  <2>1. \A r \in ReservationId : r \in Placed(w)' => r \in Placed(w)
    BY <1>1 DEF Placed
  <2>2. \A r \in ReservationId, d \in DepartureId :
          /\ holder[d] = w
          /\ \/ Planned(w, r) # None /\ Planned(w, r).departure = d
             \/ Planned(w, r)' # None /\ Planned(w, r)'.departure = d
          => SameRoom(Planned(w, r)', Planned(w, r))
    BY HeldBusKept
  <2> QED BY <1>1, <2>1, <2>2, SameSeats DEF Booked
<1>4. Ledger(w)'
  <2>1. MoveAgreed(w)'
    BY CommitKeepsMove
  <2>2. GroupAgreed(w)'
    <3>1. pc[w] # "idle" /\ Req(w).op = "group" => Req(w).ids \subseteq ReservationId
      BY RequestKinds DEF LocalInv, Shape, GroupRequest
    <3> QED BY <1>1, <3>1 DEF Booked, Ledger, GroupAgreed
  <2>3. ASSUME NEW r \in ReservationId, written'[w][r] # None
        PROVE  Entry(w, r)'
    <3>1. Entry(w, r)
      BY <1>1, <2>3 DEF Booked, Ledger
    <3>2. \A s \in ReservationId : written'[w][s] # None => reservation'[s] = reservation[s]
      BY <1>1
    <3> QED BY <1>1, <2>3, <3>1, <3>2 DEF Entry, Runs, IsActive
  <2> QED BY <1>1, <2>1, <2>2, <2>3 DEF Booked, Ledger, At
<1>5. LinkTimed(w)'
  <2>1. ASSUME NEW r \in ReservationId, View(w, r) # None
        PROVE  View(w, r)' # None /\ View(w, r)'.time = View(w, r).time
    <3>1. CASE View(w, r)' = View(w, r)
      BY <2>1, <3>1
    <3>2. CASE View(w, r)' = View(x, r) /\ View(w, r) = reservation[r]
      <4>1. View(x, r) # None
        BY <2>1, <3>2, CommitPlans
      <4>2. RowTimed(x, r)
        BY DEF Booked, LinkTimed
      <4> QED BY <2>1, <3>2, <4>1, <4>2 DEF RowTimed, View
    <3> QED BY <3>1, <3>2, CommitPlans
  <2>2. ASSUME NEW r \in ReservationId
        PROVE  RowTimed(w, r)'
    <3>1. PICK new : new = written[w][r]
      OBVIOUS
    <3>2. new # None => reservation'[r] = reservation[r] /\ new \in ReservationRow
      BY <1>1, <3>1 DEF TypeOK
    <3>3. new # None /\ new.returnOf # None => new.returnOf \in ReservationId
      BY <3>2 DEF ReservationRow
    <3>4. RowTimed(w, r)
      BY DEF Booked, LinkTimed
    <3> QED BY <1>1, <2>1, <3>1, <3>2, <3>3, <3>4 DEF RowTimed
  <2>3. CASE pc[w] \in {"slot", "stamp", "write"} /\ mem[w].link # None
    <3>1. PICK o \in ReservationId : o = mem[w].link.of /\ View(w, o) # None
      BY <2>3 DEF LocalInv, LinkExists, TypeOK, Memory, Link
    <3>2. Req(w).op \in {"create", "update"} /\ LegTime(w) >= View(w, o).time
      BY <2>3, <3>1 DEF Booked, LinkTimed
    <3>3. LegTime(w)' = LegTime(w)
      <4>1. CASE Req(w).op = "create"
        BY <1>1, <4>1 DEF LegTime
      <4>2. CASE Req(w).op = "update"
        <5>1. Req(w).id \in mem[w].todo
          BY <2>3, <4>2 DEF LocalInv, Shape
        <5>2. PICK id \in ReservationId : id = Req(w).id /\ View(w, id) # None
          BY <5>1 DEF LocalInv, TodoExists, TypeOK, Memory
        <5>3. LegTime(w) = View(w, id).time /\ LegTime(w)' = View(w, id)'.time
          BY <1>1, <4>2, <5>2 DEF LegTime, View
        <5> QED BY <2>1, <5>2, <5>3
      <4> QED BY <3>2, <4>1, <4>2
    <3>4. View(w, mem[w].link.of)' = View(w, o)'
      BY <1>1, <3>1 DEF View
    <3> QED BY <1>1, <2>1, <2>2, <3>1, <3>2, <3>3, <3>4 DEF LinkTimed
  <2>4. CASE ~(pc[w] \in {"slot", "stamp", "write"} /\ mem[w].link # None)
    BY <1>1, <2>2, <2>4 DEF LinkTimed
  <2> QED BY <2>3, <2>4
<1> QED BY <1>2, <1>3, <1>4, <1>5 DEF Booked

LEMMA InitBooked ==
  ASSUME Init, NEW w \in Writer
  PROVE  Booked(w)
<1>1. pc[w] = "idle" /\ written[w] = NothingWritten /\ mem[w] = Blank
  BY DEF Init
<1>2. ItemChecked(w) /\ LinkTimed(w)
  BY <1>1 DEF ItemChecked, At, LinkTimed, RowTimed, NothingWritten
<1>3. SeatsPlanned(w)
  BY <1>1 DEF SeatsPlanned, Placed, NothingWritten, Blank
<1>4. Ledger(w)
  BY <1>1 DEF Ledger, MoveAgreed, GroupAgreed, At, NothingWritten, Blank
<1> QED BY <1>2, <1>3, <1>4 DEF Booked

LEMMA StepBooked ==
  ASSUME Inv, \A w \in Writer : Booked(w), [Next]_vars, NEW w \in Writer
  PROVE  Booked(w)'
<1> TypeOK /\ LocalInv(w)
  BY DEF Inv
<1>1. CASE WriterStep(w)
  BY <1>1, OwnItem, OwnSeats, OwnLedger, OwnLink DEF Booked
<1>2. ASSUME NEW x \in Writer \ {w}, WriterStep(x)
      PROVE  Booked(w)'
  <2>1. OwnStep(x) /\ (reservation' = reservation \/ Commit(x))
    BY <1>2, WriterSteps
  <2>2. CASE reservation' = reservation
    BY <2>1, <2>2, BystanderBooked DEF OwnStep
  <2> QED BY <2>1, <2>2, BystanderBookedCommit
<1>3. CASE ApplyEdit
  <2>1. /\ pc'[w] = pc[w] /\ mem'[w] = mem[w] /\ written'[w] = written[w]
        /\ pc[w] \in {"idle", "schedule"}
    BY <1>3 DEF ApplyEdit, Inv, Frozen, InTransaction
  <2>2. Quiet(w)'
    BY <2>1 DEF Quiet, LocalInv, Shape
  <2>3. GroupAgreed(w)'
    BY <2>1 DEF GroupAgreed
  <2> QED BY <2>2, <2>3, QuietHolds DEF Booked
<1>4. CASE RequestEdit \/ AcquireScheduleLockExclusive \/ AbandonEdit \/ UNCHANGED vars
  BY <1>4, BystanderBooked
  DEF RequestEdit, AcquireScheduleLockExclusive, AbandonEdit, vars
<1> QED BY <1>1, <1>2, <1>3, <1>4 DEF Next, WriterStep, Schedule

LEMMA SpecBooked == Spec => [](\A w \in Writer : Booked(w))
<1> DEFINE AllBooked == \A w \in Writer : Booked(w)
<1>1. Init => AllBooked
  BY InitBooked
<1>2. Inv /\ AllBooked /\ [Next]_vars => AllBooked'
  BY StepBooked
<1> HIDE DEF AllBooked
<1>3. Spec => []AllBooked
  BY <1>1, <1>2, SpecInv, PTL DEF Spec
<1> QED BY <1>3 DEF AllBooked

-----------------------------------------------------------------------------
(* What follows: the way back. *)

(* A reservation becomes a return leg only of a journey that is not later, by
   the times both carry when it is committed: assertReturnNotBefore reads the
   outbound leg without its bus's lock, and neither leg can be retimed before
   the commit, for any number of writers and edits (return-leg-link.ts). *)
THEOREM ReturnsInOrder == Spec => ReturnIsNotEarlier
<1> DEFINE AllBooked == \A w \in Writer : Booked(w)
           InOrder ==
             \A r \in ReservationId :
               LET before == reservation[r]
                   after  == reservation'[r]
               IN /\ edit # "held"
                  /\ after # None /\ after.returnOf # None
                  /\ before = None \/ (before # None /\ before.returnOf # after.returnOf)
                  => after.time >= reservation'[after.returnOf].time
<1>1. Inv /\ AllBooked /\ [Next]_vars => [InOrder]_vars
  <2> SUFFICES ASSUME Inv, AllBooked, Next, NEW r \in ReservationId, edit # "held",
                      reservation'[r] # None, reservation'[r].returnOf # None,
                      reservation[r] = None
                        \/ (reservation[r] # None /\ reservation[r].returnOf # reservation'[r].returnOf)
               PROVE  reservation'[r].time >= reservation'[reservation'[r].returnOf].time
    BY DEF vars
  <2>1. CASE \E w \in Writer : WriterStep(w)
    <3>1. PICK w \in Writer : WriterStep(w)
      BY <2>1
    <3>2. Commit(w) /\ TypeOK /\ RowTimed(w, r)
      BY <3>1, WriterSteps DEF Inv, Booked, LinkTimed
    <3>3. reservation' = [s \in ReservationId |-> View(w, s)]
      BY <3>2 DEF Commit
    <3>4. written[w][r] # None /\ reservation'[r] = written[w][r]
      BY <3>3 DEF View
    <3>5. reservation'[r].returnOf \in ReservationId
      BY <3>2, <3>4 DEF TypeOK, ReservationRow
    <3> QED BY <3>2, <3>3, <3>4, <3>5 DEF RowTimed
  <2>2. CASE RequestEdit \/ AcquireScheduleLockExclusive \/ AbandonEdit
    BY <2>2 DEF RequestEdit, AcquireScheduleLockExclusive, AbandonEdit
  <2>3. CASE ApplyEdit
    BY <2>3 DEF ApplyEdit
  <2> QED BY <2>1, <2>2, <2>3 DEF Next, WriterStep, Schedule
<1>2. Spec => []AllBooked
  BY SpecBooked
<1>3. Spec => []Inv
  BY SpecInv
<1>4. Spec => [][Next]_vars
  BY DEF Spec
<1>5. [][InOrder]_vars <=> ReturnIsNotEarlier
  BY DEF ReturnIsNotEarlier, InOrder
<1> HIDE DEF InOrder, AllBooked
<1> QED BY <1>1, <1>2, <1>3, <1>4, <1>5, PTL


-----------------------------------------------------------------------------
(* What follows: nobody loses a bus, a seat or a journey but by a confirmed
   edit. *)

(* What is committed is what was planned. *)
LEMMA CommitsPlans ==
  ASSUME Inv, NEW w \in Writer, Commit(w), NEW r \in ReservationId
  PROVE  /\ departure' = departure /\ reservation'[r] = View(w, r)
         /\ View(w, r) = Planned(w, r) /\ View(w, r) \in ReservationRow \cup {None}
         /\ written[w][r] = None => View(w, r) = reservation[r]
         /\ written[w][r] # None => View(w, r) = written[w][r]
         /\ Req(w) \in Request
         /\ Req(w).op \in {"create", "update", "move", "cancel", "group", "merge"}
<1>1. LocalInv(w) /\ pc[w] = "commit" /\ TypeOK
  BY DEF Inv, Commit
<1>2. mem[w].todo = {} /\ Req(w) \in Request
  BY <1>1 DEF LocalInv, Shape
<1>3. Req(w).op \in {"create", "update", "move", "cancel", "group", "merge"}
  BY <1>2, RequestKinds
<1>4. View(w, r) = Planned(w, r)
  BY <1>2 DEF Planned, PlannedRow
<1>5. View(w, r) \in ReservationRow \cup {None}
  BY <1>1, ViewType
<1>6. departure' = departure /\ reservation'[r] = View(w, r)
  BY DEF Commit, schedule
<1>7. /\ written[w][r] = None => View(w, r) = reservation[r]
      /\ written[w][r] # None => View(w, r) = written[w][r]
  BY DEF View
<1> QED BY <1>2, <1>3, <1>4, <1>5, <1>6, <1>7

(* A row that keeps its room, or a live one that keeps its bus and its status
   and gets a place on it, is not stranded by it. *)
LEMMA PlacedNotStranded ==
  ASSUME NEW new, NEW old, Stranded(new), old # None,
         \/ SameRoom(new, old)
         \/ /\ new.departure = old.departure /\ new.status = old.status
            /\ departure[new.departure] # None
            /\ ValidSegment(departure[new.departure], new)
            /\ ~(new.seat > departure[new.departure].capacity)
  PROVE  Stranded(old)
<1>1. CASE SameRoom(new, old)
  BY <1>1 DEF SameRoom, Stranded, IsActive, ValidSegment, OnRoute, Forward, SegmentOf
<1>2. CASE /\ new.departure = old.departure /\ new.status = old.status
           /\ departure[new.departure] # None
           /\ ValidSegment(departure[new.departure], new)
           /\ ~(new.seat > departure[new.departure].capacity)
  BY <1>2 DEF Stranded, IsActive
<1> QED BY <1>1, <1>2

LEMMA CommitStrandsNobody ==
  ASSUME Inv, NEW w \in Writer, Booked(w), Commit(w), NEW r \in ReservationId,
         Stranded(reservation[r])'
  PROVE  Stranded(reservation[r])
<1>1. TypeOK /\ LocalInv(w) /\ Ledger(w) /\ SeatsPlanned(w)
  BY DEF Inv, Booked
<1>2. PICK new, old : new = View(w, r) /\ old = reservation[r]
  OBVIOUS
<1>3. /\ departure' = departure /\ reservation'[r] = new /\ new = Planned(w, r)
      /\ new \in ReservationRow \cup {None}
      /\ written[w][r] = None => new = old
      /\ written[w][r] # None => new = written[w][r]
      /\ Req(w).op \in {"create", "update", "move", "cancel", "group", "merge"}
  BY <1>2, CommitsPlans
<1>4. Stranded(new)
  BY <1>3 DEF Stranded, IsActive, ValidSegment, OnRoute, Forward, SegmentOf, Runs
<1> SUFFICES ASSUME written[w][r] # None
             PROVE  Stranded(old)
  BY <1>2, <1>3, <1>4
<1>5. new = written[w][r] /\ Entry(w, r) /\ new # None
  BY <1>1, <1>3 DEF Ledger
<1>6. ASSUME r \in Placed(w)
      PROVE  /\ departure[new.departure] # None
             /\ ValidSegment(departure[new.departure], new)
             /\ ~(new.seat > departure[new.departure].capacity)
  <2>1. /\ departure[new.departure] # None
        /\ ValidSegment(departure[new.departure], new)
        /\ new.seat <= departure[new.departure].capacity
        /\ new.departure # None
    BY <1>1, <1>3, <1>6 DEF SeatsPlanned, InOwnSeat
  <2>2. departure[new.departure] \in DepartureRow /\ new \in ReservationRow
    BY <1>1, <1>3, <1>5, <2>1 DEF TypeOK, ReservationRow
  <2>3. new.seat \in Nat /\ departure[new.departure].capacity \in Nat
    BY <2>2 DEF ReservationRow, DepartureRow, SeatNumber
  <2> QED BY <2>1, <2>3
<1>7. ASSUME SameBut(new, old, {"marker"}) \/ SameBut(new, old, {"group"})
               \/ SameBut(new, old, {"passenger"}), old # None
      PROVE  Stranded(old)
  <2>1. SameRoom(new, old)
    BY <1>5, <1>7 DEF SameRoom, SameBut, Field
  <2> QED BY <1>4, <1>7, <2>1, PlacedNotStranded
<1>8. CASE Req(w).op = "create"
  <2>1. CASE old = None
    <3>1. r \in Placed(w)
      BY <1>2, <1>5, <1>8, <2>1 DEF Placed
    <3>2. Runs(departure[new.departure])
      BY <1>2, <1>5, <1>8, <2>1 DEF Entry
    <3> QED BY <1>4, <1>6, <3>1, <3>2 DEF Stranded
  <2>2. CASE old # None
    BY <1>2, <1>5, <1>7, <1>8, <2>2 DEF Entry
  <2> QED BY <2>1, <2>2
<1>9. CASE Req(w).op = "update" \/ Req(w).op = "move"
  <2>1. old # None
    BY <1>2, <1>5, <1>9 DEF Entry
  <2>2. CASE Req(w).op = "update" /\ r # Req(w).id
    BY <1>2, <1>5, <1>7, <2>1, <2>2 DEF Entry
  <2>3. CASE Req(w).op = "move" \/ r = Req(w).id
    <3>1. r \in Placed(w)
      BY <1>5, <1>9, <2>3 DEF Placed
    <3>2. \/ SameBut(new, old, {"passenger", "seat", "from", "to", "group", "returnOf", "marker"})
          \/ SameBut(new, old, {"seat"})
      BY <1>2, <1>5, <1>9, <2>3 DEF Entry
    <3>3. new.departure = old.departure /\ new.status = old.status
      BY <3>2 DEF SameBut, Field
    <3> QED BY <1>4, <1>6, <2>1, <3>1, <3>3, PlacedNotStranded
  <2> QED BY <1>9, <2>2, <2>3
<1>10. CASE Req(w).op = "cancel"
  <2>1. old # None /\ SameBut(new, old, {"status"})
    BY <1>2, <1>5, <1>10 DEF Entry
  <2>2. SameRoom(new, old) \/ ~Gone(old)
    BY <1>1, <1>2, <1>3, <1>5 DEF LocalInv, OnHeldBuses
  <2>3. old.status \in {"ACTIVE", "CANCELLED"}
    BY <1>1, <1>2, <2>1 DEF TypeOK, ReservationRow
  <2>4. SameRoom(new, old)
    BY <1>4, <1>5, <2>1, <2>2, <2>3 DEF SameRoom, SameBut, Field, Gone, Stranded, IsActive
  <2> QED BY <1>4, <2>1, <2>4, PlacedNotStranded
<1>11. CASE Req(w).op = "group" \/ Req(w).op = "merge"
  BY <1>2, <1>5, <1>7, <1>11 DEF Entry
<1> QED BY <1>3, <1>8, <1>9, <1>10, <1>11


(* What an edit leaves of a departure that it reaches and that has
   reservations. *)
LEMMA EditedKeeps ==
  ASSUME TypeOK, NEW e \in Edit, EditAllowed(e), NEW id \in Reached(e), Referenced(id)
  PROVE  /\ id \in DepartureId /\ departure[id] \in DepartureRow
         /\ Edited(e, id) \in DepartureRow /\ Edited(e, id).source = departure[id].source
         /\ e.kind \in {"line", "ride", "extra", "cancel", "restore", "retire", "cascade"}
         /\ e.kind \notin {"line", "ride"} =>
              /\ Edited(e, id).route = departure[id].route
              /\ Edited(e, id).boarding = departure[id].boarding
              /\ Edited(e, id).dropoff = departure[id].dropoff
         /\ e.kind \notin {"ride", "extra"} => Edited(e, id).capacity = departure[id].capacity
<1>1. PICK d \in DepartureRow : d = departure[id] /\ id \in DepartureId /\ e \in AnyEdit
  <2>1. e \in AnyEdit
    BY ConstantsAssumption
  <2>2. e.departures \subseteq DepartureId
    BY <2>1 DEF AnyEdit
  <2>3. id \in DepartureId /\ departure[id] # None
    BY <2>2 DEF Reached, OnRideOf
  <2> QED BY <2>1, <2>3 DEF TypeOK
<1>2. e.kind \in {"line", "ride", "extra", "cancel", "restore", "retire", "cascade"}
  BY <1>1 DEF EditAllowed, AnyEdit
<1>3. PICK after \in DepartureRow : after = Edited(e, id)
  BY <1>1, <1>2, EditedType, NoneAssumption
<1>4. ASSUME after = [d EXCEPT !.dropped = TRUE]
      PROVE  /\ after.source = d.source /\ after.route = d.route /\ after.boarding = d.boarding
             /\ after.dropoff = d.dropoff /\ after.capacity = d.capacity
  BY <1>4 DEF DepartureRow
<1>5. CASE e.kind \in {"line", "ride"}
  <2>1. after = Replanned(e, id)
    BY <1>1, <1>3, <1>5 DEF Edited
  <2> DEFINE onLine == [d EXCEPT !.route = e.route, !.boarding = e.boarding,
                                 !.dropoff = e.dropoff, !.lineActive = e.lineActive]
             resized == [onLine EXCEPT !.capacity = IF e.kind = "ride" THEN e.capacity ELSE @]
  <2>2. onLine \in DepartureRow /\ onLine.source = d.source /\ onLine.capacity = d.capacity
    BY <1>1 DEF DepartureRow, AnyEdit
  <2> HIDE DEF onLine
  <2>3. /\ resized \in DepartureRow /\ resized.source = d.source
        /\ e.kind = "line" => resized.capacity = d.capacity
    BY <1>1, <1>5, <2>2 DEF DepartureRow, AnyEdit
  <2> HIDE DEF resized
  <2>4. CASE d.source = "SCHEDULE" /\ e.produced
    <3>1. after = [resized EXCEPT !.time = e.time, !.dropped = FALSE]
      BY <1>1, <2>1, <2>4 DEF Replanned, resized, onLine
    <3> QED BY <1>1, <1>2, <1>3, <1>5, <2>3, <3>1 DEF DepartureRow
  <2>5. CASE d.source = "SCHEDULE" /\ ~e.produced
    <3>1. after = [d EXCEPT !.dropped = TRUE]
      BY <1>1, <1>3, <2>1, <2>5, NoneAssumption DEF Replanned, Unproduced
    <3> QED BY <1>1, <1>2, <1>3, <1>4, <1>5, <3>1
  <2>6. CASE d.source = "EXTRA"
    <3>1. \E b \in BOOLEAN : \/ after = [resized EXCEPT !.dropped = b]
                            \/ after = [onLine EXCEPT !.dropped = b]
      <4> DEFINE extra == IF AtRideCapacity(d) THEN resized ELSE onLine
      <4>1. after = [extra EXCEPT !.dropped = ExtraDropped(e, id)]
        BY <1>1, <2>1, <2>6 DEF Replanned, resized, onLine
      <4>2. ExtraDropped(e, id) \in BOOLEAN
        BY DEF ExtraDropped
      <4> QED BY <4>1, <4>2
    <3> QED BY <1>1, <1>2, <1>3, <1>5, <2>2, <2>3, <3>1 DEF DepartureRow
  <2>7. CASE d.source = "LEGACY"
    <3>1. after = onLine
      BY <1>1, <2>1, <2>7 DEF Replanned, onLine
    <3> QED BY <1>1, <1>2, <1>3, <1>5, <2>2, <3>1
  <2> QED BY <2>4, <2>5, <2>6, <2>7 DEF DepartureRow
<1>6. CASE e.kind = "extra"
  <2>1. after = [d EXCEPT !.time = e.time, !.capacity = e.capacity]
    BY <1>1, <1>3, <1>6 DEF Edited
  <2> QED BY <1>1, <1>3, <1>6, <2>1 DEF DepartureRow
<1>7. CASE e.kind \in {"cancel", "restore"}
  <2>1. \E b \in BOOLEAN : after = [d EXCEPT !.cancelled = b]
    BY <1>1, <1>3, <1>7 DEF Edited
  <2> QED BY <1>1, <1>3, <1>7, <2>1 DEF DepartureRow
<1>8. CASE e.kind \in {"retire", "cascade"}
  <2>1. after = Retired(id)
    BY <1>1, <1>3, <1>8 DEF Edited
  <2>2. after = [d EXCEPT !.dropped = TRUE] \/ after = d
    BY <1>1, <1>3, <2>1, NoneAssumption DEF Retired, Unproduced, DepartureRow
  <2> QED BY <1>1, <1>2, <1>3, <1>4, <1>8, <2>2
<1> QED BY <1>2, <1>5, <1>6, <1>7, <1>8

(* What the guard counts of a passenger, when the bus suited them before. *)
LEMMA FaultsShow ==
  ASSUME NEW d \in DepartureRow, NEW after \in DepartureRow, NEW row,
         Runs(d), ValidSegment(d, row), ~(row.seat > d.capacity),
         after.source = d.source
  PROVE  /\ ~Runs(after) =>
              RowFault("reachable", after, row) > RowFault("reachable", d, row)
         /\ row.seat > after.capacity =>
              RowFault("seatWithinCapacity", after, row) > RowFault("seatWithinCapacity", d, row)
         /\ ~ValidSegment(after, row) =>
              \/ RowFault("onRoute", after, row) > RowFault("onRoute", d, row)
              \/ RowFault("segmentValid", after, row) > RowFault("segmentValid", d, row)
<1>1. /\ RowFault("reachable", d, row) = 0 /\ RowFault("seatWithinCapacity", d, row) = 0
      /\ RowFault("onRoute", d, row) = 0 /\ RowFault("segmentValid", d, row) = 0
  BY DEF RowFault, One, Runs, ValidSegment
<1>2. ~Runs(after) => RowFault("reachable", after, row) = 1
  BY DEF RowFault, One, Runs
<1>3. row.seat > after.capacity => RowFault("seatWithinCapacity", after, row) = 1
  BY DEF RowFault, One
<1>4. ~OnRoute(after, row) => RowFault("onRoute", after, row) = 1
  BY DEF RowFault, One
<1>5. OnRoute(after, row) /\ ~ValidSegment(after, row) => RowFault("segmentValid", after, row) > 0
  <2>1. row.from # row.to
    BY DEF ValidSegment
  <2> QED BY <2>1 DEF RowFault, One, ValidSegment
<1> QED BY <1>1, <1>2, <1>3, <1>4, <1>5


(* An edit the guard lets through strands nobody. *)
LEMMA EditStrandsNobody ==
  ASSUME Inv, NEW e \in Edit, EditAllowed(e), ~AddsViolation(e),
         departure' = [id \in DepartureId |-> Edited(e, id)],
         reservation' = [r \in ReservationId |-> Resettled(e, reservation[r])],
         NEW r \in ReservationId, Stranded(reservation[r])'
  PROVE  Stranded(reservation[r])
<1> SUFFICES ASSUME ~Stranded(reservation[r])
             PROVE  FALSE
  OBVIOUS
<1> TypeOK /\ Referential
  BY DEF Inv
<1>1. PICK new : new = reservation'[r]
  OBVIOUS
<1>2. /\ IsActive(new) /\ new.departure # None
      /\ \/ departure'[new.departure] = None
         \/ ~Runs(departure'[new.departure]) \/ ~ValidSegment(departure'[new.departure], new)
         \/ new.seat > departure'[new.departure].capacity
  BY <1>1 DEF Stranded, IsActive, Runs, ValidSegment, OnRoute, Forward, SegmentOf
<1>3. PICK old \in ReservationRow : old = reservation[r]
  BY <1>1, <1>2 DEF Resettled, TypeOK, IsActive
<1>4. /\ new.departure = old.departure /\ new.seat = old.seat
      /\ new.from = old.from /\ new.to = old.to /\ new.status = old.status
  <2>1. \/ new = old
        \/ \E t, c : /\ new = [old EXCEPT !.time = t, !.status = c]
                     /\ c = "CANCELLED" \/ c = old.status
    BY <1>1, <1>3 DEF Resettled
  <2>2. CASE new = old
    BY <2>2
  <2>3. CASE \E t, c : /\ new = [old EXCEPT !.time = t, !.status = c]
                       /\ c = "CANCELLED" \/ c = old.status
    <3>1. PICK t, c : /\ new = [old EXCEPT !.time = t, !.status = c]
                      /\ c = "CANCELLED" \/ c = old.status
      BY <2>3
    <3>2. new.status = c
      BY <3>1 DEF ReservationRow
    <3>3. c # "CANCELLED"
      BY <1>2, <3>2 DEF IsActive
    <3> QED BY <3>1, <3>2, <3>3 DEF ReservationRow
  <2> QED BY <2>1, <2>2, <2>3
<1>5. PICK id \in DepartureId : id = old.departure
  BY <1>2, <1>4 DEF ReservationRow
<1>6. PICK d \in DepartureRow : d = departure[id]
  BY <1>2, <1>3, <1>4, <1>5, NoneAssumption DEF Referential, TypeOK
<1>7. IsActive(old) /\ Referenced(id) /\ r \in LiveOn(id)
  BY <1>2, <1>3, <1>4, <1>5, NoneAssumption DEF IsActive, Referenced, LiveOn
<1>8. Runs(d) /\ ValidSegment(d, old) /\ ~(old.seat > d.capacity)
  BY <1>2, <1>3, <1>4, <1>5, <1>6, <1>7 DEF Stranded
<1>9. PICK after : after = departure'[id] /\ after = Edited(e, id)
  OBVIOUS
<1>10. id \in Reached(e)
  BY <1>2, <1>4, <1>5, <1>6, <1>8, <1>9, NoneAssumption
  DEF Edited, ValidSegment, OnRoute, Forward, SegmentOf
<1>11. /\ after \in DepartureRow /\ after.source = d.source
       /\ e.kind \in {"line", "ride", "extra", "cancel", "restore", "retire", "cascade"}
       /\ e.kind \notin {"line", "ride"} =>
            after.route = d.route /\ after.boarding = d.boarding /\ after.dropoff = d.dropoff
       /\ e.kind \notin {"ride", "extra"} => after.capacity = d.capacity
  BY <1>6, <1>7, <1>9, <1>10, EditedKeeps
<1>12. ~Runs(after) \/ ~ValidSegment(after, old) \/ old.seat > after.capacity
  BY <1>2, <1>4, <1>5, <1>9, <1>11, NoneAssumption
  DEF ValidSegment, OnRoute, Forward, SegmentOf
<1>13. \A ask \in Asked(e.kind) : ~(RowFault(ask, after, old) > RowFault(ask, d, old))
  BY <1>3, <1>6, <1>7, <1>9, <1>10, <1>11, NoneAssumption DEF AddsViolation
<1>14. /\ ~Runs(after) => RowFault("reachable", after, old) > RowFault("reachable", d, old)
       /\ old.seat > after.capacity =>
            RowFault("seatWithinCapacity", after, old) > RowFault("seatWithinCapacity", d, old)
       /\ ~ValidSegment(after, old) =>
            \/ RowFault("onRoute", after, old) > RowFault("onRoute", d, old)
            \/ RowFault("segmentValid", after, old) > RowFault("segmentValid", d, old)
  BY <1>8, <1>11, FaultsShow
<1>15. e.kind \notin {"line", "ride"} => ValidSegment(after, old)
  BY <1>8, <1>11
  DEF ValidSegment, OnRoute, Forward, SegmentOf, BoardingStations, DropoffStations
<1>16. e.kind \notin {"ride", "extra"} => ~(old.seat > after.capacity)
  BY <1>8, <1>11
<1>17. CASE e.kind \in {"line", "ride", "extra", "cancel"}
  BY <1>12, <1>13, <1>14, <1>15, <1>16, <1>17 DEF Asked
<1>18. CASE e.kind = "restore"
  BY <1>6, <1>8, <1>10, <1>18 DEF EditAllowed, Runs
<1>19. CASE e.kind = "retire"
  BY <1>3, <1>5, <1>7, <1>10, <1>19 DEF EditAllowed
<1>20. CASE e.kind = "cascade"
  <2>1. new.status = "CANCELLED"
    BY <1>1, <1>3, <1>5, <1>10, <1>20, NoneAssumption DEF Resettled, ReservationRow
  <2> QED BY <1>2, <2>1 DEF IsActive
<1> QED BY <1>11, <1>17, <1>18, <1>19, <1>20

(* A live passenger never ends up on a bus that is gone or does not run, without
   a seat or without a journey, but by an edit whose refusal the operator
   confirmed (prospective-write.ts): the bookings check their bus under its
   lock, and the guard scans while no booking is in flight. *)
THEOREM StrandingConfirmed == Spec => StrandingWasConfirmed
<1> DEFINE AllBooked == \A w \in Writer : Booked(w)
           Confirmed ==
             \A r \in ReservationId :
               Stranded(reservation[r])' /\ ~Stranded(reservation[r]) =>
                 \E e \in Edit :
                   /\ edit = "held" /\ e.confirmed
                   /\ departure' = [id \in DepartureId |-> Edited(e, id)]
<1>1. Inv /\ AllBooked /\ [Next]_vars => [Confirmed]_vars
  <2> SUFFICES ASSUME Inv, AllBooked, Next, NEW r \in ReservationId,
                      Stranded(reservation[r])', ~Stranded(reservation[r])
               PROVE  \E e \in Edit :
                        /\ edit = "held" /\ e.confirmed
                        /\ departure' = [id \in DepartureId |-> Edited(e, id)]
    BY DEF vars
  <2>1. ASSUME UNCHANGED <<departure, reservation>>
        PROVE  FALSE
    BY <2>1 DEF Stranded, IsActive, Runs, ValidSegment, OnRoute, Forward, SegmentOf
  <2>2. CASE \E w \in Writer : WriterStep(w)
    <3>1. PICK w \in Writer : WriterStep(w)
      BY <2>2
    <3>2. Commit(w)
      BY <2>1, <3>1, WriterSteps DEF OwnStep
    <3> QED BY <3>2, CommitStrandsNobody
  <2>3. CASE RequestEdit \/ AcquireScheduleLockExclusive \/ AbandonEdit
    BY <2>1, <2>3 DEF RequestEdit, AcquireScheduleLockExclusive, AbandonEdit
  <2>4. CASE ApplyEdit
    <3>1. PICK e \in Edit :
            /\ edit = "held" /\ EditAllowed(e)
            /\ e.confirmed \/ ~AddsViolation(e)
            /\ departure' = [id \in DepartureId |-> Edited(e, id)]
            /\ reservation' = [s \in ReservationId |-> Resettled(e, reservation[s])]
      BY <2>4 DEF ApplyEdit
    <3>2. e.confirmed
      BY <3>1, EditStrandsNobody
    <3> QED BY <3>1, <3>2
  <2> QED BY <2>2, <2>3, <2>4 DEF Next, WriterStep, Schedule
<1>2. Spec => []AllBooked
  BY SpecBooked
<1>3. Spec => []Inv
  BY SpecInv
<1>4. Spec => [][Next]_vars
  BY DEF Spec
<1>5. [][Confirmed]_vars <=> StrandingWasConfirmed
  BY DEF StrandingWasConfirmed, Confirmed
<1> HIDE DEF Confirmed, AllBooked
<1> QED BY <1>1, <1>2, <1>3, <1>4, <1>5, PTL


-----------------------------------------------------------------------------
(* What follows: every transaction is one operation of Bookings. *)

(* The station orders of the code count from 0, the stops of Bookings from 1. *)
LEMMA PositionOrder ==
  ASSUME NEW bus \in DepartureRow, NEW s \in RouteStations(bus.route)
  PROVE  /\ Committed!Position(bus, s) \in DOMAIN bus.route
         /\ RouteStationOrder(bus.route)[s] = Committed!Position(bus, s) - 1
<1>1. PICK route \in Seq(Station) : route = bus.route
  BY DEF DepartureRow
<1>2. \E i \in DOMAIN route : route[i] = s /\ \A j \in DOMAIN route : route[j] = s => j <= i
  BY <1>1, LastIndex
<1>3. Committed!Position(bus, s) =
        CHOOSE i \in DOMAIN route : route[i] = s /\ \A j \in DOMAIN route : route[j] = s => j <= i
  BY <1>1 DEF Committed!Position
<1>4. RouteStationOrder(route)[s] =
        (CHOOSE i \in DOMAIN route : route[i] = s /\ \A j \in DOMAIN route : route[j] = s => j <= i) - 1
  BY <1>1 DEF RouteStationOrder
<1> QED BY <1>1, <1>2, <1>3, <1>4

(* A valid segment is a journey that the bus makes. *)
LEMMA ValidTravels ==
  ASSUME NEW bus \in DepartureRow, NEW row, ValidSegment(bus, row)
  PROVE  Committed!Travels(bus, row)
<1>1. /\ row.from \in RouteStations(bus.route) /\ row.to \in RouteStations(bus.route)
      /\ RouteStationOrder(bus.route)[row.from] < RouteStationOrder(bus.route)[row.to]
      /\ row.from \in BoardingStations(bus) /\ row.to \in DropoffStations(bus)
  BY DEF ValidSegment, OnRoute, Forward, SegmentOf
<1>2. PICK m, n \in DOMAIN bus.route :
        /\ m = Committed!Position(bus, row.from) /\ n = Committed!Position(bus, row.to)
        /\ m - 1 < n - 1
  BY <1>1, PositionOrder
<1>3. m \in Nat /\ n \in Nat
  <2>1. bus.route \in Seq(Station)
    BY DEF DepartureRow
  <2> QED BY <1>2, <2>1
<1>4. m \in Committed!Legs(bus, row)
  BY <1>2, <1>3 DEF Committed!Legs
<1>5. Committed!OnRoute(bus, row)
  BY <1>1 DEF Committed!OnRoute, RouteStations
<1> QED BY <1>1, <1>4, <1>5 DEF Committed!Travels, BoardingStations, DropoffStations

(* Segments that do not overlap share no leg. *)
LEMMA ApartShareNoLeg ==
  ASSUME NEW bus \in DepartureRow, NEW a, NEW b, OnRoute(bus, a), OnRoute(bus, b),
         ~Overlap(bus, a, b)
  PROVE  Committed!OnRoute(bus, a) /\ Committed!Legs(bus, a) \cap Committed!Legs(bus, b) = {}
<1>1. {a.from, a.to, b.from, b.to} \subseteq RouteStations(bus.route)
  BY DEF OnRoute
<1>2. PICK af, at, bf, bt \in DOMAIN bus.route :
        /\ af = Committed!Position(bus, a.from) /\ at = Committed!Position(bus, a.to)
        /\ bf = Committed!Position(bus, b.from) /\ bt = Committed!Position(bus, b.to)
        /\ RouteStationOrder(bus.route)[a.from] = af - 1
        /\ RouteStationOrder(bus.route)[a.to] = at - 1
        /\ RouteStationOrder(bus.route)[b.from] = bf - 1
        /\ RouteStationOrder(bus.route)[b.to] = bt - 1
  BY <1>1, PositionOrder
<1>3. af \in Nat /\ at \in Nat /\ bf \in Nat /\ bt \in Nat
  <2>1. bus.route \in Seq(Station)
    BY DEF DepartureRow
  <2> QED BY <1>2, <2>1
<1>4. ~(Later(af - 1, bf - 1) < Earlier(at - 1, bt - 1))
  BY <1>2 DEF Overlap, SegmentOf, SegmentsOverlap
<1>5. ASSUME NEW n \in DOMAIN bus.route, af <= n, n < at, bf <= n, n < bt
      PROVE  FALSE
  <2>1. n \in Nat
    BY DEF DepartureRow
  <2> QED BY <1>3, <1>4, <1>5, <2>1 DEF Later, Earlier
<1>6. Committed!OnRoute(bus, a)
  BY <1>1 DEF Committed!OnRoute, RouteStations
<1> QED BY <1>2, <1>5, <1>6 DEF Committed!Legs

(* Whoever the transaction places is seated by its commit. *)
LEMMA PlacedIsSeated ==
  ASSUME Inv, NEW w \in Writer, Booked(w), Commit(w), NEW r \in Placed(w)
  PROVE  /\ Committed!Seated(reservation', r)
         /\ r \in Committed!Live(reservation')
         /\ reservation'[r].departure # None
         /\ departure[reservation'[r].departure] # None
<1>1. TypeOK /\ r \in ReservationId
  BY DEF Inv, Placed
<1>2. \A s \in ReservationId : reservation'[s] = Planned(w, s) /\ Planned(w, s) \in ReservationRow \cup {None}
  BY CommitsPlans
<1>3. PICK row : row = Planned(w, r) /\ row = reservation'[r]
  BY <1>1, <1>2
<1>4. PICK bus : bus = departure[row.departure]
  OBVIOUS
<1>5. /\ IsActive(row) /\ row.departure # None /\ bus # None
      /\ ValidSegment(bus, row) /\ row.seat <= bus.capacity
      /\ \A s \in ReservationId \ {r} :
           LET other == Planned(w, s) IN
           IsActive(other) /\ other.departure = row.departure /\ other.seat = row.seat
             => OnRoute(bus, other) /\ ~Overlap(bus, other, row)
  BY <1>3, <1>4 DEF Booked, SeatsPlanned, InOwnSeat
<1>6. row \in ReservationRow
  BY <1>1, <1>2, <1>3, <1>5 DEF IsActive
<1>7. bus \in DepartureRow
  BY <1>1, <1>4, <1>5, <1>6 DEF TypeOK, ReservationRow
<1>8. Committed!Travels(bus, row)
  BY <1>5, <1>7, ValidTravels
<1>9. ASSUME NEW s \in Committed!Live(reservation') \ {r},
             reservation'[s].departure = row.departure, reservation'[s].seat = row.seat
      PROVE  /\ Committed!OnRoute(bus, reservation'[s])
             /\ Committed!Legs(bus, reservation'[s]) \cap Committed!Legs(bus, row) = {}
  <2>1. PICK other : other = reservation'[s] /\ other = Planned(w, s) /\ s \in ReservationId \ {r}
    BY <1>2, <1>9 DEF Committed!Live
  <2>2. IsActive(other)
    BY <1>9, <2>1 DEF Committed!Live, IsActive
  <2>3. OnRoute(bus, other) /\ ~Overlap(bus, other, row) /\ OnRoute(bus, row)
    BY <1>5, <1>9, <2>1, <2>2 DEF ValidSegment
  <2> QED BY <1>7, <2>1, <2>3, ApartShareNoLeg
<1>10. Committed!Seated(reservation', r)
  BY <1>3, <1>4, <1>5, <1>8, <1>9 DEF Committed!Seated
<1>11. r \in Committed!Live(reservation')
  BY <1>1, <1>3, <1>5 DEF Committed!Live, IsActive
<1> QED BY <1>3, <1>4, <1>5, <1>10, <1>11


(* What a commit changes, row by row. *)
LEMMA CommitChanges ==
  ASSUME Inv, NEW w \in Writer, Booked(w), Commit(w), NEW r \in Committed!Changed
  PROVE  /\ r \in ReservationId /\ reservation'[r] # reservation[r]
         /\ reservation'[r] = written[w][r] /\ written[w][r] # None
         /\ reservation'[r] \in ReservationRow /\ reservation[r] \in ReservationRow \cup {None}
         /\ Entry(w, r)
<1>1. r \in ReservationId /\ reservation'[r] # reservation[r]
  BY DEF Committed!Changed
<1>2. written[w][r] # None /\ reservation'[r] = written[w][r]
  BY <1>1, CommitsPlans
<1> QED BY <1>1, <1>2 DEF Booked, Ledger, Inv, TypeOK

(* What a row written under Entry differs by, in the words of Bookings. *)
LEMMA SameButEdits ==
  ASSUME NEW r \in ReservationId, NEW F, SameBut(reservation'[r], reservation[r], F),
         reservation[r] \in ReservationRow, reservation'[r] \in ReservationRow
  PROVE  Committed!Edits(r, F)
<1>1. DOMAIN reservation[r] = Field
  BY DEF ReservationRow, Field
<1> QED BY <1>1, NoneAssumption DEF Committed!Edits, SameBut

LEMMA NothingChanged ==
  ASSUME TypeOK, NEW w \in Writer, Commit(w), Committed!Changed = {}
  PROVE  UNCHANGED Committed!committed
<1>1. reservation' = [r \in ReservationId |-> View(w, r)] /\ departure' = departure
  BY DEF Commit, schedule
<1>2. \A r \in ReservationId : reservation'[r] = reservation[r]
  BY DEF Committed!Changed
<1>3. reservation' = reservation
  BY <1>1, <1>2 DEF TypeOK
<1> QED BY <1>1, <1>3 DEF Committed!committed

LEMMA CreateBooks ==
  ASSUME Inv, NEW w \in Writer, Booked(w), Commit(w), Req(w).op = "create",
         Committed!Changed # {}
  PROVE  Committed!Book
<1> DEFINE new == {r \in Committed!Changed : reservation[r] = None}
           outbound == {reservation'[r].returnOf : r \in new}
<1>1. ASSUME NEW r \in new
      PROVE  LET bus == departure[reservation'[r].departure]
             IN /\ r \in Committed!Live(reservation')
                /\ bus # None /\ bus.lineActive /\ ~bus.cancelled /\ ~bus.dropped
                /\ reservation'[r].time = bus.time
                /\ Committed!Seated(reservation', r)
  <2>1. r \in ReservationId /\ reservation'[r] = written[w][r] /\ written[w][r] # None /\ Entry(w, r)
    BY CommitChanges
  <2>2. r \in Placed(w)
    BY <2>1 DEF Placed
  <2>3. /\ Runs(departure[reservation'[r].departure])
        /\ departure[reservation'[r].departure].lineActive
        /\ reservation'[r].time = departure[reservation'[r].departure].time
    BY <2>1 DEF Entry
  <2> QED BY <2>2, <2>3, PlacedIsSeated DEF Runs
<1>2. ASSUME NEW r \in Committed!Changed \ new
      PROVE  r \in outbound /\ Committed!Edits(r, {"marker"})
  <2>1. /\ r \in ReservationId /\ Entry(w, r) /\ reservation[r] # None
        /\ reservation'[r] = written[w][r]
        /\ reservation'[r] \in ReservationRow /\ reservation[r] \in ReservationRow
    BY CommitChanges
  <2>2. /\ SameBut(reservation'[r], reservation[r], {"marker"})
        /\ pc[w] = "commit" =>
             \E s \in ReservationId :
               written[w][s] # None /\ reservation[s] = None /\ written[w][s].returnOf = r
    BY <2>1 DEF Entry
  <2>3. PICK s \in ReservationId :
          written[w][s] # None /\ reservation[s] = None /\ written[w][s].returnOf = r
    BY <2>2 DEF Commit
  <2>4. reservation'[s] = written[w][s]
    BY <2>3, CommitsPlans
  <2>5. s \in new
    BY <2>3, <2>4 DEF Committed!Changed
  <2> QED BY <2>1, <2>2, <2>3, <2>4, <2>5, SameButEdits
<1>3. new # {}
  BY <1>2
<1> HIDE DEF new, outbound
<1> QED
  <2>1. new = {r \in Committed!Changed : reservation[r] = None}
    BY DEF new
  <2>2. outbound = {reservation'[r].returnOf : r \in new}
    BY DEF outbound
  <2> QED BY <1>1, <1>2, <1>3, <2>1, <2>2 DEF Committed!Book

LEMMA UpdateChanges ==
  ASSUME Inv, NEW w \in Writer, Booked(w), Commit(w), Req(w).op = "update"
  PROVE  Committed!Change
<1>1. TypeOK /\ LocalInv(w) /\ Ledger(w) /\ pc[w] = "commit"
  BY DEF Inv, Booked, Commit
<1>2. PICK id \in ReservationId : id = Req(w).id
  BY <1>1, RequestKinds DEF LocalInv, Shape, UpdateRequest
<1>3. written[w][id] # None /\ Entry(w, id)
  BY <1>1, <1>2, RequestKinds DEF Ledger, At, LocalInv, Shape
<1>4. PICK old, new \in ReservationRow :
        old = reservation[id] /\ new = reservation'[id] /\ new = written[w][id]
  <2>1. reservation'[id] = written[w][id]
    BY <1>3, CommitsPlans
  <2>2. reservation[id] # None
    BY <1>3 DEF Entry
  <2> QED BY <1>1, <1>3, <2>1, <2>2 DEF TypeOK
<1>5. /\ SameBut(new, old, {"passenger", "seat", "from", "to", "group", "returnOf", "marker"})
      /\ mem[w].link # None => new.returnOf = mem[w].link.of
  BY <1>2, <1>3, <1>4 DEF Entry
<1>6. id \in Placed(w)
  BY <1>2, <1>3 DEF Placed
<1>7. /\ Committed!Seated(reservation', id) /\ id \in Committed!Live(reservation')
      /\ new.departure # None
  BY <1>4, <1>6, PlacedIsSeated
<1>8. new.departure = old.departure /\ new.status = old.status
  BY <1>5 DEF SameBut, Field
<1>9. id \in Committed!Live(reservation) /\ reservation[id].departure # None
  BY <1>4, <1>7, <1>8, NoneAssumption DEF Committed!Live
<1>10. Committed!Edits(id, {"passenger", "seat", "from", "to", "group", "returnOf", "marker"})
  BY <1>4, <1>5, SameButEdits
<1>11. ASSUME NEW s \in Committed!Changed \ {id}
       PROVE  s = reservation'[id].returnOf /\ Committed!Edits(s, {"marker"})
  <2>1. /\ s \in ReservationId /\ Entry(w, s) /\ reservation'[s] = written[w][s]
        /\ reservation'[s] \in ReservationRow /\ reservation[s] \in ReservationRow \cup {None}
    BY CommitChanges
  <2>2. /\ mem[w].link # None /\ mem[w].link.of = s /\ reservation[s] # None
        /\ SameBut(reservation'[s], reservation[s], {"marker"})
    BY <1>2, <2>1 DEF Entry
  <2> QED BY <1>4, <1>5, <2>1, <2>2, SameButEdits
<1> QED BY <1>7, <1>9, <1>10, <1>11 DEF Committed!Change


LEMMA MoveChangesSeats ==
  ASSUME Inv, NEW w \in Writer, Booked(w), Commit(w), Req(w).op = "move",
         Committed!Changed # {}
  PROVE  Committed!ChangeSeats
<1>1. TypeOK /\ LocalInv(w) /\ Ledger(w) /\ pc[w] = "commit"
  BY DEF Inv, Booked, Commit
<1>2. PICK id \in ReservationId : id = Req(w).id
  BY <1>1, RequestKinds DEF LocalInv, Shape, MoveRequest
<1> DEFINE moved == {r \in ReservationId : written[w][r] # None}
           partner == mem[w].partner
<1>3. moved # {} /\ At(w, "commit", "move") /\ mem[w].todo = {}
  <2>1. PICK r \in Committed!Changed : TRUE
    OBVIOUS
  <2>2. r \in moved
    BY <2>1, CommitChanges
  <2>3. Req(w) # None
    BY <1>1, RequestKinds DEF LocalInv, Shape
  <2> QED BY <1>1, <2>2, <2>3 DEF At, LocalInv, Shape
<1>4. /\ moved = {id} \cup ({partner} \ {None})
      /\ reservation[id] # None /\ reservation[id].seat = mem[w].read.seat
      /\ mem[w].read.seat # Req(w).seat
      /\ partner # None =>
           /\ partner # id /\ reservation[partner] # None
           /\ reservation[partner].seat = Req(w).seat
           /\ reservation[partner].departure = reservation[id].departure
  BY <1>1, <1>2, <1>3 DEF Ledger, MoveAgreed
<1>5. ASSUME NEW r \in moved
      PROVE  /\ r \in ReservationId /\ reservation'[r] = written[w][r]
             /\ SameBut(reservation'[r], reservation[r], {"seat"})
             /\ reservation'[r].seat = IF r = id THEN Req(w).seat ELSE mem[w].read.seat
             /\ reservation[r] \in ReservationRow /\ reservation'[r] \in ReservationRow
             /\ Committed!Edits(r, {"seat"}) /\ Committed!Seated(reservation', r)
             /\ r \in Committed!Live(reservation)
  <2>1. r \in ReservationId /\ written[w][r] # None /\ Entry(w, r) /\ r \in Placed(w)
    BY <1>1 DEF Ledger, Placed
  <2>2. reservation'[r] = written[w][r]
    BY <2>1, CommitsPlans
  <2>3. /\ SameBut(reservation'[r], reservation[r], {"seat"})
        /\ reservation'[r].seat = IF r = id THEN Req(w).seat ELSE mem[w].read.seat
        /\ reservation[r] # None
    BY <1>2, <2>1, <2>2 DEF Entry
  <2>4. reservation[r] \in ReservationRow /\ reservation'[r] \in ReservationRow
    BY <1>1, <2>1, <2>2, <2>3 DEF TypeOK
  <2>5. Committed!Seated(reservation', r) /\ r \in Committed!Live(reservation')
    BY <2>1, PlacedIsSeated
  <2>6. r \in Committed!Live(reservation)
    BY <2>1, <2>3, <2>5 DEF Committed!Live, SameBut, Field
  <2> QED BY <2>1, <2>2, <2>3, <2>4, <2>5, <2>6, SameButEdits
<1>6. id \in moved /\ (partner # None => partner \in moved)
  BY <1>4
<1>7. Committed!Changed = moved
  <2>1. Committed!Changed \subseteq moved
    BY CommitChanges
  <2>2. ASSUME NEW r \in moved
        PROVE  r \in Committed!Changed
    <3>1. r = id \/ (partner # None /\ r = partner /\ r # id)
      BY <1>4
    <3>2. reservation'[r].seat # reservation[r].seat
      BY <1>4, <1>5, <3>1
    <3> QED BY <1>5, <3>2 DEF Committed!Changed
  <2> QED BY <2>1, <2>2
<1>8. PICK s \in moved :
        /\ moved = {id, s} /\ reservation[s].departure = reservation[id].departure
        /\ s # id => /\ reservation[s].seat = Req(w).seat
                     /\ reservation'[s].seat = mem[w].read.seat
  <2>1. CASE partner = None
    BY <1>4, <1>6, <2>1
  <2>2. CASE partner # None
    BY <1>4, <1>5, <1>6, <2>2
  <2> QED BY <2>1, <2>2
<1>9. reservation'[id].seat = Req(w).seat
  BY <1>5, <1>6
<1> HIDE DEF moved, partner
<1> QED BY <1>4, <1>5, <1>6, <1>7, <1>8, <1>9 DEF Committed!ChangeSeats

LEMMA CancelCancels ==
  ASSUME Inv, NEW w \in Writer, Booked(w), Commit(w), Req(w).op = "cancel",
         Committed!Changed # {}
  PROVE  Committed!Cancel
<1>1. PICK r \in Committed!Changed : TRUE
  OBVIOUS
<1>2. \A s \in Committed!Changed : s = Req(w).id
  BY CommitChanges DEF Entry
<1>3. Committed!Changed = {r}
  BY <1>2
<1>4. PICK old, new \in ReservationRow :
        /\ old = reservation[r] /\ new = reservation'[r] /\ new # old
        /\ SameBut(new, old, {"status"}) /\ r \in ReservationId
  <2>1. /\ r \in ReservationId /\ reservation'[r] # reservation[r] /\ Entry(w, r)
        /\ reservation'[r] = written[w][r]
        /\ reservation'[r] \in ReservationRow /\ reservation[r] \in ReservationRow \cup {None}
    BY CommitChanges
  <2>2. reservation[r] # None /\ SameBut(reservation'[r], reservation[r], {"status"})
    BY <2>1 DEF Entry
  <2> QED BY <2>1, <2>2
<1>5. old.status # new.status
  <2> SUFFICES ASSUME old.status = new.status
               PROVE  FALSE
    OBVIOUS
  <2>1. \A f \in Field : new[f] = old[f]
    BY <1>4 DEF SameBut, Field
  <2>2. new = old
    BY <2>1 DEF Field, ReservationRow
  <2> QED BY <1>4, <2>2
<1>6. new = Planned(w, r) /\ LocalInv(w)
  BY <1>4, CommitsPlans DEF Inv
<1>7. ~Gone(old)
  BY <1>4, <1>5, <1>6, NoneAssumption DEF LocalInv, OnHeldBuses, SameRoom
<1>8. r \in Committed!Live(reservation)
  BY <1>4, <1>7, NoneAssumption DEF Gone, Committed!Live, ReservationRow
<1>9. Committed!Edits(r, {"status"})
  BY <1>4, SameButEdits
<1> QED BY <1>3, <1>8, <1>9 DEF Committed!Cancel

LEMMA GroupRegroups ==
  ASSUME Inv, NEW w \in Writer, Booked(w), Commit(w), Req(w).op = "group"
  PROVE  Committed!Regroup
<1>1. ASSUME NEW r \in Committed!Changed
      PROVE  /\ r \in Committed!Live(reservation) /\ Committed!Edits(r, {"group"})
             /\ reservation'[r].group = Req(w).group /\ r \in Req(w).ids
  <2>1. /\ r \in ReservationId /\ reservation'[r] # reservation[r] /\ Entry(w, r)
        /\ reservation'[r] = written[w][r]
        /\ reservation'[r] \in ReservationRow /\ reservation[r] \in ReservationRow \cup {None}
    BY CommitChanges
  <2>2. /\ reservation[r] # None /\ SameBut(reservation'[r], reservation[r], {"group"})
        /\ IsActive(reservation[r]) /\ reservation'[r].group = Req(w).group
        /\ r \in Req(w).ids
    BY <2>1 DEF Entry
  <2> QED BY <2>1, <2>2, SameButEdits DEF Committed!Live, IsActive
<1>2. \E d \in DepartureId :
        \A r \in Req(w).ids : reservation[r] # None /\ reservation[r].departure = d
  BY DEF Booked, Ledger, GroupAgreed, Commit
<1> QED BY <1>1, <1>2 DEF Committed!Regroup

LEMMA MergeMerges ==
  ASSUME Inv, NEW w \in Writer, Booked(w), Commit(w), Req(w).op = "merge"
  PROVE  Committed!MergePassengers
<1>1. ASSUME NEW r \in Committed!Changed
      PROVE  /\ Committed!Edits(r, {"passenger"})
             /\ reservation[r].passenger = Req(w).retired
             /\ reservation'[r].passenger = Req(w).canonical
  <2>1. /\ r \in ReservationId /\ reservation'[r] # reservation[r] /\ Entry(w, r)
        /\ reservation'[r] = written[w][r]
        /\ reservation'[r] \in ReservationRow /\ reservation[r] \in ReservationRow \cup {None}
    BY CommitChanges
  <2>2. /\ reservation[r] # None /\ SameBut(reservation'[r], reservation[r], {"passenger"})
        /\ reservation[r].passenger = Req(w).retired
        /\ reservation'[r].passenger = Req(w).canonical
    BY <2>1 DEF Entry
  <2> QED BY <2>1, <2>2, SameButEdits
<1> QED BY <1>1 DEF Committed!MergePassengers


(* A reservation after an edit: only its time and its status may be new, and
   only when the edit reaches its bus. *)
LEMMA ResettledFacts ==
  ASSUME TypeOK, NEW e \in Edit, NEW old \in ReservationRow, NEW new, new = Resettled(e, old)
  PROVE  /\ DOMAIN old = Field /\ new # None
         /\ SameBut(new, old, {"time", "status"})
         /\ old.departure \notin Reached(e) => new = old
         /\ old.departure \in Reached(e) =>
              /\ old.departure \in DepartureId
              /\ Edited(e, old.departure) # None => new.time = Edited(e, old.departure).time
              /\ new.status = IF e.kind = "cascade" THEN "CANCELLED" ELSE old.status
<1>1. DOMAIN old = Field /\ old # None
  BY NoneAssumption DEF ReservationRow, Field
<1>2. Reached(e) \subseteq DepartureId
  <2>1. e.departures \subseteq DepartureId
    BY ConstantsAssumption DEF AnyEdit
  <2> QED BY <2>1 DEF Reached, OnRideOf
<1>3. CASE old.departure \notin Reached(e)
  <2>1. new = old
    BY <1>3 DEF Resettled
  <2> QED BY <1>1, <1>3, <2>1 DEF SameBut
<1>4. CASE old.departure \in Reached(e)
  <2>1. PICK t : t = IF Edited(e, old.departure) # None THEN Edited(e, old.departure).time ELSE old.time
    OBVIOUS
  <2>2. PICK c : c = IF e.kind = "cascade" THEN "CANCELLED" ELSE old.status
    OBVIOUS
  <2>3. new = [old EXCEPT !.time = t, !.status = c]
    BY <1>1, <1>4, <2>1, <2>2 DEF Resettled
  <2>4. /\ SameBut(new, old, {"time", "status"}) /\ new.time = t /\ new.status = c
        /\ DOMAIN new = Field /\ new.departure = old.departure
    BY <1>1, <2>3 DEF SameBut, Field, ReservationRow
  <2>5. t \in Nat
    BY <1>2, <1>4, <2>1, EditedType DEF DepartureRow, ReservationRow
  <2>6. new # None
    <3>1. new \in ReservationRow
      BY <2>2, <2>3, <2>5 DEF ReservationRow
    <3> QED BY <3>1, NoneAssumption
  <2> QED BY <1>1, <1>4, <2>1, <2>2, <1>2, <2>4, <2>6
<1> QED BY <1>3, <1>4

LEMMA EditIsEdit ==
  ASSUME Inv, ApplyEdit
  PROVE  Committed!EditSchedule
<1> TypeOK /\ Referential
  BY DEF Inv
<1>1. PICK e \in Edit :
        /\ departure' = [id \in DepartureId |-> Edited(e, id)]
        /\ reservation' = [r \in ReservationId |-> Resettled(e, reservation[r])]
  BY DEF ApplyEdit
<1>2. Referential'
  BY StepReferential DEF Next, Schedule
<1>3. ASSUME NEW r \in ReservationId, reservation[r] # None
      PROVE  /\ reservation[r] \in ReservationRow /\ DOMAIN reservation[r] = Field
             /\ reservation'[r] # None
             /\ SameBut(reservation'[r], reservation[r], {"time", "status"})
             /\ reservation'[r].departure = reservation[r].departure
             /\ reservation[r].departure \notin Reached(e) => reservation'[r] = reservation[r]
             /\ reservation[r].departure \in Reached(e) =>
                  /\ reservation[r].departure \in DepartureId
                  /\ Edited(e, reservation[r].departure) # None =>
                       reservation'[r].time = Edited(e, reservation[r].departure).time
                  /\ reservation'[r].status =
                       IF e.kind = "cascade" THEN "CANCELLED" ELSE reservation[r].status
  <2>1. PICK old, new : old = reservation[r] /\ new = reservation'[r]
    OBVIOUS
  <2>2. old \in ReservationRow /\ new = Resettled(e, old)
    BY <1>1, <1>3, <2>1 DEF TypeOK
  <2>3. /\ DOMAIN old = Field /\ new # None
        /\ SameBut(new, old, {"time", "status"})
        /\ old.departure \notin Reached(e) => new = old
        /\ old.departure \in Reached(e) =>
             /\ old.departure \in DepartureId
             /\ Edited(e, old.departure) # None => new.time = Edited(e, old.departure).time
             /\ new.status = IF e.kind = "cascade" THEN "CANCELLED" ELSE old.status
    BY <2>2, ResettledFacts
  <2>4. new.departure = old.departure
    BY <2>3 DEF SameBut, Field
  <2> QED BY <2>1, <2>2, <2>3, <2>4
<1>4. \A r \in ReservationId : reservation[r] = None => reservation'[r] = None
  BY <1>1 DEF Resettled
<1>5. Committed!Live(reservation') \subseteq Committed!Live(reservation)
  BY <1>3, <1>4 DEF Committed!Live
<1>6. ASSUME NEW r \in Committed!Changed
      PROVE  Committed!Edits(r, {"time", "status"}) /\ reservation[r].departure # None
  <2>1. r \in ReservationId /\ reservation'[r] # reservation[r] /\ reservation[r] # None
    BY <1>4 DEF Committed!Changed
  <2>2. reservation[r].departure \in DepartureId
    BY <1>3, <2>1
  <2> QED BY <1>3, <2>1, <2>2, NoneAssumption DEF Committed!Edits, SameBut
<1>7. ASSUME NEW r \in ReservationId, reservation[r] # None, reservation[r].departure # None
      PROVE  LET before == departure[reservation[r].departure]
                 after == departure'[reservation[r].departure]
                 told == reservation'[r].time
             IN /\ after # None
                /\ told = after.time \/ (told = reservation[r].time /\ after.time = before.time)
                /\ r \in Committed!Live(reservation) \ Committed!Live(reservation') =>
                     \A s \in Committed!Live(reservation') :
                       reservation'[s].departure # reservation[r].departure
  <2>1. PICK id \in DepartureId : id = reservation[r].departure
    BY <1>3, <1>7 DEF ReservationRow
  <2>2. departure'[id] # None /\ departure'[id] = Edited(e, id)
    BY <1>1, <1>2, <1>3, <1>7, <2>1 DEF Referential
  <2>3. CASE id \notin Reached(e)
    <3>1. reservation'[r] = reservation[r] /\ departure'[id] = departure[id]
      BY <1>3, <1>7, <2>1, <2>2, <2>3 DEF Edited
    <3> QED BY <2>1, <2>2, <3>1 DEF Committed!Live
  <2>4. CASE id \in Reached(e)
    <3>1. reservation'[r].time = departure'[id].time
      BY <1>3, <1>7, <2>1, <2>2, <2>4
    <3>2. ASSUME r \in Committed!Live(reservation) \ Committed!Live(reservation'),
                 NEW s \in Committed!Live(reservation'), reservation'[s].departure = id
          PROVE  FALSE
      <4>1. e.kind = "cascade"
        BY <1>3, <1>7, <2>1, <2>4, <3>2 DEF Committed!Live
      <4>2. s \in ReservationId /\ reservation[s] # None
        BY <1>4, <3>2 DEF Committed!Live
      <4>3. reservation'[s].status = "CANCELLED"
        BY <1>3, <2>4, <3>2, <4>1, <4>2
      <4> QED BY <3>2, <4>3 DEF Committed!Live
    <3> QED BY <2>1, <2>2, <3>1, <3>2
  <2> QED BY <2>3, <2>4
<1> QED BY <1>5, <1>6, <1>7 DEF Committed!EditSchedule

(* What becomes visible of the transactions, statement by statement interleaved
   under their locks, is one whole operation of Bookings after another: each
   commit books, changes, reseats, cancels, regroups or merges, leaving whom it
   places in a seat of a bus that nobody else has on any leg of the journey,
   and every other statement is invisible (reservationWriteTransaction). *)
THEOREM TransactionsAreOperations == Spec => ImplementsBookings
<1> DEFINE AllBooked == \A w \in Writer : Booked(w)
<1>1. Init => Committed!Init
  BY ForeignKeyAssumption DEF Init, Committed!Init
<1>2. Inv /\ AllBooked /\ [Next]_vars => [Committed!Next]_(Committed!committed)
  <2> SUFFICES ASSUME Inv, AllBooked, [Next]_vars
               PROVE  Committed!Next \/ UNCHANGED Committed!committed
    OBVIOUS
  <2> TypeOK
    BY DEF Inv
  <2>1. ASSUME NEW w \in Writer, WriterStep(w)
        PROVE  Committed!Next \/ UNCHANGED Committed!committed
    <3>1. departure' = departure /\ (reservation' = reservation \/ Commit(w))
      BY <2>1, WriterSteps DEF OwnStep
    <3>2. CASE reservation' = reservation
      BY <3>1, <3>2 DEF Committed!committed
    <3>3. CASE Commit(w) /\ Committed!Changed # {}
      <4>1. Req(w).op \in {"create", "update", "move", "cancel", "group", "merge"}
        <5>1. Req(w) \in Request
          BY <3>3 DEF Inv, LocalInv, Shape, Commit
        <5> QED BY <5>1, RequestKinds
      <4>2. \/ Committed!Book \/ Committed!Change \/ Committed!ChangeSeats
            \/ Committed!Cancel \/ Committed!Regroup \/ Committed!MergePassengers
        BY <3>3, <4>1, CreateBooks, UpdateChanges, MoveChangesSeats, CancelCancels,
           GroupRegroups, MergeMerges
      <4> QED BY <3>1, <4>2 DEF Committed!Next, Committed!Write
    <3>4. CASE Commit(w) /\ Committed!Changed = {}
      BY <3>4, NothingChanged
    <3> QED BY <3>1, <3>2, <3>3, <3>4
  <2>2. CASE RequestEdit \/ AcquireScheduleLockExclusive \/ AbandonEdit \/ UNCHANGED vars
    BY <2>2
    DEF RequestEdit, AcquireScheduleLockExclusive, AbandonEdit, vars, Committed!committed
  <2>3. CASE ApplyEdit
    BY <2>3, EditIsEdit DEF Committed!Next
  <2> QED BY <2>1, <2>2, <2>3 DEF Next, WriterStep, Schedule
<1>3. Spec => []AllBooked
  BY SpecBooked
<1> HIDE DEF AllBooked
<1> QED
  BY <1>1, <1>2, <1>3, SpecInv, PTL DEF Spec, ImplementsBookings, Committed!Spec


-----------------------------------------------------------------------------
(* What follows of NoDoubleSale: who can make two passengers meet. *)

RoutesKept ==
  \A id \in DepartureId :
    departure[id] # None /\ departure'[id] # None => departure'[id].route = departure[id].route

(* An edit that leaves every route as it is puts no two passengers in one seat. *)
LEMMA EditOnKeptRoutes ==
  ASSUME Inv, ApplyEdit, RoutesKept, NEW r \in ReservationId, NEW s \in ReservationId,
         DoubleSold(r, s)'
  PROVE  DoubleSold(r, s)
<1> TypeOK /\ Referential
  BY DEF Inv
<1>1. PICK e \in Edit :
        /\ departure' = [id \in DepartureId |-> Edited(e, id)]
        /\ reservation' = [q \in ReservationId |-> Resettled(e, reservation[q])]
  BY DEF ApplyEdit
<1>2. ASSUME NEW q \in ReservationId, IsActive(reservation'[q])
      PROVE  /\ IsActive(reservation[q]) /\ reservation[q] \in ReservationRow
             /\ reservation'[q].departure = reservation[q].departure
             /\ reservation'[q].seat = reservation[q].seat
             /\ reservation'[q].from = reservation[q].from
             /\ reservation'[q].to = reservation[q].to
  <2>1. PICK old, new : old = reservation[q] /\ new = reservation'[q] /\ new = Resettled(e, old)
    BY <1>1
  <2>2. old \in ReservationRow
    BY <1>2, <2>1 DEF TypeOK, Resettled, IsActive
  <2>3. SameBut(new, old, {"time", "status"}) /\ (new.status = old.status \/ new.status = "CANCELLED")
    BY <2>1, <2>2, ResettledFacts
  <2>4. old.status = "ACTIVE"
    BY <1>2, <2>1, <2>3 DEF IsActive
  <2> QED BY <2>1, <2>2, <2>3, <2>4, NoneAssumption DEF SameBut, Field, IsActive
<1>3. PICK a, b : a = reservation'[r] /\ b = reservation'[s]
  OBVIOUS
<1>4. PICK d : d = departure'[a.departure]
  OBVIOUS
<1>5. /\ r # s /\ IsActive(a) /\ IsActive(b)
      /\ a.departure = b.departure /\ a.departure # None /\ a.seat = b.seat
      /\ OnRoute(d, a) /\ OnRoute(d, b) /\ Overlap(d, a, b)
  BY <1>3, <1>4 DEF DoubleSold, Clash, IsActive, OnRoute, Overlap, SegmentOf
<1>6. PICK id \in DepartureId : id = a.departure
  BY <1>2, <1>3, <1>5 DEF ReservationRow
<1>7. departure[id] # None /\ departure'[id] # None
  <2>1. Referential'
    BY StepReferential DEF Next, Schedule
  <2> QED BY <1>2, <1>3, <1>5, <1>6, <2>1 DEF Referential, IsActive
<1>8. d.route = departure[id].route
  BY <1>4, <1>6, <1>7 DEF RoutesKept
<1>9. /\ OnRoute(departure[id], a) /\ OnRoute(departure[id], b) /\ Overlap(departure[id], a, b)
  BY <1>5, <1>8 DEF OnRoute, Overlap, SegmentOf
<1> QED BY <1>2, <1>3, <1>5, <1>6, <1>9 DEF DoubleSold, Clash, OnRoute, Overlap, SegmentOf

(* While no edit changes a route and none was double-sold to begin with, no seat
   is ever sold to two people aboard at once (seat-unique.ts): cancellations,
   restorations, retimings and capacity edits between the bookings make no
   difference. *)
THEOREM SoldOnce == Spec /\ SeatSoldOnce /\ [][RoutesKept]_vars => []SeatSoldOnce
<1>1. Inv /\ SeatSoldOnce /\ [Next]_vars /\ [RoutesKept]_vars => SeatSoldOnce'
  <2> SUFFICES ASSUME Inv, SeatSoldOnce, [Next]_vars, [RoutesKept]_vars,
                      NEW r \in ReservationId, NEW s \in ReservationId, DoubleSold(r, s)'
               PROVE  DoubleSold(r, s)
    BY DEF SeatSoldOnce
  <2>1. ASSUME UNCHANGED <<departure, reservation>>
        PROVE  DoubleSold(r, s)
    BY <2>1 DEF DoubleSold, Clash, IsActive, OnRoute, Overlap, SegmentOf
  <2>2. ASSUME NEW w \in Writer, WriterStep(w)
        PROVE  DoubleSold(r, s)
    <3>1. departure' = departure /\ (reservation' = reservation \/ Commit(w)) /\ LocalInv(w)
      BY <2>2, WriterSteps DEF OwnStep, Inv
    <3>2. CASE Commit(w)
      <4>1. r # s /\ Clash(reservation'[r], reservation'[s])
        BY <3>1 DEF DoubleSold, Clash, OnRoute, Overlap, SegmentOf, IsActive
      <4>2. reservation'[r] = Planned(w, r) /\ reservation'[s] = Planned(w, s)
        BY <3>2, CommitsPlans
      <4> QED BY <3>1, <4>1, <4>2 DEF LocalInv, NoNewClash, DoubleSold
    <3> QED BY <2>1, <3>1, <3>2
  <2>3. CASE RequestEdit \/ AcquireScheduleLockExclusive \/ AbandonEdit \/ UNCHANGED vars
    BY <2>1, <2>3
    DEF RequestEdit, AcquireScheduleLockExclusive, AbandonEdit, vars
  <2>4. CASE ApplyEdit
    <3>1. RoutesKept
      BY <2>4 DEF ApplyEdit, vars, RoutesKept
    <3> QED BY <2>4, <3>1, EditOnKeptRoutes
  <2> QED BY <2>2, <2>3, <2>4 DEF Next, WriterStep, Schedule
<1> QED BY <1>1, SpecInv, PTL DEF Spec

-----------------------------------------------------------------------------
(* Locks: who waits for whom. *)

(* Departures are taken in ID order, an assignment's rows are on a bus it has
   or is about to get, and a cancellation writes one row. *)
LockOrder(w) ==
  /\ pc[w] \in {"idle", "schedule", "name"} => \A d \in DepartureId : holder[d] # w
  /\ pc[w] = "lock" => \A d \in DepartureId, e \in mem[w].want : holder[d] = w => d < e
  /\ pc[w] \in {"lock", "check", "write"} /\ Req(w).op = "group" =>
       \A r \in Req(w).ids :
         \/ holder[reservation[r].departure] = w
         \/ pc[w] = "lock" /\ reservation[r].departure \in mem[w].want
  /\ At(w, "write", "cancel") => written[w] = NothingWritten

(* A transaction that has ended holds no departure. *)
LEMMA EndOrder ==
  ASSUME TypeOK, NEW w \in Writer, NEW code, End(w, code)
  PROVE  LockOrder(w)'
<1>1. pc'[w] = "idle" /\ \A d \in DepartureId : holder'[d] # w
  BY NoneAssumption DEF End, TypeOK
<1> QED BY <1>1 DEF LockOrder, At

(* The departures are named: none is held yet. *)
LEMMA NameOrder ==
  ASSUME TypeOK, NEW w \in Writer, LockOrder(w), Name(w)
  PROVE  LockOrder(w)'
<1>1. CASE \E code : Rollback(w, code)
  BY <1>1, EndOrder DEF Rollback
<1>2. \A d \in DepartureId : holder[d] # w
  BY DEF LockOrder, Name, NameCreate, NameOne, NameGroup, NameMerge, At
<1>3. ASSUME NEW m, Goto(w, "lock", m), m.request = Req(w),
             Req(w).op = "group" => m.want = {reservation[r].departure : r \in Req(w).ids}
      PROVE  LockOrder(w)'
  <2>1. /\ reservation' = reservation /\ holder' = holder
        /\ pc'[w] = "lock" /\ mem'[w] = m /\ Req(w)' = Req(w)
    BY <1>3, GotoFacts
  <2> QED BY <1>2, <1>3, <2>1 DEF LockOrder, At
<1>4. ASSUME NEW ds, NEW row
      PROVE  /\ [mem[w] EXCEPT !.want = ds].request = Req(w)
             /\ [mem[w] EXCEPT !.want = ds].want = ds
             /\ [mem[w] EXCEPT !.read = row, !.want = ds].request = Req(w)
  BY MemoryType DEF Memory, Req
<1>5. CASE NameCreate(w) \/ NameOne(w) \/ NameMerge(w)
  <2>1. Req(w).op # "group"
    BY <1>5 DEF NameCreate, NameOne, NameMerge, At
  <2> QED BY <1>1, <1>3, <1>4, <1>5, <2>1 DEF NameCreate, NameOne, NameMerge
<1>6. CASE NameGroup(w)
  BY <1>1, <1>3, <1>4, <1>6 DEF NameGroup
<1> QED BY <1>5, <1>6 DEF Name

(* The next departure is taken, the least of those wanted. *)
LEMMA TakeOrder ==
  ASSUME TypeOK, NEW w \in Writer, LockOrder(w), LockDeparture(w)
  PROVE  LockOrder(w)'
<1>1. PICK d \in mem[w].want :
        /\ \A e \in mem[w].want : d <= e
        /\ holder' = [holder EXCEPT ![d] = w]
        /\ mem' = [mem EXCEPT ![w].want = @ \ {d}]
        /\ UNCHANGED <<schedule, reservation, pc, begun, failures, written, answer>>
        /\ pc[w] = "lock"
  BY DEF LockDeparture, NextToLock
<1>2. d \in DepartureId /\ mem[w].want \subseteq DepartureId /\ DepartureId \subseteq Nat
  BY ConstantsAssumption DEF TypeOK, Memory
<1>3. mem'[w].want = mem[w].want \ {d} /\ Req(w)' = Req(w)
  BY <1>1 DEF TypeOK, Memory, Req
<1>4. \A b \in DepartureId : holder'[b] = IF b = d THEN w ELSE holder[b]
  BY <1>1, <1>2 DEF TypeOK
<1>5. \A b \in DepartureId, e \in mem'[w].want : holder'[b] = w => b < e
  BY <1>1, <1>2, <1>3, <1>4 DEF LockOrder
<1>6. Req(w).op = "group" =>
        \A r \in Req(w).ids :
          holder'[reservation[r].departure] = w \/ reservation[r].departure \in mem'[w].want
  BY <1>1, <1>2, <1>3, <1>4 DEF LockOrder, TypeOK
<1> QED BY <1>1, <1>3, <1>5, <1>6 DEF LockOrder, At
(* A step inside a transaction that has its departures. *)
Inside(w) ==
  /\ UNCHANGED <<reservation, holder>>
  /\ Req(w)' = Req(w)
  /\ pc[w] \in {"check", "slot", "stamp", "write"}
  /\ pc'[w] \in {"check", "slot", "stamp", "write", "commit"}
  /\ pc[w] \in {"slot", "stamp"} => Req(w).op # "group"
  /\ pc'[w] = "write" /\ Req(w).op = "cancel" => written'[w] = NothingWritten

LEMMA InsideOrder ==
  ASSUME NEW w \in Writer, LockOrder(w), Inside(w)
  PROVE  LockOrder(w)'
BY DEF Inside, LockOrder, At

(* The checks, the look at the slot, the stamp and the writes are such steps. *)
LEMMA OwnInside ==
  ASSUME Inv, NEW w \in Writer,
         \/ CheckItem(w) \/ CheckUpdate(w) \/ CheckMove(w) \/ CheckCancel(w) \/ CheckMany(w)
         \/ CheckSlot(w) \/ Stamp(w) \/ InsertItem(w)
         \/ WriteUpdate(w) \/ WriteSeat(w) \/ WriteCancel(w) \/ WriteMany(w)
  PROVE  Inside(w) \/ \E code : Rollback(w, code)
<1> TypeOK /\ LocalInv(w)
  BY DEF Inv
<1>1. ASSUME NEW phase \in {"slot", "write", "commit"}, NEW m, Goto(w, phase, m), m.request = Req(w),
             pc[w] = "check", Req(w).op # "create"
      PROVE  Inside(w)
  <2>1. written[w] = NothingWritten
    BY <1>1 DEF LocalInv, Shape
  <2> QED BY <1>1, <2>1, GotoFacts DEF Inside
<1>2. CASE CheckItem(w)
  <2>1. Req(w).op = "create" /\ pc[w] = "check"
    BY <1>2 DEF CheckItem, At
  <2>2. \/ \E link : Goto(w, AfterLink(link), [mem[w] EXCEPT !.link = link])
        \/ \E code : Rollback(w, code)
    BY <1>2 DEF CheckItem
  <2>3. ASSUME NEW link, Goto(w, AfterLink(link), [mem[w] EXCEPT !.link = link])
        PROVE  Inside(w)
    <3>1. AfterLink(link) \in {"slot", "write"} /\ [mem[w] EXCEPT !.link = link].request = Req(w)
      BY MemoryType DEF AfterLink, Memory, Req
    <3> HIDE DEF AfterLink
    <3> QED BY <2>1, <2>3, <3>1, GotoFacts DEF Inside
  <2> QED BY <2>2, <2>3
<1>3. CASE CheckUpdate(w)
  <2>1. Req(w).op = "update" /\ pc[w] = "check"
    BY <1>3 DEF CheckUpdate, At
  <2>2. \/ \E link, row, ids : Goto(w, AfterLink(link), [mem[w] EXCEPT !.read = row, !.link = link, !.todo = ids])
        \/ \E code : Rollback(w, code)
    BY <1>3 DEF CheckUpdate
  <2>3. ASSUME NEW link, NEW row, NEW ids,
               Goto(w, AfterLink(link), [mem[w] EXCEPT !.read = row, !.link = link, !.todo = ids])
        PROVE  Inside(w)
    <3>1. /\ AfterLink(link) \in {"slot", "write", "commit"}
          /\ [mem[w] EXCEPT !.read = row, !.link = link, !.todo = ids].request = Req(w)
      BY MemoryType DEF AfterLink, Memory, Req
    <3> HIDE DEF AfterLink
    <3> QED BY <1>1, <2>1, <2>3, <3>1
  <2> QED BY <2>2, <2>3
<1>4. CASE CheckMove(w)
  <2>1. Req(w).op = "move" /\ pc[w] = "check"
    BY <1>4 DEF CheckMove, At
  <2>2. ASSUME NEW row, NEW r, NEW rows
        PROVE  /\ [mem[w] EXCEPT !.read = row].request = Req(w)
               /\ [mem[w] EXCEPT !.read = row, !.partner = r, !.todo = rows].request = Req(w)
    BY MemoryType DEF Memory, Req
  <2>3. \/ \E row : Goto(w, "commit", [mem[w] EXCEPT !.read = row])
        \/ \E row, r, rows :
             Goto(w, "write", [mem[w] EXCEPT !.read = row, !.partner = r, !.todo = rows])
        \/ \E code : Rollback(w, code)
    BY <1>4, Zenon DEF CheckMove
  <2>4. ASSUME NEW row, Goto(w, "commit", [mem[w] EXCEPT !.read = row])
        PROVE  Inside(w)
    BY <1>1, <2>1, <2>2, <2>4
  <2>5. ASSUME NEW row, NEW r, NEW rows,
               Goto(w, "write", [mem[w] EXCEPT !.read = row, !.partner = r, !.todo = rows])
        PROVE  Inside(w)
    <3> DEFINE m == [mem[w] EXCEPT !.read = row, !.partner = r, !.todo = rows]
    <3>1. Goto(w, "write", m) /\ m.request = Req(w)
      BY <2>2, <2>5
    <3> HIDE DEF m
    <3> QED BY <1>1, <2>1, <3>1
  <2> QED BY <2>3, <2>4, <2>5, Zenon
<1>5. CASE CheckCancel(w) \/ CheckMany(w)
  <2>1. Req(w).op \in {"cancel", "group", "merge"} /\ pc[w] = "check"
    BY <1>5 DEF CheckCancel, CheckMany, At
  <2>2. ASSUME NEW row, NEW rows
        PROVE  /\ mem[w].request = Req(w)
               /\ [mem[w] EXCEPT !.todo = rows].request = Req(w)
               /\ [mem[w] EXCEPT !.read = row, !.todo = rows].request = Req(w)
    BY MemoryType DEF Memory, Req
  <2>3. \/ \E phase \in {"write", "commit"} : \E m : Goto(w, phase, m) /\ m.request = Req(w)
        \/ \E code : Rollback(w, code)
    BY <1>5, <2>2 DEF CheckCancel, CheckMany
  <2> QED BY <1>1, <2>1, <2>3
<1>6. CASE Stamp(w)
  <2>1. Req(w).op \in {"create", "update"}
    BY <1>6 DEF Stamp, LocalInv, Shape
  <2> QED BY <1>6, <2>1 DEF Stamp, Inside, TypeOK, Req
<1>7. CASE InsertItem(w)
  <2>1. Req(w).op = "create" /\ pc[w] = "write"
    BY <1>7 DEF InsertItem, At
  <2>2. /\ pc'[w] \in {"check", "commit"} /\ UNCHANGED <<reservation, holder>>
        /\ mem'[w].request = mem[w].request
    BY <1>7 DEF InsertItem, TypeOK, Memory
  <2> QED BY <2>1, <2>2 DEF Inside, Req
<1>8. CASE WriteUpdate(w) \/ WriteSeat(w) \/ WriteCancel(w) \/ WriteMany(w)
  <2>1. pc[w] = "write" /\ (Req(w).op = "cancel" => mem[w].todo = {Req(w).id})
    BY <1>8 DEF WriteUpdate, WriteSeat, WriteCancel, WriteMany, At, LocalInv, Shape
  <2>2. ASSUME NEW r \in ReservationId, NEW row, Put(w, r, row),
               Req(w).op = "cancel" => r = Req(w).id
        PROVE  Inside(w)
    <3>1. UNCHANGED <<reservation, holder>> /\ Req(w)' = Req(w)
      BY <2>2, PutMemory
    <3>2. /\ pc'[w] \in {"write", "commit"}
          /\ mem[w].todo \subseteq {r} => pc'[w] = "commit"
      BY <2>2 DEF Put, TypeOK
    <3> QED BY <2>1, <2>2, <3>1, <3>2 DEF Inside
  <2>3. WriteUpdate(w) \/ WriteCancel(w) => Req(w).id \in ReservationId
    BY RequestKinds DEF WriteUpdate, WriteCancel, At, LocalInv, Shape, UpdateRequest, CancelRequest
  <2>4. mem[w].todo \subseteq ReservationId
    BY DEF TypeOK, Memory
  <2> QED BY <1>8, <2>2, <2>3, <2>4 DEF WriteUpdate, WriteSeat, WriteCancel, WriteMany, At
<1>9. CASE CheckSlot(w)
  BY <1>9, CheckSlotFacts DEF SlotFound, Inside
<1> QED BY <1>2, <1>3, <1>4, <1>5, <1>6, <1>7, <1>8, <1>9

LEMMA OwnOrder ==
  ASSUME Inv, NEW w \in Writer, LockOrder(w), WriterStep(w)
  PROVE  LockOrder(w)'
<1> TypeOK /\ LocalInv(w)
  BY DEF Inv
<1>1. CASE \E code : End(w, code)
  BY <1>1, EndOrder
<1>2. CASE Submit(w) \/ AcquireScheduleLockShared(w)
  <2>1. /\ pc[w] \in {"idle", "schedule"} /\ pc'[w] \in {"schedule", "name"}
        /\ holder' = holder
    BY <1>2 DEF Submit, AcquireScheduleLockShared, Goto, TypeOK
  <2> QED BY <2>1 DEF LockOrder, At
<1>3. CASE Name(w)
  BY <1>3, NameOrder
<1>4. CASE LockDeparture(w)
  BY <1>4, TakeOrder
<1>5. CASE DeparturesLocked(w)
  <2>1. /\ pc[w] = "lock" /\ pc'[w] = "check" /\ mem[w].want = {}
        /\ UNCHANGED <<reservation, holder>> /\ Req(w)' = Req(w)
    BY <1>5, GotoFacts DEF DeparturesLocked, Req
  <2> QED BY <2>1 DEF LockOrder, At
<1>6. CASE \/ CheckItem(w) \/ CheckUpdate(w) \/ CheckMove(w) \/ CheckCancel(w) \/ CheckMany(w)
           \/ CheckSlot(w) \/ Stamp(w) \/ InsertItem(w)
           \/ WriteUpdate(w) \/ WriteSeat(w) \/ WriteCancel(w) \/ WriteMany(w)
  BY <1>1, <1>6, OwnInside, InsideOrder DEF Rollback
<1> QED
  BY <1>1, <1>2, <1>3, <1>4, <1>5, <1>6
  DEF WriterStep, Statement, ScheduleLockTimeout, AbortDeadlock, RefuseItem, Rollback, Fail,
      Commit
(* No other transaction's step gives w a departure. *)
LEMMA NotGiven ==
  ASSUME Inv, NEW w \in Writer, NEW x \in Writer, w # x, WriterStep(x), NEW d \in DepartureId,
         holder'[d] = w
  PROVE  holder[d] = w
<1> TypeOK
  BY DEF Inv
<1>1. CASE \E code : End(x, code)
  BY <1>1, NoneAssumption DEF End
<1>2. CASE \E phase, m : Goto(x, phase, m)
  BY <1>2 DEF Goto
<1>3. CASE LockDeparture(x)
  BY <1>3 DEF LockDeparture, TypeOK
<1>4. CASE Submit(x) \/ Stamp(x) \/ InsertItem(x)
  BY <1>4 DEF Submit, Stamp, InsertItem
<1>5. CASE \/ CheckItem(x) \/ CheckUpdate(x) \/ CheckMove(x) \/ CheckCancel(x) \/ CheckMany(x)
           \/ CheckSlot(x) \/ WriteUpdate(x) \/ WriteSeat(x) \/ WriteCancel(x) \/ WriteMany(x)
  BY <1>1, <1>5, OwnInside DEF Inside, Rollback
<1>6. CASE Name(x) \/ DeparturesLocked(x) \/ AcquireScheduleLockShared(x)
  BY <1>1, <1>2, <1>6
  DEF Name, NameCreate, NameOne, NameGroup, NameMerge, DeparturesLocked,
      AcquireScheduleLockShared, Rollback
<1> QED
  BY <1>1, <1>3, <1>4, <1>5, <1>6
  DEF WriterStep, Statement, ScheduleLockTimeout, AbortDeadlock, RefuseItem, Rollback, Fail,
      Commit

LEMMA StepOrder ==
  ASSUME Inv, NEW w \in Writer, Booked(w), LockOrder(w), [Next]_vars
  PROVE  LockOrder(w)'
<1> TypeOK /\ LocalInv(w)
  BY DEF Inv
<1>1. CASE WriterStep(w)
  BY <1>1, OwnOrder
<1>2. ASSUME NEW x \in Writer, x # w, WriterStep(x)
      PROVE  LockOrder(w)'
  <2>1. OwnStep(x) /\ (reservation' = reservation \/ Commit(x))
    BY <1>2, WriterSteps
  <2>2. \A d \in DepartureId : holder'[d] = w <=> holder[d] = w
    BY <1>2, <2>1, NotGiven DEF OwnStep
  <2>3. /\ pc'[w] = pc[w] /\ mem'[w] = mem[w] /\ written'[w] = written[w] /\ Req(w)' = Req(w)
    BY <1>2, <2>1 DEF OwnStep, Req
  <2>4. \A r \in ReservationId :
          reservation[r] # None =>
            reservation'[r] # None /\ reservation'[r].departure = reservation[r].departure
    BY <1>2, <2>1, CommitLeaves
  <2>5. ASSUME pc[w] \in {"lock", "check", "write"}, Req(w).op = "group", NEW r \in Req(w).ids
        PROVE  /\ reservation'[r].departure = reservation[r].departure
               /\ reservation[r].departure \in DepartureId
    <3>1. r \in ReservationId
      BY <2>5, RequestKinds DEF LocalInv, Shape, GroupRequest
    <3>2. reservation[r] # None /\ reservation[r].departure \in DepartureId
      BY <2>5 DEF Booked, Ledger, GroupAgreed
    <3> QED BY <2>4, <3>1, <3>2
  <2> QED BY <2>2, <2>3, <2>5 DEF LockOrder, At
<1>3. CASE ApplyEdit
  BY <1>3 DEF ApplyEdit, LockOrder, At, Inv, Frozen, InTransaction, Req
<1>4. CASE RequestEdit \/ AcquireScheduleLockExclusive \/ AbandonEdit \/ UNCHANGED vars
  BY <1>4 DEF RequestEdit, AcquireScheduleLockExclusive, AbandonEdit, vars, LockOrder, At, Req
<1> QED BY <1>1, <1>2, <1>3, <1>4 DEF Next, WriterStep, Schedule

LEMMA SpecOrder == Spec => [](\A w \in Writer : LockOrder(w))
<1> DEFINE AllOrdered == \A w \in Writer : LockOrder(w)
           AllBooked == \A w \in Writer : Booked(w)
<1>1. Init => AllOrdered
  BY NoneAssumption DEF Init, LockOrder, At
<1>2. Inv /\ AllBooked /\ AllOrdered /\ [Next]_vars => AllOrdered'
  BY StepOrder
<1>3. Spec => []AllBooked
  BY SpecBooked
<1> HIDE DEF AllOrdered, AllBooked
<1>4. Spec => []AllOrdered
  BY <1>1, <1>2, <1>3, SpecInv, PTL DEF Spec
<1> QED BY <1>4 DEF AllOrdered
(* A transaction without a link or a merge to make that waits in its write
   phase waits for a row of a bus it holds. *)
LEMMA RowWait ==
  ASSUME Inv, NEW w \in Writer, Booked(w), LockOrder(w), mem[w].link = None,
         Req(w).op # "merge", pc[w] # "lock", NEW x \in WaitsFor(w)
  PROVE  /\ x \in Writer \ {w}
         /\ \E r \in ReservationId :
              /\ written[x][r] # None /\ reservation[r] # None
              /\ reservation[r].departure # None =>
                   reservation[r].departure \in DepartureId /\ holder[reservation[r].departure] = w
<1> TypeOK /\ LocalInv(w)
  BY DEF Inv
<1>1. /\ pc[w] = "write" /\ Req(w).op \in {"update", "move", "cancel", "group"}
      /\ \E r \in mem[w].todo : x \in RowBlockers(w, r)
  <2>1. pc[w] \notin {"slot", "stamp"}
    BY DEF LocalInv, Shape
  <2>2. pc[w] = "write" /\ ~At(w, "write", "create")
    BY <2>1 DEF WaitsFor, At
  <2>3. Req(w) # None /\ Req(w).op \in {"update", "move", "cancel", "group"}
    BY <2>2, RequestKinds, NoneAssumption, ConstantsAssumption DEF LocalInv, Shape, At
  <2>4. Req(w).op = "update" => mem[w].todo = {Req(w).id}
    BY <2>2 DEF LocalInv, Shape
  <2>5. CASE Req(w).op = "update"
    BY <2>1, <2>2, <2>3, <2>4, <2>5 DEF WaitsFor, At
  <2>6. CASE Req(w).op \in {"move", "cancel"}
    BY <2>1, <2>2, <2>3, <2>6 DEF WaitsFor, At
  <2>7. CASE Req(w).op = "group"
    BY <2>1, <2>2, <2>3, <2>7 DEF WaitsFor, At
  <2> QED BY <2>2, <2>3, <2>5, <2>6, <2>7
<1>2. PICK r \in mem[w].todo : x \in Writer \ {w} /\ written[x][r] # None
  BY <1>1 DEF RowBlockers
<1>3. r \in ReservationId /\ written[w][r] = None
  BY <1>2 DEF Inv, RowsExclusive, TypeOK, Memory
<1>4. View(w, r) = reservation[r] /\ reservation[r] # None
  BY <1>3 DEF View, LocalInv, TodoExists
<1>5. reservation[r].departure \in DepartureId \cup {None}
  BY <1>3, <1>4 DEF TypeOK, ReservationRow
<1>6. CASE Req(w).op = "group"
  BY <1>1, <1>2, <1>3, <1>4, <1>5, <1>6 DEF LockOrder, Booked, Ledger, GroupAgreed
<1>7. CASE Req(w).op \in {"update", "move", "cancel"}
  <2>1. mem[w].read # None /\ reservation[r].departure = mem[w].read.departure
    BY <1>4, <1>7 DEF LocalInv, TodoExists
  <2>2. OneRowRequest(w)
    BY <1>1, <1>7, RequestKinds, NoneAssumption, ConstantsAssumption DEF OneRowRequest, LocalInv, Shape
  <2> QED BY <1>1, <1>2, <1>3, <1>4, <1>5, <2>1, <2>2 DEF LocalInv, ItsBus
<1> QED BY <1>1, <1>6, <1>7

(* What such a transaction has written when it waits is on a bus it holds. *)
LEMMA RowHeld ==
  ASSUME Inv, NEW x \in Writer, Booked(x), LockOrder(x), mem[x].link = None,
         Req(x).op # "merge", WaitsFor(x) # {},
         NEW r \in ReservationId, written[x][r] # None, reservation[r] # None
  PROVE  reservation[r].departure # None /\ holder[reservation[r].departure] = x
<1> TypeOK /\ LocalInv(x)
  BY DEF Inv
<1>1. pc[x] = "write" /\ Req(x).op \in {"update", "move", "group"}
  <2>1. pc[x] \notin {"slot", "stamp", "lock"}
    BY DEF LocalInv, Shape, NothingWritten
  <2>2. pc[x] = "write" /\ ~At(x, "write", "create")
    BY <2>1 DEF WaitsFor, At
  <2>3. Req(x) # None /\ Req(x).op \in {"update", "move", "cancel", "group"}
    BY <2>2, RequestKinds, NoneAssumption, ConstantsAssumption DEF LocalInv, Shape, At
  <2>4. Req(x).op # "cancel"
    BY <2>2, <2>3 DEF LockOrder, At, NothingWritten
  <2> QED BY <2>2, <2>3, <2>4
<1>2. Entry(x, r)
  BY DEF Booked, Ledger
<1>3. CASE Req(x).op = "group"
  <2>1. r \in Req(x).ids
    BY <1>2, <1>3 DEF Entry
  <2>2. reservation[r].departure \in DepartureId
    BY <1>1, <1>3, <2>1 DEF Booked, Ledger, GroupAgreed
  <2> QED BY <1>1, <1>3, <2>1, <2>2, NoneAssumption DEF LockOrder
<1>4. CASE Req(x).op \in {"update", "move"}
  <2>1. Req(x).op = "update" => r = Req(x).id
    BY <1>2 DEF Entry
  <2>2. r \in Placed(x)
    BY <1>4, <2>1 DEF Placed
  <2>3. /\ Planned(x, r).departure # None /\ holder[Planned(x, r).departure] = x
        /\ Planned(x, r) # None
    BY <2>2 DEF Booked, SeatsPlanned, InOwnSeat, IsActive
  <2>4. Planned(x, r).departure = reservation[r].departure
    BY <2>3 DEF LocalInv, OnHeldBuses
  <2> QED BY <2>3, <2>4
<1> QED BY <1>1, <1>3, <1>4

(* In a circle of such transactions each wants a bus that another holds. *)
LEMMA CircleOfBuses ==
  ASSUME Inv, \A w \in Writer : Booked(w) /\ LockOrder(w),
         NEW S \in SUBSET Writer, Deadlocked(S),
         \A w \in S : Req(w).op # "merge" /\ mem[w].link = None,
         NEW w \in S
  PROVE  /\ pc[w] = "lock"
         /\ \E d \in NextToLock(w) : holder[d] \in S
<1>1. PICK x \in WaitsFor(w) : x \in S
  BY DEF Deadlocked
<1>2. CASE pc[w] # "lock"
  <2>1. /\ x # w
        /\ \E r \in ReservationId :
             /\ written[x][r] # None /\ reservation[r] # None
             /\ reservation[r].departure # None => holder[reservation[r].departure] = w
    BY <1>1, <1>2, RowWait
  <2>2. PICK r \in ReservationId :
          /\ written[x][r] # None /\ reservation[r] # None
          /\ reservation[r].departure # None => holder[reservation[r].departure] = w
    BY <2>1
  <2>3. WaitsFor(x) # {}
    BY <1>1 DEF Deadlocked
  <2>4. reservation[r].departure # None /\ holder[reservation[r].departure] = x
    BY <1>1, <2>2, <2>3, RowHeld
  <2> QED BY <2>1, <2>2, <2>4
<1>3. CASE pc[w] = "lock"
  <2>1. WaitsFor(w) = {holder[d] : d \in NextToLock(w)} \ {None}
    BY <1>3 DEF WaitsFor, At
  <2> QED BY <1>1, <1>3, <2>1
<1> QED BY <1>2, <1>3
(* The buses wanted around such a circle only ever get larger. *)
LEMMA NoCircle ==
  ASSUME Inv, \A w \in Writer : Booked(w) /\ LockOrder(w),
         NEW S \in SUBSET Writer, Deadlocked(S),
         \A w \in S : Req(w).op # "merge" /\ mem[w].link = None
  PROVE  FALSE
<1> DEFINE F == [w \in S |-> CHOOSE d \in NextToLock(w) : holder[d] \in S]
           Beyond(w) == {x \in S : F[x] > F[w]}
<1>1. \A w \in S : /\ pc[w] = "lock"
                   /\ F[w] \in NextToLock(w) /\ holder[F[w]] \in S
  <2> SUFFICES ASSUME NEW w \in S
               PROVE  /\ pc[w] = "lock"
                      /\ F[w] \in NextToLock(w) /\ holder[F[w]] \in S
    OBVIOUS
  <2>1. pc[w] = "lock" /\ \E d \in NextToLock(w) : holder[d] \in S
    BY CircleOfBuses
  <2>2. F[w] = CHOOSE d \in NextToLock(w) : holder[d] \in S
    OBVIOUS
  <2> HIDE DEF F
  <2> QED BY <2>1, <2>2
<1> HIDE DEF F
<1>2. \A w \in S : F[w] \in mem[w].want /\ F[w] \in DepartureId /\ F[w] \in Nat
  BY <1>1, ConstantsAssumption DEF NextToLock, Inv, TypeOK, Memory
<1>3. \A w \in S : F[w] < F[holder[F[w]]]
  BY <1>1, <1>2 DEF LockOrder
<1>4. \A w \in S : IsFiniteSet(Beyond(w)) /\ Cardinality(Beyond(w)) \in Nat
  BY WriterAssumption, FS_Subset, FS_CardinalityType
<1> DEFINE T == {Cardinality(Beyond(w)) : w \in S}
<1>5. PICK w \in S : \A x \in S : Cardinality(Beyond(w)) <= Cardinality(Beyond(x))
  <2>1. T \in SUBSET Nat /\ T # {}
    BY <1>4 DEF Deadlocked
  <2>2. PICK n \in T : \A m \in T : n <= m
    BY <2>1, NatMin
  <2>3. PICK w \in S : n = Cardinality(Beyond(w))
    BY <2>2
  <2>4. \A x \in S : Cardinality(Beyond(x)) \in T
    OBVIOUS
  <2> HIDE DEF Beyond, T
  <2> QED BY <2>2, <2>3, <2>4
<1>6. PICK x \in S : x = holder[F[w]] /\ F[w] < F[x]
  BY <1>1, <1>3
<1>7. Beyond(x) \in SUBSET Beyond(w) /\ x \in Beyond(w) /\ x \notin Beyond(x)
  BY <1>2, <1>6
<1> HIDE DEF Beyond
<1>8. Cardinality(Beyond(x)) < Cardinality(Beyond(w))
  <2>1. /\ Cardinality(Beyond(x)) <= Cardinality(Beyond(w))
        /\ Cardinality(Beyond(w)) = Cardinality(Beyond(x)) => Beyond(w) = Beyond(x)
    BY <1>4, <1>7, FS_Subset
  <2> QED BY <1>4, <1>7, <2>1
<1> QED BY <1>4, <1>5, <1>8

(* Bookings, updates, moves, cancellations and assignments never wait for each
   other in a circle, for any number of them: only one that links a return leg
   or merges passengers, and so writes a row of a bus it has not locked, can
   close one (departure-lock.ts). *)
THEOREM LocksInOrder == Spec => []NoLockCycle
<1> DEFINE AllBooked == \A w \in Writer : Booked(w)
           AllOrdered == \A w \in Writer : LockOrder(w)
<1>1. Inv /\ AllBooked /\ AllOrdered => NoLockCycle
  BY NoCircle DEF NoLockCycle
<1>2. Spec => []AllBooked
  BY SpecBooked
<1>3. Spec => []AllOrdered
  BY SpecOrder
<1> HIDE DEF AllBooked, AllOrdered
<1> QED BY <1>1, <1>2, <1>3, SpecInv, PTL
=============================================================================
