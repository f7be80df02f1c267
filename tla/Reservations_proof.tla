------------------------ MODULE Reservations_proof ------------------------
(***************************************************************************)
(* What holds of Reservations whatever its constants: every variable keeps *)
(* its type, and no transaction sells a seat twice.                        *)
(*                                                                         *)
(* The argument is local.  For each writer, LocalInv says what its own     *)
(* locks buy it: the rows it has written or is about to write (Planned)    *)
(* take or free seats only on departures it holds, and among them no seat  *)
(* is taken twice that was not taken twice before.  A step of another      *)
(* writer keeps it because that writer's own seat changes are on other     *)
(* departures; an edit keeps it because it runs when no writer does.       *)
(***************************************************************************)
EXTENDS Reservations, RouteSegment_proof, TLAPS

-----------------------------------------------------------------------------
(* The inductive invariant. *)

(* An edit holds the schedule lock only while no transaction is open. *)
Frozen == edit = "held" => \A w \in Writer : ~InTransaction(w)

(* No row is written by two open transactions. *)
RowsExclusive ==
  \A w, x \in Writer, r \in ReservationId :
    written[w][r] # None /\ written[x][r] # None => w = x

(* A reservation's departure is stored. *)
Referential ==
  \A r \in ReservationId :
    reservation[r] # None /\ reservation[r].departure # None
      => departure[reservation[r].departure] # None

(* What a transaction remembers in each of its phases. *)
Shape(w) ==
  /\ pc[w] # "idle" => Req(w) \in Request /\ begun[w] # 0
  /\ pc[w] \in {"idle", "schedule", "name", "lock"} =>
       written[w] = NothingWritten /\ mem[w].made = <<>>
  /\ pc[w] = "check" /\ Req(w).op # "create" => written[w] = NothingWritten
  /\ pc[w] \notin {"slot", "stamp", "write"} => mem[w].todo = {}
  /\ pc[w] \notin {"slot", "stamp", "write", "commit"} => mem[w].link = None
  /\ mem[w].todo # {} => Req(w).op # "create"
  /\ pc[w] \in {"slot", "stamp", "write"} /\ Req(w).op \in {"update", "cancel"} =>
       mem[w].todo = {Req(w).id}
  /\ pc[w] \in {"slot", "stamp"} => mem[w].link # None /\ Req(w).op \in {"create", "update"}

(* The outbound leg of a settled link exists. *)
LinkExists(w) == mem[w].link # None => View(w, mem[w].link.of) # None

(* The rows still to be written exist, on the bus the request is about. *)
TodoExists(w) ==
  \A r \in mem[w].todo :
    /\ View(w, r) # None
    /\ Req(w).op \in {"update", "move", "cancel"} =>
         mem[w].read # None /\ View(w, r).departure = mem[w].read.departure

OneRowRequest(w) == Req(w) # None /\ Req(w).op \in {"update", "move", "cancel"}

(* A request about one reservation locks the bus that reservation is on, and
   the reservation stays on it. *)
ItsBus(w) ==
  OneRowRequest(w) =>
    /\ pc[w] \in {"lock", "check", "slot", "stamp", "write"} =>
         mem[w].read # None /\ (mem[w].read.departure = None => Req(w).op = "cancel")
    /\ pc[w] \in {"lock", "check"} =>
         /\ reservation[Req(w).id] # None
         /\ reservation[Req(w).id].departure = mem[w].read.departure
    /\ pc[w] = "lock" =>
         \/ mem[w].read.departure \in mem[w].want \cup {None}
         \/ holder[mem[w].read.departure] = w
    /\ pc[w] \in {"check", "slot", "stamp", "write"} /\ mem[w].read.departure # None =>
         holder[mem[w].read.departure] = w

(* A batch locks the bus of every item. *)
EveryBus(w) ==
  Req(w) # None /\ Req(w).op = "create" /\ pc[w] \in {"lock", "check", "slot", "stamp", "write"} =>
    /\ \A i \in DOMAIN Req(w).items :
         LET d == NamedDeparture(Req(w).items[i]) IN
         /\ d \in DepartureId
         /\ departure[d] # None =>
              holder[d] = w \/ (pc[w] = "lock" /\ d \in mem[w].want)
    /\ pc[w] # "lock" => Len(mem[w].made) < Len(Req(w).items)
    /\ pc[w] \in {"slot", "stamp", "write"} => departure[NamedDeparture(CurrentItem(w))] # None

(* What a transaction that remembers m has yet to make of the row it sees, and
   a reservation as it will be once w has written the rest of its rows. *)
PlannedRow(m, r, row) ==
  IF r \notin m.todo THEN row
  ELSE CASE m.request.op = "update" -> UpdatedRow(m.request, row, m.link)
         [] m.request.op = "move"   ->
              [row EXCEPT !.seat = IF r = m.request.id THEN m.request.seat ELSE m.read.seat]
         [] OTHER                   -> row

Planned(w, r) == PlannedRow(mem[w], r, View(w, r))

(* Two versions of a reservation that take up the same room, or none. *)
SameRoom(a, b) ==
  \/ a = None /\ b = None
  \/ /\ a # None /\ b # None
     /\ a.departure = b.departure /\ a.seat = b.seat
     /\ a.from = b.from /\ a.to = b.to /\ a.status = b.status

(* Cancelled. *)
Gone(row) == row # None /\ row.status = "CANCELLED"

(* w changes the room a reservation takes up only while it is live and on a
   stored departure that w holds, and never puts it on another departure. *)
OnHeldBuses(w) ==
  \A r \in ReservationId :
    Planned(w, r) # None =>
      /\ reservation[r] # None => Planned(w, r).departure = reservation[r].departure
      /\ \/ SameRoom(Planned(w, r), reservation[r])
         \/ /\ ~Gone(reservation[r])
            /\ \/ Planned(w, r).departure = None
               \/ /\ holder[Planned(w, r).departure] = w
                  /\ departure[Planned(w, r).departure] # None

(* Committing w as planned sells no seat twice. *)
NoNewClash(w) ==
  \A r, s \in ReservationId :
    r # s /\ Clash(Planned(w, r), Planned(w, s)) => Clash(reservation[r], reservation[s])

LocalInv(w) ==
  /\ Shape(w) /\ LinkExists(w) /\ TodoExists(w)
  /\ ItsBus(w) /\ EveryBus(w)
  /\ OnHeldBuses(w) /\ NoNewClash(w)

Inv ==
  /\ TypeOK /\ Frozen /\ RowsExclusive /\ Referential
  /\ \A w \in Writer : LocalInv(w)

-----------------------------------------------------------------------------
(* Types of the helpers. *)

(* The operation says which endpoint's record a request is. *)
LEMMA RequestKinds ==
  ASSUME NEW q \in Request
  PROVE  /\ q \in AnyRequest
         /\ q # None
         /\ q.op \in {"create", "update", "move", "cancel", "group", "merge"}
         /\ q.op = "create" => q \in CreateRequest /\ ValidBatch(q.items)
         /\ q.op = "update" => q \in UpdateRequest
         /\ q.op = "move"   => q \in MoveRequest
         /\ q.op = "cancel" => q \in CancelRequest
         /\ q.op = "group"  => q \in GroupRequest
         /\ q.op = "merge"  => q \in MergeRequest
<1>1. q \in AnyRequest /\ q # None
  BY ConstantsAssumption, NoneAssumption
<1>2. q.op = "create" => ValidBatch(q.items)
  BY ConstantsAssumption
<1> QED
  BY <1>1, <1>2
  DEF AnyRequest, CreateRequest, UpdateRequest, MoveRequest, CancelRequest,
      GroupRequest, MergeRequest

(* A statement reads a whole row or none. *)
LEMMA ViewType ==
  ASSUME TypeOK, NEW w \in Writer, NEW r \in ReservationId
  PROVE  View(w, r) \in ReservationRow \cup {None}
BY DEF TypeOK, View

(* What a transaction remembers has its type. *)
LEMMA MemoryType ==
  ASSUME TypeOK, NEW w \in Writer
  PROVE  mem[w] \in Memory
BY DEF TypeOK

(* A step to another phase keeps the types when what it remembers is typed. *)
LEMMA GotoType ==
  ASSUME TypeOK, NEW w \in Writer, NEW phase \in Phase, NEW m \in Memory, Goto(w, phase, m)
  PROVE  TypeOK'
BY DEF TypeOK, Goto, schedule

(* A transaction that has ended remembers nothing. *)
LEMMA BlankType == Blank \in Memory
BY DEF Blank, Memory

(* A transaction that ends keeps the types. *)
LEMMA RollbackType ==
  ASSUME TypeOK, NEW w \in Writer, NEW code \in Answer, Rollback(w, code)
  PROVE  TypeOK'
BY BlankType DEF TypeOK, Rollback, End, schedule, NothingWritten, Phase

(* A step that writes a whole row keeps the types. *)
LEMMA PutType ==
  ASSUME TypeOK, NEW w \in Writer, NEW r \in ReservationId, NEW row \in ReservationRow,
         Put(w, r, row)
  PROVE  TypeOK'
<1>1. mem' \in [Writer -> Memory]
  BY ZenonT(60) DEF TypeOK, Put, Memory
<1>2. pc' \in [Writer -> Phase] /\ written' \in [Writer -> [ReservationId -> ReservationRow \cup {None}]]
  BY DEF TypeOK, Put, Phase
<1> QED BY <1>1, <1>2 DEF TypeOK, Put, schedule

(* A link settled on a reservation that exists is a whole link. *)
LEMMA LinkType ==
  ASSUME TypeOK, NEW w \in Writer, begun[w] # 0, NEW o \in ReservationId \cup {None},
         o # None => Exists(w, o)
  PROVE  /\ LinkOrNone(w, o) \in Link \cup {None}
         /\ LinkOrNone(w, o) # None => o # None /\ LinkOrNone(w, o).of = o
<1>1. CASE o = None
  BY <1>1 DEF LinkOrNone
<1>2. CASE o # None
  <2>1. View(w, o) \in ReservationRow
    BY <1>2, ViewType DEF Exists
  <2>2. <<w, begun[w]>> \in Marker
    BY DEF Marker, TypeOK
  <2>3. LinkTo(w, o) \in Link /\ LinkTo(w, o).of = o
    BY <1>2, <2>1, <2>2 DEF LinkTo, Link, ReservationRow
  <2> QED BY <1>2, <2>3 DEF LinkOrNone
<1> QED BY <1>1, <1>2

(* The batch item a transaction is at, and the outbound leg it names. *)
LEMMA ItemType ==
  ASSUME TypeOK, NEW w \in Writer, Shape(w), EveryBus(w),
         At(w, "check", "create") \/ At(w, "stamp", "create") \/ At(w, "write", "create")
  PROVE  /\ CurrentItem(w) \in Item
         /\ OutboundOf(w, CurrentItem(w)) \in ReservationId \cup {None}
         /\ NamedDeparture(CurrentItem(w)) \in DepartureId
         /\ departure[NamedDeparture(CurrentItem(w))] # None
              => holder[NamedDeparture(CurrentItem(w))] = w
<1> DEFINE n == Len(mem[w].made) + 1
<1>1. Req(w) \in CreateRequest /\ ValidBatch(Req(w).items)
  BY RequestKinds DEF Shape, At
<1>2. mem[w].made \in Seq(ReservationId)
  BY DEF TypeOK, Memory
<1>3. n \in DOMAIN Req(w).items
  BY <1>1, <1>2 DEF EveryBus, At, CreateRequest
<1>4. CurrentItem(w) = Req(w).items[n] /\ CurrentItem(w) \in Item
  BY <1>1, <1>3 DEF CurrentItem, CreateRequest
<1>5. Req(w).items[n].returnOfIndex < n
  BY <1>1, <1>3 DEF ValidBatch
<1>6. OutboundOf(w, CurrentItem(w)) \in ReservationId \cup {None}
  <2>1. CASE CurrentItem(w).returnOfIndex > 0
    <3>1. CurrentItem(w).returnOfIndex \in 1..Len(mem[w].made)
      BY <1>2, <1>4, <1>5, <2>1 DEF Item
    <3> QED BY <1>2, <2>1, <3>1 DEF OutboundOf
  <2>2. CASE ~(CurrentItem(w).returnOfIndex > 0)
    BY <1>4, <2>2 DEF OutboundOf, Item
  <2> QED BY <2>1, <2>2
<1>7. /\ NamedDeparture(CurrentItem(w)) \in DepartureId
      /\ departure[NamedDeparture(CurrentItem(w))] # None
           => holder[NamedDeparture(CurrentItem(w))] = w
  BY <1>3, <1>4 DEF EveryBus, At
<1> QED BY <1>4, <1>6, <1>7

-----------------------------------------------------------------------------
(* Every step keeps the types. *)

(* A request that is sent keeps the types. *)
LEMMA SubmitType ==
  ASSUME TypeOK, NEW w \in Writer, Submit(w)
  PROVE  TypeOK'
<1>1. PICK q \in Request : mem' = [mem EXCEPT ![w].request = q]
  BY DEF Submit
<1>2. q \in AnyRequest
  BY RequestKinds
<1>3. mem' \in [Writer -> Memory]
  BY ZenonT(60), <1>1, <1>2 DEF TypeOK, Memory
<1>4. begun' \in [Writer -> 0..MaxTx]
  BY ConstantsAssumption DEF TypeOK, Submit
<1> QED BY <1>3, <1>4 DEF TypeOK, Submit, schedule, Phase, Answer

(* The first reads name stored departures. *)
LEMMA NameType ==
  ASSUME TypeOK, NEW w \in Writer, Shape(w), Name(w)
  PROVE  TypeOK'
<1> DEFINE wanting(ds) == [mem[w] EXCEPT !.want = ds]
<1>0. \A ds \in SUBSET DepartureId : wanting(ds) \in Memory
  BY MemoryType DEF Memory
<1>1. CASE NameCreate(w)
  <2>1. CASE \E ds \in SUBSET DepartureId : Goto(w, "lock", wanting(ds))
    BY <1>0, <2>1, GotoType DEF Phase
  <2>2. CASE Rollback(w, "refused")
    BY <2>2, RollbackType DEF Answer
  <2> QED BY <1>1, <2>1, <2>2 DEF NameCreate
<1>2. CASE NameOne(w)
  <2> DEFINE row == reservation[Req(w).id]
  <2>1. row \in ReservationRow \cup {None}
    BY <1>2, RequestKinds
    DEF NameOne, At, Shape, TypeOK, UpdateRequest, MoveRequest, CancelRequest
  <2>2. CASE row # None /\ Goto(w, "lock", [mem[w] EXCEPT !.read = row, !.want = {row.departure} \ {None}])
    <3>1. row \in ReservationRow /\ {row.departure} \ {None} \in SUBSET DepartureId
      BY <2>1, <2>2 DEF ReservationRow
    <3>2. mem[w] \in Memory
      BY DEF TypeOK
    <3> HIDE DEF row
    <3>3. [mem[w] EXCEPT !.read = row, !.want = {row.departure} \ {None}] \in Memory
      BY <3>1, <3>2 DEF Memory
    <3> QED BY <2>2, <3>3, GotoType DEF Phase, row
  <2>3. CASE Rollback(w, "refused")
    BY <2>3, RollbackType DEF Answer
  <2> QED BY <1>2, <2>2, <2>3 DEF NameOne
<1>3. CASE NameGroup(w)
  <2> DEFINE ids == Req(w).ids
  <2>1. CASE /\ \E d \in DepartureId : \A r \in ids : reservation[r].departure = d
             /\ Goto(w, "lock", wanting({reservation[r].departure : r \in ids}))
    <3>1. {reservation[r].departure : r \in ids} \in SUBSET DepartureId
      BY <2>1
    <3> QED BY <1>0, <2>1, <3>1, GotoType DEF Phase
  <2>2. CASE Rollback(w, "refused")
    BY <2>2, RollbackType DEF Answer
  <2> QED BY <1>3, <2>1, <2>2 DEF NameGroup
<1>4. CASE NameMerge(w)
  BY <1>0, <1>4, GotoType DEF NameMerge, Phase
<1> QED BY <1>1, <1>2, <1>3, <1>4 DEF Name

(* A row lock is held by the transaction that took it. *)
LEMMA LockType ==
  ASSUME TypeOK, NEW w \in Writer, LockDeparture(w)
  PROVE  TypeOK'
<1>1. PICK d \in NextToLock(w) :
        /\ holder' = [holder EXCEPT ![d] = w]
        /\ mem' = [mem EXCEPT ![w].want = @ \ {d}]
  BY DEF LockDeparture
<1>2. d \in DepartureId
  BY DEF NextToLock, TypeOK, Memory
<1>3. mem' \in [Writer -> Memory]
  BY ZenonT(60), <1>1 DEF TypeOK, Memory
<1> QED BY <1>1, <1>2, <1>3 DEF TypeOK, LockDeparture, schedule

(* An item that passes its checks has a whole link or none. *)
LEMMA CheckItemType ==
  ASSUME TypeOK, NEW w \in Writer, Shape(w), EveryBus(w), CheckItem(w)
  PROVE  TypeOK'
<1> DEFINE item == CurrentItem(w)
           o == OutboundOf(w, item)
           link == LinkOrNone(w, o)
<1>1. CASE /\ o # None => Exists(w, o)
           /\ Goto(w, AfterLink(link), [mem[w] EXCEPT !.link = link])
  <2>1. o \in ReservationId \cup {None} /\ begun[w] # 0
    BY ItemType DEF CheckItem, At, Shape
  <2>2. link \in Link \cup {None}
    BY <1>1, <2>1, LinkType
  <2> HIDE DEF link
  <2>3. [mem[w] EXCEPT !.link = link] \in Memory /\ AfterLink(link) \in Phase
    BY <2>2, MemoryType DEF Memory, AfterLink, Phase
  <2> QED BY <1>1, <2>3, GotoType
<1>2. CASE Rollback(w, "refused")
  BY <1>2, RollbackType DEF Answer
<1> QED BY <1>1, <1>2 DEF CheckItem, LinkAllowed

(* What an update settles on is a reservation or nothing. *)
LEMMA OutboundType ==
  ASSUME NEW q \in UpdateRequest, NEW row \in ReservationRow
  PROVE  OutboundToValidate(q, row) \in ReservationId \cup {None}
BY DEF OutboundToValidate, UpdateRequest, ReservationRow

(* An update remembers the whole reservation it has read again. *)
LEMMA CheckUpdateType ==
  ASSUME TypeOK, NEW w \in Writer, Shape(w), ItsBus(w), CheckUpdate(w)
  PROVE  TypeOK'
<1> DEFINE q == Req(w)
           row == Reread(w)
           o == OutboundToValidate(q, row)
           link == LinkOrNone(w, o)
           m == [mem[w] EXCEPT !.read = row, !.link = link, !.todo = {q.id}]
<1>1. q \in UpdateRequest /\ begun[w] # 0
  BY RequestKinds DEF CheckUpdate, At, Shape
<1>2. CASE /\ o # None => Exists(w, o)
           /\ Goto(w, AfterLink(link), m)
  <2>1. row \in ReservationRow
    <3>1. reservation[q.id] # None
      BY DEF CheckUpdate, At, ItsBus, OneRowRequest
    <3> QED BY <1>1, <3>1, ViewType DEF Reread, View, UpdateRequest
  <2>2. link \in Link \cup {None}
    BY <1>1, <1>2, <2>1, OutboundType, LinkType
  <2>3. {q.id} \in SUBSET ReservationId
    BY <1>1 DEF UpdateRequest
  <2> HIDE DEF link, row, q
  <2>4. m \in Memory /\ AfterLink(link) \in Phase
    BY <2>1, <2>2, <2>3, MemoryType DEF Memory, AfterLink, Phase
  <2> QED BY <1>2, <2>4, GotoType
<1>3. CASE \E code \in Answer : Rollback(w, code)
  BY <1>3, RollbackType
<1> QED BY <1>2, <1>3 DEF CheckUpdate, LinkAllowed, SeatRefusal, Answer

(* A seat move remembers its source and writes stored rows only. *)
LEMMA CheckMoveType ==
  ASSUME TypeOK, NEW w \in Writer, Shape(w), ItsBus(w), CheckMove(w)
  PROVE  TypeOK'
<1> DEFINE source == Reread(w)
           id == Req(w).id
<1>1. id \in ReservationId
  BY RequestKinds DEF CheckMove, At, Shape, MoveRequest
<1>2. source \in ReservationRow
  <2>1. reservation[id] # None
    BY DEF CheckMove, At, ItsBus, OneRowRequest
  <2> QED BY <1>1, <2>1, ViewType DEF Reread, View
<1> HIDE DEF source, id
<1>3. CASE Goto(w, "commit", [mem[w] EXCEPT !.read = source])
  <2>1. [mem[w] EXCEPT !.read = source] \in Memory
    BY <1>2, MemoryType DEF Memory
  <2> QED BY <1>3, <2>1, GotoType DEF Phase
<1>4. ASSUME NEW r \in ReservationId \cup {None}, NEW rows \in SUBSET ReservationId,
             Goto(w, "write", [mem[w] EXCEPT !.read = source, !.partner = r, !.todo = rows])
      PROVE  TypeOK'
  <2>1. [mem[w] EXCEPT !.read = source, !.partner = r, !.todo = rows] \in Memory
    BY <1>2, MemoryType DEF Memory
  <2> QED BY <1>4, <2>1, GotoType DEF Phase
<1>5. CASE Rollback(w, "refused")
  BY <1>5, RollbackType DEF Answer
<1>6. Destinations(w, mem[w].read.departure, source) \subseteq ReservationId
  BY DEF Destinations, AtTarget, Others
<1>7. \/ Goto(w, "commit", [mem[w] EXCEPT !.read = source])
      \/ Goto(w, "write", [mem[w] EXCEPT !.read = source, !.partner = None, !.todo = {id}])
      \/ \E r \in Destinations(w, mem[w].read.departure, source) :
           Goto(w, "write", [mem[w] EXCEPT !.read = source, !.partner = r, !.todo = {id, r}])
      \/ Rollback(w, "refused")
  BY DEF CheckMove, source, id
<1>8. CASE Goto(w, "write", [mem[w] EXCEPT !.read = source, !.partner = None, !.todo = {id}])
  <2>1. {id} \in SUBSET ReservationId
    BY <1>1
  <2>2. \A rows \in SUBSET ReservationId :
          Goto(w, "write", [mem[w] EXCEPT !.read = source, !.partner = None, !.todo = rows]) => TypeOK'
    BY <1>4
  <2> QED BY <1>8, <2>1, <2>2
<1>9. ASSUME NEW r \in Destinations(w, mem[w].read.departure, source),
             Goto(w, "write", [mem[w] EXCEPT !.read = source, !.partner = r, !.todo = {id, r}])
      PROVE  TypeOK'
  <2>1. r \in ReservationId \cup {None} /\ {id, r} \in SUBSET ReservationId
    BY <1>1, <1>6
  <2> QED BY <1>4, <1>9, <2>1
<1> QED BY <1>3, <1>5, <1>7, <1>8, <1>9

(* A cancellation, an assignment and a merge write stored rows only. *)
LEMMA CheckOtherType ==
  ASSUME TypeOK, NEW w \in Writer, Shape(w), ItsBus(w), CheckCancel(w) \/ CheckMany(w)
  PROVE  TypeOK'
<1>1. CASE CheckCancel(w)
  <2> DEFINE id == Req(w).id
  <2>1. id \in ReservationId /\ reservation[id] # None
    BY <1>1, RequestKinds DEF CheckCancel, At, Shape, CancelRequest, ItsBus, OneRowRequest
  <2>2. Reread(w) \in ReservationRow
    BY <2>1, ViewType DEF Reread, View
  <2>3. [mem[w] EXCEPT !.read = Reread(w), !.todo = {id}] \in Memory /\ mem[w] \in Memory
    BY <2>1, <2>2, MemoryType DEF Memory
  <2> QED BY <1>1, <2>3, GotoType, RollbackType DEF CheckCancel, Phase, Answer
<1>2. CASE CheckMany(w)
  <2>1. \A rows \in SUBSET ReservationId : [mem[w] EXCEPT !.todo = rows] \in Memory
    BY MemoryType DEF Memory
  <2> QED BY <1>2, <2>1, GotoType DEF CheckMany, Phase
<1> QED BY <1>1, <1>2

(* Looking at the return slot changes no row and remembers nothing new. *)
LEMMA CheckSlotType ==
  ASSUME TypeOK, NEW w \in Writer, CheckSlot(w)
  PROVE  TypeOK'
<1>1. ASSUME NEW phase \in {"stamp", "write"}, Goto(w, phase, mem[w])
      PROVE  TypeOK'
  <2>1. mem[w] \in Memory /\ phase \in Phase
    BY DEF TypeOK, Phase
  <2> QED BY <1>1, <2>1, GotoType
<1>2. CASE Rollback(w, "refused")
  BY <1>2, RollbackType DEF Answer
<1> QED BY <1>1, <1>2 DEF CheckSlot

(* A stamped outbound leg is a whole row. *)
LEMMA StampType ==
  ASSUME TypeOK, NEW w \in Writer, Shape(w), LinkExists(w), Stamp(w)
  PROVE  TypeOK'
<1> DEFINE o == mem[w].link.of
<1>1. mem[w].link \in Link
  BY DEF Stamp, Shape, TypeOK, Memory
<1>2. o \in ReservationId /\ mem[w].link.marker \in Marker
  BY <1>1 DEF Link
<1>3. View(w, o) \in ReservationRow
  BY <1>1, <1>2, ViewType DEF LinkExists, Stamp, Shape
<1>4. [View(w, o) EXCEPT !.marker = mem[w].link.marker] \in ReservationRow
  BY <1>2, <1>3 DEF ReservationRow
<1> QED BY <1>2, <1>4 DEF TypeOK, Stamp, schedule, Phase

(* A booked row is a whole row. *)
LEMMA NewRowType ==
  ASSUME TypeOK, NEW w \in Writer, begun[w] # 0, NEW item \in Item, NEW d \in DepartureId,
         departure[d] # None, NEW link \in Link \cup {None}
  PROVE  NewRow(w, item, d, link) \in ReservationRow
<1>1. departure[d].time \in Nat
  BY DEF TypeOK, DepartureRow
<1>2. begun[w] \in 1..MaxTx
  BY ConstantsAssumption DEF TypeOK
<1>3. GroupFor(w, item, d) \in Group
  <2>1. item.passenger \in Passenger
    BY DEF Item
  <2> QED BY <1>2, <2>1 DEF GroupFor, Group
<1>5. (IF link # None THEN link.of ELSE None) \in ReservationId \cup {None}
  BY DEF Link
<1>6. (IF link # None THEN link.marker ELSE None) \in Marker \cup {None}
  BY DEF Link
<1> HIDE DEF Group, Marker
<1> QED BY <1>1, <1>3, <1>5, <1>6 DEF NewRow, ReservationRow, Item

(* There is a fresh row for it, and it is nobody's. *)
LEMMA NewIdFresh ==
  ASSUME NEW r \in ReservationId, Unused(r)
  PROVE  NewId \in ReservationId /\ Unused(NewId)
BY DEF NewId

(* A booking inserts a whole row under an ID that was free. *)
LEMMA InsertType ==
  ASSUME TypeOK, NEW w \in Writer, Shape(w), EveryBus(w), InsertItem(w)
  PROVE  TypeOK'
<1> DEFINE item == CurrentItem(w)
           d == NamedDeparture(item)
           link == mem[w].link
           row == NewRow(w, item, d, link)
<1>1. NewId \in ReservationId
  BY NewIdFresh DEF InsertItem
<1>2. row \in ReservationRow
  <2>1. item \in Item /\ d \in DepartureId /\ begun[w] # 0
    BY ItemType DEF InsertItem, Shape, At
  <2>2. departure[d] # None
    BY DEF InsertItem, EveryBus, At
  <2>3. link \in Link \cup {None}
    BY DEF TypeOK, Memory
  <2> QED BY <2>1, <2>2, <2>3, NewRowType
<1>3. mem' \in [Writer -> Memory]
  <2>1. Append(mem[w].made, NewId) \in Seq(ReservationId)
    BY <1>1 DEF TypeOK, Memory
  <2>2. mem' = [mem EXCEPT ![w] = [mem[w] EXCEPT !.made = Append(mem[w].made, NewId), !.link = None]]
    BY DEF InsertItem, TypeOK, Memory
  <2>3. \A made \in Seq(ReservationId) : [mem[w] EXCEPT !.made = made, !.link = None] \in Memory
    BY MemoryType DEF Memory
  <2>4. [mem[w] EXCEPT !.made = Append(mem[w].made, NewId), !.link = None] \in Memory
    BY <2>1, <2>3
  <2> QED BY <2>2, <2>4 DEF TypeOK
<1>4. written' = [written EXCEPT ![w][NewId] = row]
  BY DEF InsertItem
<1> HIDE DEF row
<1>5. written' \in [Writer -> [ReservationId -> ReservationRow \cup {None}]]
  BY <1>1, <1>2, <1>4 DEF TypeOK
<1> QED BY <1>3, <1>5 DEF TypeOK, InsertItem, schedule, Phase

(* An updated row is a whole row. *)
LEMMA UpdatedRowType ==
  ASSUME NEW q \in UpdateRequest, NEW row \in ReservationRow, NEW link \in Link \cup {None}
  PROVE  UpdatedRow(q, row, link) \in ReservationRow
<1>1. /\ Given(q.passenger, row.passenger) \in Passenger
      /\ Given(q.seat, row.seat) \in SeatNumber
      /\ Given(q.from, row.from) \in Station
      /\ Given(q.to, row.to) \in Station
      /\ Given(q.group, row.group) \in Group \cup {None}
  BY DEF Given, UpdateRequest, ReservationRow, Group
<1>2. link # None => link.of \in ReservationId /\ link.marker \in Marker
  BY DEF Link
<1>3. /\ row.departure \in DepartureId \cup {None} /\ row.time \in Nat
      /\ row.status \in {"ACTIVE", "CANCELLED"}
      /\ row.returnOf \in ReservationId \cup {None} /\ row.marker \in Marker \cup {None}
  BY DEF ReservationRow
<1> HIDE DEF Group, Marker, SeatNumber
<1> QED BY <1>1, <1>2, <1>3 DEF UpdatedRow, ReservationRow

(* An update, a seat move, a cancellation, an assignment and a merge write
   whole rows. *)
LEMMA WriteType ==
  ASSUME TypeOK, NEW w \in Writer, Shape(w), TodoExists(w),
         WriteUpdate(w) \/ WriteSeat(w) \/ WriteCancel(w) \/ WriteMany(w)
  PROVE  TypeOK'
<1>0. \A r \in mem[w].todo : r \in ReservationId /\ View(w, r) \in ReservationRow
  BY ViewType DEF TodoExists, TypeOK, Memory
<1>1. CASE WriteUpdate(w)
  <2> DEFINE q == Req(w)
             row == UpdatedRow(q, View(w, q.id), mem[w].link)
  <2>1. q \in UpdateRequest /\ q.id \in ReservationId
    BY <1>1, RequestKinds DEF WriteUpdate, At, Shape, UpdateRequest
  <2>2. CASE Put(w, q.id, row)
    <3>1. q.id \in mem[w].todo
      BY <1>1 DEF WriteUpdate, At, Shape
    <3>2. mem[w].link \in Link \cup {None}
      BY DEF TypeOK, Memory
    <3>3. row \in ReservationRow
      BY <1>0, <2>1, <3>1, <3>2, UpdatedRowType
    <3> HIDE DEF row
    <3> QED BY <2>1, <2>2, <3>3, PutType
  <2>3. CASE Rollback(w, "refused")
    BY <2>3, RollbackType DEF Answer
  <2> QED BY <1>1, <2>2, <2>3 DEF WriteUpdate
<1>2. CASE WriteSeat(w)
  <2>1. PICK r \in mem[w].todo :
          Put(w, r, [View(w, r) EXCEPT !.seat = IF r = Req(w).id THEN Req(w).seat ELSE mem[w].read.seat])
    BY <1>2 DEF WriteSeat
  <2>2. Req(w).seat \in SeatNumber
    BY <1>2, RequestKinds DEF WriteSeat, At, Shape, MoveRequest
  <2>3. mem[w].read \in ReservationRow
    BY <1>2, <2>1 DEF WriteSeat, At, TodoExists, TypeOK, Memory
  <2>4. [View(w, r) EXCEPT !.seat = IF r = Req(w).id THEN Req(w).seat ELSE mem[w].read.seat]
          \in ReservationRow
    BY <1>0, <2>1, <2>2, <2>3 DEF ReservationRow
  <2> QED BY <1>0, <2>1, <2>4, PutType
<1>3. CASE WriteCancel(w)
  <2> DEFINE id == Req(w).id
  <2>1. id \in mem[w].todo
    BY <1>3 DEF WriteCancel, At, Shape
  <2>2. [View(w, id) EXCEPT !.status = "CANCELLED"] \in ReservationRow
    BY <1>0, <2>1 DEF ReservationRow
  <2> QED BY <1>0, <1>3, <2>1, <2>2, PutType DEF WriteCancel
<1>4. CASE WriteMany(w)
  <2>1. PICK r \in mem[w].todo : Put(w, r, ManyRow(Req(w), View(w, r)))
    BY <1>4 DEF WriteMany
  <2>2. Req(w) \in GroupRequest \/ Req(w) \in MergeRequest
    BY <1>4, RequestKinds DEF WriteMany, At, Shape
  <2>3. ManyRow(Req(w), View(w, r)) \in ReservationRow
    BY <1>0, <2>1, <2>2 DEF ManyRow, GroupRequest, MergeRequest, ReservationRow, Group
  <2> QED BY <1>0, <2>1, <2>3, PutType
<1> QED BY <1>1, <1>2, <1>3, <1>4

(* A departure an edit leaves is a whole departure, or gone; one that a
   reservation is on only goes with a removal. *)
LEMMA EditedType ==
  ASSUME TypeOK, NEW e \in Edit, NEW id \in DepartureId
  PROVE  /\ Edited(e, id) \in DepartureRow \cup {None}
         /\ departure[id] # None /\ Referenced(id) /\ e.kind # "delete" => Edited(e, id) # None
<1> DEFINE d == departure[id]
<1>1. d \in DepartureRow \cup {None} /\ e \in AnyEdit
  BY ConstantsAssumption DEF TypeOK
<1>2. CASE id \notin Reached(e)
  BY <1>1, <1>2 DEF Edited
<1>3. CASE id \in Reached(e)
  <2>1. d \in DepartureRow
    BY <1>1, <1>3 DEF Reached, OnRideOf
  <2>0. [d EXCEPT !.dropped = TRUE] \in DepartureRow
    BY <2>1 DEF DepartureRow
  <2>2. /\ Unproduced(id, d) \in DepartureRow \cup {None}
        /\ Referenced(id) => Unproduced(id, d) \in DepartureRow
    BY <2>0 DEF Unproduced
  <2>3. /\ Retired(id) \in DepartureRow \cup {None}
        /\ Referenced(id) => Retired(id) \in DepartureRow
    BY <2>0, <2>1, <2>2 DEF Retired, DepartureRow
  <2>4. /\ Replanned(e, id) \in DepartureRow \cup {None}
        /\ Referenced(id) => Replanned(e, id) \in DepartureRow
    <3> DEFINE onLine == [d EXCEPT !.route = e.route, !.boarding = e.boarding,
                                   !.dropoff = e.dropoff, !.lineActive = e.lineActive]
               resized == [onLine EXCEPT !.capacity = IF e.kind = "ride" THEN e.capacity ELSE @]
    <3>1. onLine \in DepartureRow
      BY <1>1, <2>1 DEF DepartureRow, AnyEdit
    <3> HIDE DEF onLine
    <3>2. resized \in DepartureRow
      BY <1>1, <3>1 DEF DepartureRow, AnyEdit
    <3> HIDE DEF resized
    <3>3. /\ [resized EXCEPT !.time = e.time, !.dropped = FALSE] \in DepartureRow
          /\ \A b \in BOOLEAN :
               [IF AtRideCapacity(d) THEN resized ELSE onLine EXCEPT !.dropped = b] \in DepartureRow
      BY <1>1, <3>1, <3>2 DEF DepartureRow, AnyEdit
    <3>4. d.source \in {"SCHEDULE", "EXTRA", "LEGACY"} /\ e.produced \in BOOLEAN
      BY <1>1, <2>1 DEF DepartureRow, AnyEdit
    <3>5. ASSUME d.source = "EXTRA" PROVE Replanned(e, id) \in DepartureRow
      <4>1. ExtraDropped(e, id) \in BOOLEAN
        BY DEF ExtraDropped
      <4> QED BY <3>3, <3>5, <4>1 DEF Replanned, onLine, resized
    <3> QED BY <2>2, <3>1, <3>3, <3>4, <3>5 DEF Replanned, onLine, resized
  <2>5. /\ [d EXCEPT !.time = e.time, !.capacity = e.capacity] \in DepartureRow
        /\ [d EXCEPT !.cancelled = TRUE] \in DepartureRow
        /\ [d EXCEPT !.cancelled = FALSE] \in DepartureRow
    BY <1>1, <2>1 DEF DepartureRow, AnyEdit
  <2>6. e.kind \in {"line", "ride", "extra", "delete", "cancel", "restore", "retire", "cascade"}
    BY <1>1 DEF AnyEdit
  <2> QED BY <1>3, <2>3, <2>4, <2>5, <2>6, NoneAssumption DEF Edited
<1> QED BY <1>2, <1>3

(* An edit leaves whole departures and whole reservations. *)
LEMMA ApplyEditType ==
  ASSUME TypeOK, ApplyEdit
  PROVE  TypeOK'
<1>1. PICK e \in Edit :
        /\ departure' = [id \in DepartureId |-> Edited(e, id)]
        /\ reservation' = [r \in ReservationId |-> Resettled(e, reservation[r])]
  BY DEF ApplyEdit
<1>2. departure' \in [DepartureId -> DepartureRow \cup {None}]
  BY <1>1, EditedType
<1>3. ASSUME NEW r \in ReservationId PROVE Resettled(e, reservation[r]) \in ReservationRow \cup {None}
  <2> DEFINE row == reservation[r]
  <2>1. CASE row = None \/ row.departure \notin Reached(e)
    BY <2>1 DEF Resettled, TypeOK
  <2>2. CASE row # None /\ row.departure \in Reached(e)
    <3>1. row \in ReservationRow
      BY <2>2 DEF TypeOK
    <3>2. row.departure \in DepartureId
      <4>1. e \in AnyEdit
        BY ConstantsAssumption
      <4> QED BY <2>2, <4>1 DEF Reached, OnRideOf, AnyEdit
    <3>3. Edited(e, row.departure) # None => Edited(e, row.departure).time \in Nat
      BY <3>2, EditedType DEF DepartureRow
    <3> HIDE DEF row
    <3>4. \A t \in Nat, c \in {"ACTIVE", "CANCELLED"} :
            [row EXCEPT !.time = t, !.status = c] \in ReservationRow
      BY <3>1 DEF ReservationRow
    <3> DEFINE t == IF Edited(e, row.departure) # None THEN Edited(e, row.departure).time ELSE row.time
               c == IF e.kind = "cascade" THEN "CANCELLED" ELSE row.status
    <3>5. t \in Nat /\ c \in {"ACTIVE", "CANCELLED"}
      BY <3>1, <3>3 DEF ReservationRow
    <3>6. Resettled(e, row) = [row EXCEPT !.time = t, !.status = c]
      BY <2>2 DEF Resettled, row
    <3> HIDE DEF t, c
    <3>7. Resettled(e, row) \in ReservationRow
      BY ZenonT(60), <3>4, <3>5, <3>6
    <3> QED BY <3>7 DEF row
  <2> QED BY <2>1, <2>2
<1>4. reservation' \in [ReservationId -> ReservationRow \cup {None}]
  BY <1>1, <1>3
<1> QED BY <1>2, <1>4 DEF TypeOK, ApplyEdit

(* Every step keeps the types. *)
LEMMA StepType ==
  ASSUME Inv, [Next]_vars
  PROVE  TypeOK'
<1> USE DEF Inv
<1>1. ASSUME NEW w \in Writer, Submit(w) PROVE TypeOK'
  BY <1>1, SubmitType
<1>2. ASSUME NEW w \in Writer, ScheduleLockTimeout(w) \/ AbortDeadlock(w) PROVE TypeOK'
  BY <1>2, RollbackType DEF ScheduleLockTimeout, AbortDeadlock, Answer
<1>3. ASSUME NEW w \in Writer, Fail(w) PROVE TypeOK'
  <2>1. failures' \in 0..MaxFailures
    BY <1>3, ConstantsAssumption DEF TypeOK, Fail
  <2> QED BY <1>3, <2>1, BlankType DEF TypeOK, Fail, End, schedule, NothingWritten, Phase, Answer
<1>4. ASSUME NEW w \in Writer, Statement(w) PROVE TypeOK'
  <2> LocalInv(w)
    BY <1>4
  <2> USE DEF LocalInv
  <2>1. CASE AcquireScheduleLockShared(w) \/ DeparturesLocked(w)
    BY <2>1, GotoType DEF AcquireScheduleLockShared, DeparturesLocked, TypeOK, Phase
  <2>2. CASE Name(w)
    BY <2>2, NameType
  <2>3. CASE LockDeparture(w)
    BY <2>3, LockType
  <2>4. CASE CheckItem(w) \/ CheckUpdate(w) \/ CheckMove(w) \/ CheckCancel(w) \/ CheckMany(w)
    BY <2>4, CheckItemType, CheckUpdateType, CheckMoveType, CheckOtherType
  <2>5. CASE CheckSlot(w) \/ Stamp(w)
    BY <2>5, CheckSlotType, StampType
  <2>6. CASE InsertItem(w)
    BY <2>6, InsertType
  <2>7. CASE RefuseItem(w)
    BY <2>7, RollbackType DEF RefuseItem, SeatRefusal, Answer
  <2>8. CASE WriteUpdate(w) \/ WriteSeat(w) \/ WriteCancel(w) \/ WriteMany(w)
    BY <2>8, WriteType
  <2>9. CASE Commit(w)
    <3>1. reservation' \in [ReservationId -> ReservationRow \cup {None}]
      BY <2>9, ViewType DEF Commit
    <3> QED BY <2>9, <3>1, BlankType DEF TypeOK, Commit, End, schedule, NothingWritten, Phase, Answer
  <2> QED BY <1>4, <2>1, <2>2, <2>3, <2>4, <2>5, <2>6, <2>7, <2>8, <2>9 DEF Statement
<1>5. CASE RequestEdit
  BY <1>5, ConstantsAssumption DEF TypeOK, RequestEdit
<1>6. CASE AcquireScheduleLockExclusive \/ AbandonEdit
  BY <1>6 DEF TypeOK, AcquireScheduleLockExclusive, AbandonEdit
<1>7. CASE ApplyEdit
  BY <1>7, ApplyEditType
<1>8. CASE UNCHANGED vars
  BY <1>8 DEF TypeOK, vars
<1> QED BY <1>1, <1>2, <1>3, <1>4, <1>5, <1>6, <1>7, <1>8 DEF Next, Schedule

-----------------------------------------------------------------------------
(* Initially, and the two invariants that relate the writers. *)

(* The invariant holds while no request has been sent. *)
LEMMA InitInv ==
  ASSUME Init
  PROVE  Inv
<1>1. TypeOK
  BY BlankType, ConstantsAssumption DEF Init, TypeOK, NothingWritten, Phase, Answer
<1>2. Frozen /\ RowsExclusive
  BY DEF Init, Frozen, RowsExclusive, NothingWritten
<1>3. ASSUME NEW w \in Writer PROVE LocalInv(w)
  <2>1. /\ pc[w] = "idle" /\ mem[w] = Blank /\ written[w] = NothingWritten
    BY <1>3 DEF Init
  <2>2. /\ mem[w].todo = {} /\ mem[w].link = None /\ mem[w].made = <<>> /\ Req(w) = None
    BY <2>1 DEF Blank, Req
  <2>3. \A r \in ReservationId : Planned(w, r) = reservation[r]
    BY <2>1, <2>2 DEF Planned, PlannedRow, View, NothingWritten
  <2>4. OnHeldBuses(w) /\ NoNewClash(w)
    BY <2>3 DEF OnHeldBuses, NoNewClash, SameRoom
  <2>5. Shape(w) /\ LinkExists(w) /\ TodoExists(w) /\ ItsBus(w) /\ EveryBus(w)
    BY <2>1, <2>2 DEF Shape, LinkExists, TodoExists, ItsBus, EveryBus, OneRowRequest
  <2> QED BY <2>4, <2>5 DEF LocalInv
<1>4. Referential
  BY ForeignKeyAssumption DEF Init, Referential
<1> QED BY <1>1, <1>2, <1>3, <1>4 DEF Inv

(* Only the first statement of a transaction opens it, and not under an edit. *)
LEMMA StepFrozen ==
  ASSUME Inv, [Next]_vars
  PROVE  Frozen'
<1> USE DEF Frozen, InTransaction
<1>1. ASSUME NEW w \in Writer, Submit(w) \/ ScheduleLockTimeout(w) \/ Fail(w) \/ AbortDeadlock(w)
      PROVE  Frozen'
  BY <1>1
  DEF Inv, TypeOK, Submit, ScheduleLockTimeout, Fail, AbortDeadlock, Rollback, End, schedule
<1>2. ASSUME NEW w \in Writer, AcquireScheduleLockShared(w)
      PROVE  Frozen'
  BY <1>2 DEF Inv, TypeOK, AcquireScheduleLockShared, Goto, schedule
<1>3. ASSUME NEW w \in Writer, Statement(w), ~AcquireScheduleLockShared(w)
      PROVE  Frozen'
  <2>1. InTransaction(w)
    BY <1>3
    DEF Statement, Name, NameCreate, NameOne, NameGroup, NameMerge, LockDeparture,
        DeparturesLocked, CheckItem, CheckUpdate, CheckMove, CheckCancel, CheckMany, CheckSlot, Stamp,
        InsertItem, RefuseItem, WriteUpdate, WriteSeat, WriteCancel, WriteMany, Commit, At
  <2>2. edit' = edit
    BY <1>3
    DEF Statement, Name, NameCreate, NameOne, NameGroup, NameMerge, LockDeparture,
        DeparturesLocked, CheckItem, CheckUpdate, CheckMove, CheckCancel, CheckMany, CheckSlot, Stamp,
        InsertItem, RefuseItem, WriteUpdate, WriteSeat, WriteCancel, WriteMany, Commit,
        Goto, Rollback, Put, schedule
  <2>3. edit # "held"
    BY <2>1 DEF Inv
  <2> QED BY <2>2, <2>3
<1>4. CASE Schedule
  BY <1>4
  DEF Inv, Schedule, RequestEdit, AcquireScheduleLockExclusive, ApplyEdit, AbandonEdit
<1>5. CASE UNCHANGED vars
  BY <1>5 DEF Inv, vars
<1> QED BY <1>1, <1>2, <1>3, <1>4, <1>5 DEF Next

(* A step of w touches neither the departures nor another transaction. *)
OwnStep(w) ==
  /\ UNCHANGED <<departure, edit>>
  /\ \A x \in Writer \ {w} :
       /\ pc'[x] = pc[x] /\ mem'[x] = mem[x] /\ begun'[x] = begun[x]
       /\ written'[x] = written[x]
       /\ \A d \in DepartureId : holder[d] = x => holder'[d] = x

WriterStep(w) ==
  Submit(w) \/ ScheduleLockTimeout(w) \/ Statement(w) \/ Fail(w) \/ AbortDeadlock(w)

(* Moving on to another phase is nobody else's business. *)
LEMMA GotoOwn ==
  ASSUME TypeOK, NEW w \in Writer, NEW phase, NEW m, Goto(w, phase, m)
  PROVE  OwnStep(w) /\ reservation' = reservation /\ written' = written
BY DEF TypeOK, OwnStep, Goto, schedule

(* Ending a transaction is nobody else's business, locks included. *)
LEMMA EndOwn ==
  ASSUME TypeOK, NEW w \in Writer, NEW code, End(w, code),
         UNCHANGED <<departure, edit, begun>>
  PROVE  OwnStep(w) /\ written'[w] = NothingWritten
BY DEF TypeOK, OwnStep, End

(* A refusal leaves the reservations as they were. *)
LEMMA RollbackOwn ==
  ASSUME TypeOK, NEW w \in Writer, NEW code, Rollback(w, code)
  PROVE  OwnStep(w) /\ reservation' = reservation /\ written'[w] = NothingWritten
BY EndOwn DEF Rollback, schedule

(* A write is seen by nobody until its transaction commits. *)
LEMMA PutOwn ==
  ASSUME TypeOK, NEW w \in Writer, NEW r \in ReservationId, NEW row, Put(w, r, row)
  PROVE  /\ OwnStep(w) /\ reservation' = reservation
         /\ written'[w] = [written[w] EXCEPT ![r] = row]
BY DEF TypeOK, OwnStep, Put, schedule

(* Its new rows are rows no other transaction has written. *)
OwnRows(w) ==
  \A r \in ReservationId : written'[w][r] # None /\ written[w][r] = None => RowFree(w, r)

(* Every step of a writer is its own, and only a commit changes what is stored. *)
LEMMA WriterSteps ==
  ASSUME Inv, NEW w \in Writer, WriterStep(w)
  PROVE  /\ OwnStep(w) /\ OwnRows(w)
         /\ reservation' = reservation \/ Commit(w)
<1> TypeOK /\ LocalInv(w)
  BY DEF Inv
<1> NothingWritten \in [ReservationId -> {None}]
  BY DEF NothingWritten
<1>1. CASE Submit(w)
  BY <1>1 DEF TypeOK, Submit, OwnStep, OwnRows, schedule
<1>2. ASSUME NEW code, Rollback(w, code)
      PROVE  OwnStep(w) /\ OwnRows(w) /\ reservation' = reservation
  BY <1>2, RollbackOwn DEF OwnRows
<1>3. CASE Fail(w)
  BY <1>3, EndOwn DEF Fail, OwnRows, schedule
<1>4. CASE Commit(w)
  BY <1>4, EndOwn DEF Commit, OwnRows, schedule
<1>5. ASSUME NEW phase, NEW m, Goto(w, phase, m)
      PROVE  OwnStep(w) /\ OwnRows(w) /\ reservation' = reservation
  BY <1>5, GotoOwn DEF OwnRows
<1>6. CASE LockDeparture(w)
  BY <1>6, NoneAssumption DEF TypeOK, LockDeparture, OwnStep, OwnRows, schedule
<1>7. CASE Stamp(w)
  <2>1. mem[w].link.of \in ReservationId
    BY <1>7 DEF LocalInv, Shape, Stamp, TypeOK, Memory, Link
  <2> QED BY <1>7, <2>1 DEF TypeOK, Stamp, OwnStep, OwnRows, schedule
<1>8. CASE InsertItem(w)
  <2>1. NewId \in ReservationId /\ RowFree(w, NewId)
    BY <1>8, NewIdFresh DEF InsertItem, Unused, RowFree
  <2> HIDE DEF NewId
  <2>2. /\ \E row : written' = [written EXCEPT ![w][NewId] = row]
        /\ \A x \in Writer \ {w} : pc'[x] = pc[x] /\ mem'[x] = mem[x]
        /\ UNCHANGED <<departure, edit, reservation, begun, holder>>
    BY <1>8 DEF InsertItem, TypeOK, schedule
  <2> QED BY <2>1, <2>2 DEF TypeOK, OwnStep, OwnRows
<1>9. ASSUME NEW r \in ReservationId, NEW row, Put(w, r, row), RowFree(w, r)
      PROVE  OwnStep(w) /\ OwnRows(w) /\ reservation' = reservation
  <2>1. /\ OwnStep(w) /\ reservation' = reservation
        /\ written'[w] = [written[w] EXCEPT ![r] = row]
    BY <1>9, PutOwn
  <2>2. \A q \in ReservationId \ {r} : written'[w][q] = written[w][q]
    BY <2>1 DEF TypeOK
  <2> QED BY <1>9, <2>1, <2>2 DEF OwnRows
<1>10. mem[w].todo \subseteq ReservationId
  BY DEF TypeOK, Memory
<1>11. At(w, "write", "update") \/ At(w, "write", "cancel") => Req(w).id \in ReservationId
  BY RequestKinds DEF LocalInv, Shape, At, UpdateRequest, CancelRequest
<1> QED
  BY <1>1, <1>2, <1>3, <1>4, <1>5, <1>6, <1>7, <1>8, <1>9, <1>10, <1>11
  DEF WriterStep, Statement, ScheduleLockTimeout, AbortDeadlock, AcquireScheduleLockShared,
      Name, NameCreate, NameOne, NameGroup, NameMerge, DeparturesLocked, CheckItem,
      CheckUpdate, CheckMove, CheckCancel, CheckMany, CheckSlot, RefuseItem, WriteUpdate,
      WriteSeat, WriteCancel, WriteMany

(* A row another transaction has written is never written. *)
LEMMA StepRowsExclusive ==
  ASSUME Inv, [Next]_vars
  PROVE  RowsExclusive'
<1>1. ASSUME NEW w \in Writer, WriterStep(w)
      PROVE  RowsExclusive'
  <2>1. /\ \A x \in Writer \ {w} : written'[x] = written[x]
        /\ OwnRows(w)
    BY <1>1, WriterSteps DEF OwnStep
  <2> QED BY <2>1 DEF Inv, RowsExclusive, OwnRows, RowFree
<1>2. CASE Schedule \/ UNCHANGED vars
  BY <1>2
  DEF Inv, RowsExclusive, Schedule, RequestEdit, AcquireScheduleLockExclusive, ApplyEdit,
      AbandonEdit, vars
<1> QED BY <1>1, <1>2 DEF Next, WriterStep

-----------------------------------------------------------------------------
(* What a writer plans survives the steps of everybody else. *)

(* A planned row is a whole row, on the bus the reservation is on. *)
LEMMA PlannedRowType ==
  ASSUME NEW m \in Memory, NEW r, NEW row \in ReservationRow,
         r \in m.todo => /\ m.request \in Request
                         /\ m.request.op = "move" => m.read # None
  PROVE  PlannedRow(m, r, row) \in ReservationRow /\ PlannedRow(m, r, row).departure = row.departure
<1>1. CASE r \notin m.todo
  BY <1>1 DEF PlannedRow
<1>2. CASE r \in m.todo /\ m.request.op = "update"
  <2>1. m.request \in UpdateRequest /\ m.link \in Link \cup {None}
    BY <1>2, RequestKinds DEF Memory
  <2>2. UpdatedRow(m.request, row, m.link) \in ReservationRow
    BY <2>1, UpdatedRowType
  <2>3. UpdatedRow(m.request, row, m.link).departure = row.departure
    BY DEF UpdatedRow
  <2> QED BY <1>2, <2>2, <2>3 DEF PlannedRow
<1>3. CASE r \in m.todo /\ m.request.op = "move"
  <2>1. m.request.seat \in SeatNumber /\ m.read \in ReservationRow
    BY <1>3, RequestKinds DEF MoveRequest, Memory
  <2> QED BY <1>3, <2>1 DEF PlannedRow, ReservationRow
<1>4. CASE r \in m.todo /\ m.request.op \notin {"update", "move"}
  BY <1>4 DEF PlannedRow
<1> QED BY <1>1, <1>2, <1>3, <1>4

(* What a transaction plans is a whole row, on the bus the reservation is on. *)
LEMMA PlannedType ==
  ASSUME TypeOK, NEW w \in Writer, Shape(w), TodoExists(w), NEW r \in ReservationId
  PROVE  /\ Planned(w, r) \in ReservationRow \cup {None}
         /\ Planned(w, r) = None <=> View(w, r) = None
         /\ Planned(w, r) # None => Planned(w, r).departure = View(w, r).departure
<1>1. View(w, r) \in ReservationRow \cup {None} /\ mem[w] \in Memory
  BY ViewType DEF TypeOK
<1>2. r \in mem[w].todo => /\ View(w, r) # None /\ Req(w) \in Request
                           /\ Req(w).op = "move" => mem[w].read # None
  BY DEF Shape, TodoExists
<1>3. CASE View(w, r) = None
  BY <1>2, <1>3 DEF Planned, PlannedRow
<1>4. CASE View(w, r) # None
  BY <1>1, <1>2, <1>4, PlannedRowType, NoneAssumption DEF Planned, Req
<1> QED BY <1>3, <1>4

(* While no departure changes, two rows clash after the step when they would
   have clashed before it. *)
LEMMA ClashLater ==
  ASSUME departure' = departure, NEW w \in Writer
  PROVE  NoNewClash(w)' <=>
           \A r, s \in ReservationId :
             r # s /\ Clash(Planned(w, r)', Planned(w, s)')
               => Clash(reservation'[r], reservation'[s])
BY DEF NoNewClash, Clash, OnRoute, Overlap, SegmentOf, IsActive

(* Another transaction's step that commits nothing. *)
LEMMA Bystander ==
  ASSUME TypeOK, NEW w \in Writer, LocalInv(w),
         UNCHANGED <<departure, reservation>>,
         pc'[w] = pc[w], mem'[w] = mem[w], begun'[w] = begun[w], written'[w] = written[w],
         \A d \in DepartureId : holder[d] = w => holder'[d] = w
  PROVE  LocalInv(w)'
<1>1. \A r \in ReservationId : View(w, r)' = View(w, r) /\ Planned(w, r)' = Planned(w, r)
  BY DEF View, Planned, Req
<1>2. mem[w].link # None => mem[w].link.of \in ReservationId
  BY DEF TypeOK, Memory, Link
<1>3. mem[w].todo \subseteq ReservationId
  BY DEF TypeOK, Memory
<1>4. Shape(w)' /\ LinkExists(w)' /\ TodoExists(w)'
  BY <1>1, <1>2, <1>3 DEF LocalInv, Shape, LinkExists, TodoExists, Req
<1>5. ItsBus(w)'
  <2>1. mem[w].read # None => mem[w].read.departure \in DepartureId \cup {None}
    BY DEF TypeOK, Memory, ReservationRow
  <2> QED BY <2>1 DEF LocalInv, ItsBus, OneRowRequest, Req
<1>6. EveryBus(w)'
  <2>1. \A i : (NamedDeparture(Req(w).items[i]))' = NamedDeparture(Req(w).items[i])
    BY DEF NamedDeparture, Candidates, Req
  <2>2. (NamedDeparture(CurrentItem(w)))' = NamedDeparture(CurrentItem(w))
    BY DEF NamedDeparture, Candidates, CurrentItem, Req
  <2> QED BY <2>1, <2>2 DEF LocalInv, EveryBus, Req
<1>7. OnHeldBuses(w)'
  <2>1. \A r \in ReservationId : Planned(w, r) # None => Planned(w, r).departure \in DepartureId \cup {None}
    BY PlannedType DEF LocalInv, ReservationRow
  <2> QED BY <1>1, <2>1 DEF LocalInv, OnHeldBuses, SameRoom
<1>8. NoNewClash(w)'
  <2>1. \A r, s \in ReservationId :
          r # s /\ Clash(Planned(w, r)', Planned(w, s)') => Clash(reservation'[r], reservation'[s])
    BY <1>1 DEF LocalInv, NoNewClash
  <2> QED BY <2>1, ClashLater
<1> QED BY <1>4, <1>5, <1>6, <1>7, <1>8 DEF LocalInv

(* Only the room two reservations take up makes them clash. *)
LEMMA ClashSameRoom ==
  ASSUME NEW a, NEW b, NEW c, NEW d, SameRoom(a, b), SameRoom(c, d), Clash(a, c)
  PROVE  Clash(b, d)
BY DEF SameRoom, Clash, IsActive, OnRoute, Overlap, SegmentOf

(* Taking up the same room is an equivalence. *)
LEMMA SameRoomRelation ==
  /\ \A a : SameRoom(a, a)
  /\ \A a, b : SameRoom(a, b) => SameRoom(b, a)
  /\ \A a, b, c : SameRoom(a, b) /\ SameRoom(b, c) => SameRoom(a, c)
BY DEF SameRoom

(* What a plan makes of a row depends only on the room the row takes up. *)
LEMMA PlannedRowRoom ==
  ASSUME NEW m \in Memory, NEW r, NEW a \in ReservationRow, NEW b \in ReservationRow,
         r \in m.todo => /\ m.request \in Request
                         /\ m.request.op = "move" => m.read # None,
         SameRoom(a, b)
  PROVE  SameRoom(PlannedRow(m, r, a), PlannedRow(m, r, b))
<1>1. CASE r \in m.todo /\ m.request.op = "update"
  <2>1. m.request \in UpdateRequest
    BY <1>1, RequestKinds
  <2>2. UpdatedRow(m.request, a, m.link) # None /\ UpdatedRow(m.request, b, m.link) # None
    BY <2>1, UpdatedRowType, NoneAssumption DEF Memory
  <2>3. SameRoom(UpdatedRow(m.request, a, m.link), UpdatedRow(m.request, b, m.link))
    BY <2>2 DEF SameRoom, UpdatedRow
  <2> QED BY <1>1, <2>3 DEF PlannedRow
<1>2. CASE r \in m.todo /\ m.request.op = "move"
  <2> DEFINE n == IF r = m.request.id THEN m.request.seat ELSE m.read.seat
  <2>1. n \in SeatNumber
    BY <1>2, RequestKinds DEF Memory, MoveRequest, ReservationRow
  <2>2. PlannedRow(m, r, a) = [a EXCEPT !.seat = n] /\ PlannedRow(m, r, b) = [b EXCEPT !.seat = n]
    BY <1>2 DEF PlannedRow
  <2> HIDE DEF n
  <2>3. [a EXCEPT !.seat = n] \in ReservationRow /\ [b EXCEPT !.seat = n] \in ReservationRow
    BY <2>1 DEF ReservationRow
  <2>4. [a EXCEPT !.seat = n] # None /\ [b EXCEPT !.seat = n] # None
    BY <2>3, NoneAssumption
  <2> QED BY <2>2, <2>4 DEF SameRoom, ReservationRow
<1>3. CASE r \notin m.todo \/ m.request.op \notin {"update", "move"}
  BY <1>3 DEF PlannedRow
<1> QED BY <1>1, <1>2, <1>3

(* What x commits, and what is left of w's plans: a reservation that x gave
   other room is on a bus that x holds, and w plans nothing of its own there. *)
LEMMA CommitPlans ==
  ASSUME Inv, NEW w \in Writer, NEW x \in Writer, w # x, Commit(x), NEW r \in ReservationId
  PROVE  /\ View(x, r) # None /\ reservation[r] # None =>
              View(x, r).departure = reservation[r].departure
         /\ reservation[r] # None => View(x, r) # None
         /\ \/ SameRoom(View(x, r), reservation[r])
            \/ /\ View(x, r) # None
               /\ View(x, r).departure = None \/ holder[View(x, r).departure] = x
         /\ \/ View(w, r)' = View(w, r) /\ View(x, r) = reservation[r]
            \/ View(w, r)' = View(x, r) /\ View(w, r) = reservation[r]
         /\ \/ SameRoom(Planned(w, r)', Planned(w, r)) /\ SameRoom(View(x, r), reservation[r])
            \/ /\ SameRoom(Planned(w, r)', View(x, r)) /\ View(x, r) # None
               /\ View(x, r).departure = None \/ holder[View(x, r).departure] = x
<1> DEFINE old == reservation[r]
           new == View(x, r)
           heldBy(y, d) == d = None \/ holder[d] = y
<1>1. /\ TypeOK /\ RowsExclusive /\ LocalInv(w) /\ LocalInv(x)
      /\ pc'[w] = pc[w] /\ mem'[w] = mem[w] /\ begun'[w] = begun[w] /\ written'[w] = written[w]
      /\ departure' = departure
      /\ \A d \in DepartureId : holder[d] = w => holder'[d] = w
      /\ \A q \in ReservationId : reservation'[q] = View(x, q)
  BY WriterSteps DEF Inv, WriterStep, Statement, OwnStep, Commit
<1>2. /\ new # None /\ old # None => new.departure = old.departure
      /\ old # None => new # None
      /\ SameRoom(new, old) \/ (new # None /\ heldBy(x, new.departure))
  <2>1. Planned(x, r) = new
    BY <1>1 DEF LocalInv, Shape, Planned, PlannedRow, Commit
  <2>2. old # None => new # None
    BY DEF View
  <2> QED BY <1>1, <2>1, <2>2 DEF LocalInv, OnHeldBuses, SameRoom
<1>3. \/ View(w, r)' = View(w, r) /\ new = old
      \/ View(w, r)' = new /\ View(w, r) = old
  BY <1>1 DEF View, RowsExclusive
<1>4. \/ SameRoom(Planned(w, r)', Planned(w, r)) /\ SameRoom(new, old)
      \/ SameRoom(Planned(w, r)', new) /\ new # None /\ heldBy(x, new.departure)
  <2>1. Planned(w, r)' = PlannedRow(mem[w], r, View(w, r)')
    BY <1>1 DEF Planned
  <2>2. /\ old \in ReservationRow \cup {None} /\ new \in ReservationRow \cup {None}
        /\ mem[w] \in Memory
    BY <1>1, ViewType DEF TypeOK
  <2>3. r \in mem[w].todo =>
          /\ View(w, r) # None /\ Req(w) \in Request
          /\ Req(w).op = "move" => mem[w].read # None
    BY <1>1 DEF LocalInv, Shape, TodoExists
  <2>4. CASE View(w, r)' = View(w, r) /\ new = old
    BY <2>1, <2>4, SameRoomRelation DEF Planned
  <2>5. CASE View(w, r)' = new /\ View(w, r) = old
    <3>1. CASE SameRoom(new, old)
      <4>1. CASE old = None
        <5>1. new = None
          BY <3>1, <4>1 DEF SameRoom
        <5> QED BY <2>1, <2>5, <3>1, <4>1, <5>1, SameRoomRelation DEF Planned
      <4>2. CASE old # None
        <5>1. old \in ReservationRow /\ new \in ReservationRow
          BY <2>2, <3>1, <4>2 DEF SameRoom
        <5>2. SameRoom(PlannedRow(mem[w], r, new), PlannedRow(mem[w], r, old))
          BY <2>2, <2>3, <3>1, <5>1, PlannedRowRoom DEF Req
        <5> QED BY <2>1, <2>5, <3>1, <5>2 DEF Planned
      <4> QED BY <4>1, <4>2
    <3>2. CASE ~SameRoom(new, old)
      <4>1. new # None /\ heldBy(x, new.departure)
        BY <1>2, <3>2
      <4>2. CASE r \notin mem[w].todo \/ Req(w).op \notin {"update", "move"}
        <5>1. Planned(w, r)' = new
          BY <2>1, <2>5, <4>2 DEF PlannedRow, Req
        <5> QED BY <4>1, <5>1, SameRoomRelation
      <4>3. CASE r \in mem[w].todo /\ Req(w).op \in {"update", "move"}
        <5>1. /\ old # None /\ mem[w].read # None
              /\ old.departure = mem[w].read.departure
          BY <1>1, <2>5, <4>3 DEF LocalInv, TodoExists
        <5>2. pc[w] \in {"slot", "stamp", "write"} /\ OneRowRequest(w)
          BY <1>1, <2>3, <4>3, RequestKinds DEF LocalInv, Shape, OneRowRequest
        <5>3. mem[w].read.departure # None /\ holder[mem[w].read.departure] = w
          BY <1>1, <4>3, <5>2 DEF LocalInv, ItsBus
        <5>4. new.departure = old.departure
          BY <1>2, <4>1, <5>1
        <5> QED BY <4>1, <5>1, <5>3, <5>4
      <4> QED BY <4>2, <4>3
    <3> QED BY <3>1, <3>2
  <2> QED BY <1>3, <2>4, <2>5
<1> QED BY <1>2, <1>3, <1>4

(* Another transaction's commit: where x made room or took it, w holds no lock,
   and everywhere else nothing w relies on has changed. *)
LEMMA BystanderCommit ==
  ASSUME Inv, TypeOK', NEW w \in Writer, NEW x \in Writer, w # x, Commit(x)
  PROVE  LocalInv(w)'
<1> DEFINE old(r) == reservation[r]
           new(r) == View(x, r)
           heldBy(y, d) == d = None \/ holder[d] = y
<1>1. /\ TypeOK /\ RowsExclusive /\ LocalInv(w) /\ LocalInv(x)
      /\ pc'[w] = pc[w] /\ mem'[w] = mem[w] /\ begun'[w] = begun[w] /\ written'[w] = written[w]
      /\ departure' = departure
      /\ \A d \in DepartureId : holder[d] = w => holder'[d] = w
      /\ \A r \in ReservationId : reservation'[r] = new(r)
  BY WriterSteps DEF Inv, WriterStep, Statement, OwnStep, Commit
<1>2. ASSUME NEW r \in ReservationId
      PROVE  /\ new(r) # None /\ old(r) # None => new(r).departure = old(r).departure
             /\ old(r) # None => new(r) # None
             /\ SameRoom(new(r), old(r)) \/ (new(r) # None /\ heldBy(x, new(r).departure))
  BY CommitPlans
<1>3. ASSUME NEW r \in ReservationId
      PROVE  \/ View(w, r)' = View(w, r) /\ new(r) = old(r)
             \/ View(w, r)' = new(r) /\ View(w, r) = old(r)
  BY CommitPlans
<1>4. ASSUME NEW r \in ReservationId
      PROVE  /\ View(w, r) # None => View(w, r)' # None
             /\ View(w, r) # None => View(w, r)'.departure = View(w, r).departure
  BY <1>2, <1>3
<1>5. Shape(w)'
  BY <1>1 DEF LocalInv, Shape, Req
<1>6. LinkExists(w)'
  BY <1>1, <1>4 DEF LocalInv, LinkExists, TypeOK, Memory, Link
<1>7. TodoExists(w)'
  <2>1. mem[w].todo \subseteq ReservationId
    BY <1>1 DEF TypeOK, Memory
  <2> QED BY <1>1, <1>4, <2>1 DEF LocalInv, TodoExists, Req
<1>8. ItsBus(w)'
  <2>1. mem[w].read # None => mem[w].read.departure \in DepartureId \cup {None}
    BY <1>1 DEF TypeOK, Memory, ReservationRow
  <2>2. OneRowRequest(w) /\ pc[w] # "idle" => Req(w).id \in ReservationId
    BY <1>1, RequestKinds
    DEF LocalInv, Shape, OneRowRequest, UpdateRequest, MoveRequest, CancelRequest
  <2> QED BY <1>1, <1>2, <2>1, <2>2 DEF LocalInv, ItsBus, OneRowRequest, Req
<1>9. EveryBus(w)'
  <2>1. \A i : (NamedDeparture(Req(w).items[i]))' = NamedDeparture(Req(w).items[i])
    BY <1>1 DEF NamedDeparture, Candidates, Req
  <2>2. (NamedDeparture(CurrentItem(w)))' = NamedDeparture(CurrentItem(w))
    BY <1>1 DEF NamedDeparture, Candidates, CurrentItem, Req
  <2> QED BY <1>1, <2>1, <2>2 DEF LocalInv, EveryBus, Req
<1>10. ASSUME NEW r \in ReservationId
       PROVE  \/ /\ SameRoom(Planned(w, r)', Planned(w, r))
                 /\ SameRoom(new(r), old(r))
              \/ /\ SameRoom(Planned(w, r)', new(r))
                 /\ new(r) # None /\ heldBy(x, new(r).departure)
  BY CommitPlans
<1>11. OnHeldBuses(w)'
  <2> SUFFICES ASSUME NEW r \in ReservationId, Planned(w, r)' # None
               PROVE  /\ new(r) # None => Planned(w, r)'.departure = new(r).departure
                      /\ \/ SameRoom(Planned(w, r)', new(r))
                         \/ /\ ~Gone(new(r))
                            /\ \/ Planned(w, r)'.departure = None
                               \/ /\ holder'[Planned(w, r)'.departure] = w
                                  /\ departure[Planned(w, r)'.departure] # None
    BY <1>1 DEF OnHeldBuses, SameRoom
  <2>1. CASE SameRoom(Planned(w, r)', new(r))
    BY <2>1 DEF SameRoom
  <2>2. CASE SameRoom(Planned(w, r)', Planned(w, r)) /\ SameRoom(new(r), old(r))
    <3>1. Planned(w, r) # None /\ Planned(w, r)'.departure = Planned(w, r).departure
      BY <2>2 DEF SameRoom
    <3>2. /\ old(r) # None => Planned(w, r).departure = old(r).departure
          /\ \/ SameRoom(Planned(w, r), old(r))
             \/ /\ ~Gone(old(r))
                /\ \/ Planned(w, r).departure = None
                   \/ /\ holder[Planned(w, r).departure] = w
                      /\ departure[Planned(w, r).departure] # None
      BY <1>1, <3>1 DEF LocalInv, OnHeldBuses
    <3>3. Planned(w, r).departure \in DepartureId \cup {None}
      BY <1>1, <3>1, PlannedType DEF LocalInv, ReservationRow
    <3>4. CASE SameRoom(Planned(w, r), old(r))
      <4>1. SameRoom(Planned(w, r)', new(r))
        BY <2>2, <3>4, SameRoomRelation
      <4> QED BY <2>1, <4>1
    <3>5. /\ new(r) # None => new(r).departure = old(r).departure /\ old(r) # None
          /\ Gone(new(r)) => Gone(old(r))
      BY <2>2 DEF SameRoom, Gone
    <3> QED BY <1>1, <3>1, <3>2, <3>3, <3>4, <3>5
  <2> QED BY <1>10, <2>1, <2>2
<1>12. NoNewClash(w)'
  <2> SUFFICES ASSUME NEW r \in ReservationId, NEW s \in ReservationId, r # s,
                      Clash(Planned(w, r)', Planned(w, s)')
               PROVE  Clash(new(r), new(s))
    BY <1>1, ClashLater
  <2> DEFINE d == Planned(w, r)'.departure
  <2>1. /\ Planned(w, r)' # None /\ Planned(w, s)' # None
        /\ Planned(w, s)'.departure = d /\ d # None
    BY DEF Clash, IsActive
  <2>2. CASE holder[d] = x
    <3>1. ASSUME NEW q \in ReservationId, Planned(w, q)' # None, Planned(w, q)'.departure = d
          PROVE  SameRoom(Planned(w, q)', new(q))
      <4>1. CASE SameRoom(Planned(w, q)', Planned(w, q)) /\ SameRoom(new(q), old(q))
        <5>1. Planned(w, q) # None /\ Planned(w, q).departure = d
          BY <3>1, <4>1 DEF SameRoom
        <5>2. SameRoom(Planned(w, q), old(q))
          BY <1>1, <2>1, <2>2, <5>1 DEF LocalInv, OnHeldBuses
        <5> QED BY <4>1, <5>2, SameRoomRelation
      <4> QED BY <1>10, <4>1
    <3>2. SameRoom(Planned(w, r)', new(r)) /\ SameRoom(Planned(w, s)', new(s))
      BY <2>1, <3>1
    <3> QED BY <3>2, ClashSameRoom
  <2>3. CASE holder[d] # x
    <3>1. ASSUME NEW q \in ReservationId, Planned(w, q)' # None, Planned(w, q)'.departure = d
          PROVE  SameRoom(Planned(w, q)', Planned(w, q)) /\ SameRoom(new(q), old(q))
      <4>1. CASE SameRoom(Planned(w, q)', new(q)) /\ new(q) # None /\ heldBy(x, new(q).departure)
        <5>1. new(q).departure = d
          BY <3>1, <4>1 DEF SameRoom
        <5> QED BY <2>1, <2>3, <4>1, <5>1
      <4> QED BY <1>10, <4>1
    <3>2. /\ SameRoom(Planned(w, r)', Planned(w, r)) /\ SameRoom(new(r), old(r))
          /\ SameRoom(Planned(w, s)', Planned(w, s)) /\ SameRoom(new(s), old(s))
      BY <2>1, <3>1
    <3>3. Clash(Planned(w, r), Planned(w, s))
      BY <3>2, ClashSameRoom
    <3>4. Clash(old(r), old(s))
      BY <1>1, <3>3 DEF LocalInv, NoNewClash
    <3> QED BY <3>2, <3>4, ClashSameRoom, SameRoomRelation
  <2> QED BY <2>2, <2>3
<1> QED BY <1>5, <1>6, <1>7, <1>8, <1>9, <1>11, <1>12 DEF LocalInv

(* An edit runs when no transaction has planned anything. *)
LEMMA BystanderEdit ==
  ASSUME Inv, NEW w \in Writer, ApplyEdit
  PROVE  LocalInv(w)'
<1>1. /\ pc'[w] = pc[w] /\ mem'[w] = mem[w] /\ begun'[w] = begun[w] /\ written'[w] = written[w]
      /\ pc[w] \in {"idle", "schedule"}
  BY DEF ApplyEdit, Inv, Frozen, InTransaction
<1>2. /\ Shape(w) /\ written[w] = NothingWritten
      /\ mem[w].todo = {} /\ mem[w].link = None
  BY <1>1 DEF Inv, LocalInv, Shape
<1>3. Shape(w)' /\ LinkExists(w)' /\ TodoExists(w)' /\ ItsBus(w)' /\ EveryBus(w)'
  BY <1>1, <1>2
  DEF Shape, LinkExists, TodoExists, ItsBus, EveryBus, OneRowRequest, Req, NothingWritten
<1>4. \A r \in ReservationId : Planned(w, r)' = reservation'[r]
  BY <1>1, <1>2 DEF Planned, PlannedRow, View, NothingWritten
<1>5. OnHeldBuses(w)' /\ NoNewClash(w)'
  BY <1>4 DEF OnHeldBuses, NoNewClash, SameRoom, Clash, OnRoute, Overlap, SegmentOf, IsActive
<1> QED BY <1>3, <1>5 DEF LocalInv

(* Whatever happens that is not a step of w itself. *)
LEMMA BystanderStep ==
  ASSUME Inv, NEW w \in Writer,
         \/ \E x \in Writer \ {w} : WriterStep(x)
         \/ Schedule
         \/ UNCHANGED vars
  PROVE  LocalInv(w)'
<1>1. TypeOK /\ LocalInv(w)
  BY DEF Inv
<1>2. ASSUME NEW x \in Writer \ {w}, WriterStep(x)
      PROVE  LocalInv(w)'
  <2>1. OwnStep(x) /\ (reservation' = reservation \/ Commit(x))
    BY <1>2, WriterSteps
  <2>2. CASE reservation' = reservation
    BY <1>1, <2>1, <2>2, Bystander DEF OwnStep
  <2>3. CASE Commit(x)
    <3>1. TypeOK'
      BY <1>2, StepType DEF WriterStep, Next
    <3> QED BY <2>3, <3>1, BystanderCommit
  <2> QED BY <2>1, <2>2, <2>3
<1>3. CASE RequestEdit \/ AcquireScheduleLockExclusive \/ AbandonEdit \/ UNCHANGED vars
  BY <1>1, <1>3, Bystander
  DEF RequestEdit, AcquireScheduleLockExclusive, AbandonEdit, vars
<1> QED BY <1>2, <1>3, BystanderEdit DEF Schedule

-----------------------------------------------------------------------------
(* The steps of w itself. *)

(* A commit inserts on stored departures, and no edit removes one in use. *)
LEMMA StepReferential ==
  ASSUME Inv, [Next]_vars
  PROVE  Referential'
<1> TypeOK /\ Referential
  BY DEF Inv
<1>1. ASSUME NEW w \in Writer, WriterStep(w)
      PROVE  Referential'
  <2>1. departure' = departure /\ (reservation' = reservation \/ Commit(w)) /\ LocalInv(w)
    BY <1>1, WriterSteps DEF OwnStep, Inv
  <2>2. CASE Commit(w)
    <3>1. \A r \in ReservationId : reservation'[r] = Planned(w, r)
      BY <2>1, <2>2 DEF Commit, LocalInv, Shape, Planned, PlannedRow
    <3> QED BY <2>1, <3>1 DEF Referential, LocalInv, OnHeldBuses, SameRoom
  <2> QED BY <2>1, <2>2 DEF Referential
<1>2. CASE ApplyEdit
  <2>1. PICK e \in Edit :
          /\ EditAllowed(e)
          /\ departure' = [id \in DepartureId |-> Edited(e, id)]
          /\ reservation' = [r \in ReservationId |-> Resettled(e, reservation[r])]
    BY <1>2 DEF ApplyEdit
  <2>2. ASSUME NEW r \in ReservationId, reservation'[r] # None, reservation'[r].departure # None
        PROVE  departure'[reservation'[r].departure] # None
    <3> DEFINE row == reservation[r]
    <3>1. row \in ReservationRow /\ reservation'[r].departure = row.departure
      BY <2>1, <2>2 DEF Resettled, TypeOK, ReservationRow
    <3>2. row.departure \in DepartureId /\ departure[row.departure] # None
      BY <2>2, <3>1, NoneAssumption DEF Referential, ReservationRow
    <3>3. Referenced(row.departure)
      BY <3>1, NoneAssumption DEF Referenced
    <3>4. CASE e.kind = "delete" /\ row.departure \in Reached(e)
      BY <2>1, <3>3, <3>4 DEF EditAllowed
    <3>5. CASE e.kind = "delete" /\ row.departure \notin Reached(e)
      BY <2>1, <3>1, <3>2, <3>5 DEF Edited
    <3>6. CASE e.kind # "delete"
      BY <2>1, <3>1, <3>2, <3>3, <3>6, EditedType
    <3> QED BY <3>4, <3>5, <3>6
  <2> QED BY <2>2 DEF Referential
<1>3. CASE RequestEdit \/ AcquireScheduleLockExclusive \/ AbandonEdit \/ UNCHANGED vars
  BY <1>3 DEF Referential, RequestEdit, AcquireScheduleLockExclusive, AbandonEdit, vars
<1> QED BY <1>1, <1>2, <1>3 DEF Next, WriterStep, Schedule

(* A transaction that has ended relies on nothing. *)
LEMMA Ended ==
  ASSUME NEW w \in Writer, pc'[w] = "idle", mem'[w] = Blank, written'[w] = NothingWritten
  PROVE  LocalInv(w)'
<1>1. /\ Shape(w)' /\ LinkExists(w)' /\ TodoExists(w)' /\ ItsBus(w)' /\ EveryBus(w)'
  BY DEF Shape, LinkExists, TodoExists, ItsBus, EveryBus, OneRowRequest, Req, Blank
<1>2. \A r \in ReservationId : Planned(w, r)' = reservation'[r]
  BY DEF Planned, PlannedRow, View, NothingWritten, Blank
<1>3. OnHeldBuses(w)' /\ NoNewClash(w)'
  BY <1>2 DEF OnHeldBuses, NoNewClash, SameRoom, Clash, OnRoute, Overlap, SegmentOf, IsActive
<1> QED BY <1>1, <1>3 DEF LocalInv

(* Refused, failed or committed: it is over. *)
LEMMA EndedStep ==
  ASSUME TypeOK, NEW w \in Writer, NEW code, End(w, code)
  PROVE  LocalInv(w)'
BY Ended DEF End, TypeOK

(* While the departures and the reservations stay, only new plans can clash. *)
LEMMA NoNewClashLater ==
  ASSUME NEW w \in Writer, UNCHANGED <<departure, reservation>>,
         \A r, s \in ReservationId :
           r # s /\ Clash(Planned(w, r)', Planned(w, s)') => Clash(reservation[r], reservation[s])
  PROVE  NoNewClash(w)'
<1>1. \A a, b : Clash(a, b)' <=> Clash(a, b)
  BY DEF Clash, OnRoute, Overlap, SegmentOf, IsActive
<1> SUFFICES ASSUME NEW r \in ReservationId, NEW s \in ReservationId, r # s,
                    Clash(Planned(w, r), Planned(w, s))'
             PROVE  Clash(reservation[r], reservation[s])'
  BY DEF NoNewClash
<1>2. Clash(Planned(w, r)', Planned(w, s)')
  BY DEF Clash, OnRoute, Overlap, SegmentOf, IsActive
<1>3. Clash(reservation[r], reservation[s])
  BY <1>2
<1> QED BY <1>3 DEF Clash, OnRoute, Overlap, SegmentOf, IsActive

(* A step after which w plans the same room for every reservation. *)
LEMMA SamePlans ==
  ASSUME TypeOK, NEW w \in Writer, LocalInv(w), UNCHANGED <<departure, reservation>>,
         \A r \in ReservationId : SameRoom(Planned(w, r)', Planned(w, r)),
         \A d \in DepartureId : holder[d] = w => holder'[d] = w
  PROVE  OnHeldBuses(w)' /\ NoNewClash(w)'
<1>1. OnHeldBuses(w)'
  <2> SUFFICES ASSUME NEW r \in ReservationId, Planned(w, r)' # None
               PROVE  /\ reservation[r] # None => Planned(w, r)'.departure = reservation[r].departure
                      /\ \/ SameRoom(Planned(w, r)', reservation[r])
                         \/ /\ ~Gone(reservation[r])
                            /\ \/ Planned(w, r)'.departure = None
                               \/ /\ holder'[Planned(w, r)'.departure] = w
                                  /\ departure[Planned(w, r)'.departure] # None
    BY DEF OnHeldBuses, SameRoom
  <2>1. Planned(w, r) # None /\ Planned(w, r)'.departure = Planned(w, r).departure
    BY DEF SameRoom
  <2>2. Planned(w, r).departure \in DepartureId \cup {None}
    BY <2>1, PlannedType DEF LocalInv, ReservationRow
  <2>3. SameRoom(Planned(w, r), reservation[r]) => SameRoom(Planned(w, r)', reservation[r])
    BY SameRoomRelation
  <2> QED BY <2>1, <2>2, <2>3 DEF LocalInv, OnHeldBuses
<1>2. NoNewClash(w)'
  <2>1. ASSUME NEW r \in ReservationId, NEW s \in ReservationId, r # s,
               Clash(Planned(w, r)', Planned(w, s)')
        PROVE  Clash(reservation[r], reservation[s])
    <3>1. Clash(Planned(w, r), Planned(w, s))
      BY <2>1, ClashSameRoom
    <3> QED BY <2>1, <3>1 DEF LocalInv, NoNewClash
  <2> QED BY <2>1, NoNewClashLater
<1> QED BY <1>1, <1>2

(* A step that neither writes a row nor plans to. *)
LEMMA NothingPlanned ==
  ASSUME TypeOK, NEW w \in Writer, LocalInv(w), UNCHANGED <<departure, reservation>>,
         written'[w] = written[w], mem[w].todo = {}, mem'[w].todo = {},
         \A d \in DepartureId : holder[d] = w => holder'[d] = w
  PROVE  OnHeldBuses(w)' /\ NoNewClash(w)'
<1>1. \A r \in ReservationId : Planned(w, r)' = Planned(w, r)
  BY DEF Planned, PlannedRow, View
<1> QED BY <1>1, SamePlans, SameRoomRelation

(* A request is sent, and its transaction gets the schedule lock. *)
LEMMA BeginKeeps ==
  ASSUME TypeOK, NEW w \in Writer, LocalInv(w), Submit(w) \/ AcquireScheduleLockShared(w)
  PROVE  LocalInv(w)'
<1>1. /\ UNCHANGED <<departure, reservation, holder, written>>
      /\ pc[w] \in {"idle", "schedule"} /\ pc'[w] \in {"schedule", "name"}
      /\ mem'[w].todo = mem[w].todo /\ mem'[w].link = mem[w].link /\ mem'[w].made = mem[w].made
      /\ mem'[w].request \in Request /\ begun'[w] # 0
  BY DEF LocalInv, Shape, Submit, AcquireScheduleLockShared, Goto, TypeOK, Memory, Req, schedule
<1>2. mem[w].todo = {} /\ mem[w].link = None /\ mem[w].made = <<>> /\ written[w] = NothingWritten
  BY <1>1 DEF LocalInv, Shape
<1>3. OnHeldBuses(w)' /\ NoNewClash(w)'
  BY <1>1, <1>2, NothingPlanned
<1>4. /\ Shape(w)' /\ LinkExists(w)' /\ TodoExists(w)' /\ ItsBus(w)' /\ EveryBus(w)'
  BY <1>1, <1>2
  DEF Shape, LinkExists, TodoExists, ItsBus, EveryBus, OneRowRequest, Req, NothingWritten
<1> QED BY <1>3, <1>4 DEF LocalInv

(* The first reads name the buses to lock. *)
LEMMA NameKeeps ==
  ASSUME TypeOK, NEW w \in Writer, LocalInv(w), Name(w)
  PROVE  LocalInv(w)'
<1>1. Shape(w) /\ pc[w] = "name"
  BY DEF Name, NameCreate, NameOne, NameGroup, NameMerge, At, LocalInv
<1>2. /\ mem[w].todo = {} /\ mem[w].link = None /\ mem[w].made = <<>>
      /\ written[w] = NothingWritten /\ Req(w) \in Request /\ begun[w] # 0
  BY <1>1 DEF Shape
<1>3. CASE \E code : Rollback(w, code)
  BY <1>3, EndedStep DEF Rollback
<1>4. ASSUME NEW m, Goto(w, "lock", m),
             m.request = Req(w), m.todo = {}, m.link = None, m.made = <<>>,
             OneRowRequest(w) =>
               /\ m.read # None
               /\ m.read = reservation[Req(w).id]
               /\ m.read.departure = None => Req(w).op = "cancel"
               /\ m.read.departure \in m.want \cup {None},
             Req(w).op = "create" =>
               \A i \in DOMAIN Req(w).items :
                 LET d == NamedDeparture(Req(w).items[i]) IN
                 d \in DepartureId /\ (departure[d] # None => d \in m.want)
      PROVE  LocalInv(w)'
  <2>1. /\ UNCHANGED <<departure, reservation, holder, written, begun>>
        /\ pc'[w] = "lock" /\ mem'[w] = m
    BY <1>4 DEF Goto, TypeOK, schedule
  <2>2. OnHeldBuses(w)' /\ NoNewClash(w)'
    BY <1>2, <1>4, <2>1, NothingPlanned
  <2>3. Shape(w)' /\ LinkExists(w)' /\ TodoExists(w)'
    BY <1>2, <1>4, <2>1 DEF Shape, LinkExists, TodoExists, Req, NothingWritten
  <2>4. ItsBus(w)'
    BY <1>2, <1>4, <2>1, NoneAssumption DEF ItsBus, OneRowRequest, Req
  <2>5. EveryBus(w)'
    <3>0. Req(w)' = Req(w)
      BY <1>4, <2>1 DEF Req
    <3>1. \A i : (NamedDeparture(Req(w).items[i]))' = NamedDeparture(Req(w).items[i])
      BY <2>1, <3>0 DEF NamedDeparture, Candidates
    <3> QED BY <1>2, <1>4, <2>1, <3>0, <3>1 DEF EveryBus
  <2> QED BY <2>2, <2>3, <2>4, <2>5 DEF LocalInv
<1>5. mem[w] \in Memory
  BY DEF TypeOK
<1>6. CASE NameCreate(w)
  <2> DEFINE items == Req(w).items
             want == {d \in DepartureId : d \in {NamedDeparture(items[i]) : i \in DOMAIN items}
                                          /\ departure[d] # None}
             m == [mem[w] EXCEPT !.want = want]
  <2>1. CASE (\A i \in DOMAIN items : Nameable(items[i])) /\ Goto(w, "lock", m)
    <3>1. Req(w) \in CreateRequest /\ ~OneRowRequest(w)
      BY <1>2, <1>6, RequestKinds DEF NameCreate, At, OneRowRequest
    <3>2. ASSUME NEW i \in DOMAIN items PROVE NamedDeparture(items[i]) \in DepartureId
      <4>1. items[i].departure \in DepartureId \cup {None} /\ Nameable(items[i])
        <5>1. items[i] \in Item
          BY <3>1 DEF CreateRequest
        <5> QED BY <2>1, <5>1 DEF Item
      <4>2. CASE items[i].departure = None
        <5>1. \E d \in DepartureId : d \in Candidates(items[i])
          BY <4>1, <4>2 DEF Nameable
        <5> QED BY <4>2, <5>1 DEF NamedDeparture
      <4> QED BY <4>1, <4>2 DEF NamedDeparture
    <3>3. /\ m.request = Req(w) /\ m.todo = {} /\ m.link = None /\ m.made = <<>> /\ m.want = want
      BY <1>2, <1>5 DEF Memory, Req
    <3> HIDE DEF m
    <3> QED BY <1>4, <2>1, <3>1, <3>2, <3>3
  <2> QED BY <1>3, <1>6, <2>1 DEF NameCreate
<1>7. CASE NameOne(w)
  <2> DEFINE row == reservation[Req(w).id]
             m == [mem[w] EXCEPT !.read = row, !.want = {row.departure} \ {None}]
  <2>1. CASE row # None /\ (row.departure = None => Req(w).op = "cancel") /\ Goto(w, "lock", m)
    <3>1. Req(w).op # "create"
      BY <1>7 DEF NameOne, At
    <3>2. /\ m.request = Req(w) /\ m.todo = {} /\ m.link = None /\ m.made = <<>>
          /\ m.want = {row.departure} \ {None} /\ m.read = row
      BY <1>2, <1>5 DEF Memory, Req
    <3> HIDE DEF m
    <3> QED BY <1>4, <2>1, <3>1, <3>2
  <2> QED BY <1>3, <1>7, <2>1 DEF NameOne
<1>8. ASSUME NEW ds, Goto(w, "lock", [mem[w] EXCEPT !.want = ds]), Req(w).op \in {"group", "merge"}
      PROVE  LocalInv(w)'
  <2> DEFINE m == [mem[w] EXCEPT !.want = ds]
  <2>1. m.request = Req(w) /\ m.todo = {} /\ m.link = None /\ m.made = <<>>
    BY <1>2, <1>5 DEF Memory, Req
  <2>2. ~OneRowRequest(w) /\ Req(w).op # "create"
    BY <1>8 DEF OneRowRequest
  <2>3. Goto(w, "lock", m)
    BY <1>8
  <2> HIDE DEF m
  <2> QED BY <1>4, <2>1, <2>2, <2>3
<1> QED BY <1>3, <1>6, <1>7, <1>8 DEF Name, NameGroup, NameMerge, At

(* What Goto does to w, and to nobody else. *)
LEMMA GotoFacts ==
  ASSUME TypeOK, NEW w \in Writer, NEW phase, NEW m, Goto(w, phase, m)
  PROVE  /\ UNCHANGED <<departure, reservation, holder, written, begun>>
         /\ pc'[w] = phase /\ mem'[w] = m /\ Req(w)' = m.request
         /\ \A r : View(w, r)' = View(w, r)
BY DEF Goto, TypeOK, schedule, Req, View

(* A batch's departures are named alike while the departures stay. *)
LEMMA NamesKept ==
  ASSUME NEW w \in Writer, departure' = departure, Req(w)' = Req(w)
  PROVE  /\ \A i : (NamedDeparture(Req(w).items[i]))' = NamedDeparture(Req(w).items[i])
         /\ mem'[w].made = mem[w].made =>
              (NamedDeparture(CurrentItem(w)))' = NamedDeparture(CurrentItem(w))
<1>1. \A i : (NamedDeparture(Req(w).items[i]))' = NamedDeparture(Req(w).items[i])
  BY DEF NamedDeparture, Candidates
<1>2. ASSUME mem'[w].made = mem[w].made
      PROVE  (NamedDeparture(CurrentItem(w)))' = NamedDeparture(CurrentItem(w))
  BY <1>2 DEF CurrentItem, NamedDeparture, Candidates
<1> QED BY <1>1, <1>2

(* The buses are locked one at a time, and the transaction goes on. *)
LEMMA LockKeeps ==
  ASSUME TypeOK, NEW w \in Writer, LocalInv(w), LockDeparture(w) \/ DeparturesLocked(w)
  PROVE  LocalInv(w)'
<1>1. /\ UNCHANGED <<departure, reservation, written, begun>>
      /\ pc[w] = "lock" /\ pc'[w] \in {"lock", "check"}
      /\ Req(w)' = Req(w) /\ mem'[w].todo = mem[w].todo /\ mem'[w].link = mem[w].link
      /\ mem'[w].made = mem[w].made /\ mem'[w].read = mem[w].read
      /\ pc'[w] = "check" => mem[w].want = {}
      /\ \A d \in DepartureId : holder[d] = w => holder'[d] = w
  BY DEF LockDeparture, DeparturesLocked, Goto, TypeOK, Memory, Req, schedule
<1>2. \A d \in DepartureId : d \in mem[w].want =>
        holder'[d] = w \/ (pc'[w] = "lock" /\ d \in mem'[w].want)
  BY DEF LockDeparture, DeparturesLocked, Goto, TypeOK, Memory
<1>3. /\ mem[w].todo = {} /\ mem[w].link = None /\ mem[w].made = <<>>
      /\ written[w] = NothingWritten /\ Req(w) \in Request /\ begun[w] # 0
  BY <1>1 DEF LocalInv, Shape
<1>4. OnHeldBuses(w)' /\ NoNewClash(w)'
  BY <1>1, <1>3, NothingPlanned
<1>5. Shape(w)' /\ LinkExists(w)' /\ TodoExists(w)'
  BY <1>1, <1>3 DEF Shape, LinkExists, TodoExists, NothingWritten
<1>6. ItsBus(w)'
  <2>1. mem[w].read # None => mem[w].read.departure \in DepartureId \cup {None}
    BY DEF TypeOK, Memory, ReservationRow
  <2>2. mem[w].want \subseteq DepartureId
    BY DEF TypeOK, Memory
  <2> QED BY <1>1, <1>2, <2>1, <2>2 DEF LocalInv, ItsBus, OneRowRequest
<1>7. EveryBus(w)'
  <2>1. Req(w).op = "create" => 0 < Len(Req(w).items)
    BY <1>3, RequestKinds DEF CreateRequest, ValidBatch
  <2> QED BY <1>1, <1>2, <1>3, <2>1, NamesKept DEF LocalInv, EveryBus
<1> QED BY <1>4, <1>5, <1>6, <1>7 DEF LocalInv

(* An item is checked and its link settled; it is not written yet. *)
LEMMA CheckItemKeeps ==
  ASSUME TypeOK, NEW w \in Writer, LocalInv(w), CheckItem(w)
  PROVE  LocalInv(w)'
<1> DEFINE item == CurrentItem(w)
           o == OutboundOf(w, item)
           link == LinkOrNone(w, o)
<1>1. CASE Rollback(w, "refused")
  BY <1>1, EndedStep DEF Rollback
<1>2. CASE /\ Bookable(item, NamedDeparture(item))
           /\ o # None => Exists(w, o)
           /\ Goto(w, AfterLink(link), [mem[w] EXCEPT !.link = link])
  <2>1. /\ mem[w] \in Memory /\ pc[w] = "check" /\ Req(w).op = "create" /\ Req(w) \in Request
        /\ mem[w].todo = {} /\ begun[w] # 0
    BY DEF TypeOK, LocalInv, Shape, CheckItem, At
  <2>2. o \in ReservationId \cup {None} /\ (link # None => o # None /\ link.of = o)
    BY <1>2, <2>1, ItemType, LinkType DEF CheckItem, LocalInv
  <2> HIDE DEF link
  <2>3. /\ UNCHANGED <<departure, reservation, holder, written, begun>>
        /\ pc'[w] = AfterLink(link) /\ mem'[w] = [mem[w] EXCEPT !.link = link]
        /\ \A r : View(w, r)' = View(w, r)
    BY <1>2, GotoFacts
  <2>4. /\ Req(w)' = Req(w) /\ mem'[w].todo = {} /\ mem'[w].made = mem[w].made
        /\ mem'[w].link = link
    BY <2>1, <2>3 DEF Memory, Req
  <2>5. OnHeldBuses(w)' /\ NoNewClash(w)'
    BY <2>1, <2>3, <2>4, NothingPlanned
  <2>6. Shape(w)' /\ TodoExists(w)' /\ ItsBus(w)'
    BY <2>1, <2>3, <2>4 DEF Shape, TodoExists, ItsBus, OneRowRequest, AfterLink
  <2>7. LinkExists(w)'
    BY <1>2, <2>2, <2>3, <2>4 DEF LinkExists, Exists
  <2>8. EveryBus(w)'
    <3>1. departure[NamedDeparture(item)] # None /\ pc'[w] \in {"slot", "stamp", "write"}
      BY <1>2, <2>3 DEF Bookable, AfterLink
    <3>2. EveryBus(w)
      BY DEF LocalInv
    <3>3. /\ \A i : (NamedDeparture(Req(w).items[i]))' = NamedDeparture(Req(w).items[i])
          /\ (NamedDeparture(CurrentItem(w)))' = NamedDeparture(item)
      BY <2>3, <2>4, NamesKept
    <3> HIDE DEF item
    <3> QED BY <2>1, <2>3, <2>4, <3>1, <3>2, <3>3 DEF EveryBus, item
  <2> QED BY <2>5, <2>6, <2>7, <2>8 DEF LocalInv
<1> QED BY <1>1, <1>2 DEF CheckItem, LinkAllowed

(* A transaction that finds the return slot free goes on as it was. *)
LEMMA CheckSlotKeeps ==
  ASSUME TypeOK, NEW w \in Writer, LocalInv(w), CheckSlot(w)
  PROVE  LocalInv(w)'
<1>1. CASE Rollback(w, "refused")
  BY <1>1, EndedStep DEF Rollback
<1>2. ASSUME NEW phase \in {"stamp", "write"}, Goto(w, phase, mem[w])
      PROVE  LocalInv(w)'
  <2>1. /\ UNCHANGED <<departure, reservation, holder, written, begun>>
        /\ pc[w] = "slot" /\ pc'[w] = phase /\ mem'[w] = mem[w] /\ Req(w)' = Req(w)
        /\ \A r : View(w, r)' = View(w, r)
    BY <1>2, GotoFacts DEF CheckSlot, Req
  <2>2. \A r \in ReservationId : SameRoom(Planned(w, r)', Planned(w, r))
    BY <2>1, SameRoomRelation DEF Planned
  <2>3. OnHeldBuses(w)' /\ NoNewClash(w)'
    BY <2>1, <2>2, SamePlans
  <2>4. Shape(w)' /\ LinkExists(w)' /\ TodoExists(w)' /\ ItsBus(w)'
    BY <2>1 DEF LocalInv, Shape, LinkExists, TodoExists, ItsBus, OneRowRequest
  <2>5. EveryBus(w)'
    <3>1. /\ \A i : (NamedDeparture(Req(w).items[i]))' = NamedDeparture(Req(w).items[i])
          /\ (NamedDeparture(CurrentItem(w)))' = NamedDeparture(CurrentItem(w))
      BY <2>1, NamesKept
    <3> QED BY <2>1, <3>1 DEF LocalInv, EveryBus
  <2> QED BY <2>3, <2>4, <2>5 DEF LocalInv
<1> QED BY <1>1, <1>2 DEF CheckSlot

(* A cancellation, an assignment or a merge settles on its rows. *)
LEMMA CheckOtherKeeps ==
  ASSUME TypeOK, NEW w \in Writer, LocalInv(w), CheckCancel(w) \/ CheckMany(w)
  PROVE  LocalInv(w)'
<1>1. CASE Rollback(w, "refused")
  BY <1>1, EndedStep DEF Rollback
<1>2. ASSUME NEW phase \in {"write", "commit"}, NEW m, Goto(w, phase, m),
             m.request = Req(w), m.made = mem[w].made, m.link = mem[w].link,
             m.todo \subseteq ReservationId,
             phase = "commit" => m.todo = {},
             Req(w).op = "cancel" =>
               m.read # None /\ m.read.departure = mem[w].read.departure,
             Req(w).op = "cancel" /\ phase = "write" => m.todo = {Req(w).id},
             \A r \in m.todo :
               /\ View(w, r) # None
               /\ Req(w).op = "cancel" => View(w, r).departure = mem[w].read.departure
      PROVE  LocalInv(w)'
  <2>1. /\ pc[w] = "check" /\ Req(w) # None /\ Req(w).op \in {"cancel", "group", "merge"}
        /\ Req(w) \in Request /\ begun[w] # 0 /\ mem[w].todo = {} /\ mem[w].link = None
    BY DEF LocalInv, Shape, CheckCancel, CheckMany, At
  <2>2. /\ UNCHANGED <<departure, reservation, holder, written, begun>>
        /\ pc'[w] = phase /\ mem'[w] = m /\ Req(w)' = Req(w)
        /\ \A r : View(w, r)' = View(w, r)
    BY <1>2, GotoFacts
  <2>3. \A r \in ReservationId : Planned(w, r)' = Planned(w, r)
    BY <1>2, <2>1, <2>2 DEF Planned, PlannedRow, Req
  <2>4. OnHeldBuses(w)' /\ NoNewClash(w)'
    BY <2>2, <2>3, SamePlans, SameRoomRelation
  <2>5. Shape(w)' /\ LinkExists(w)'
    BY <1>2, <2>1, <2>2 DEF Shape, LinkExists
  <2>6. TodoExists(w)'
    BY <1>2, <2>1, <2>2 DEF TodoExists
  <2>7. ItsBus(w)' /\ EveryBus(w)'
    BY <1>2, <2>1, <2>2 DEF LocalInv, ItsBus, EveryBus, OneRowRequest
  <2> QED BY <2>4, <2>5, <2>6, <2>7 DEF LocalInv
<1>3. mem[w] \in Memory /\ mem[w].todo = {}
  BY DEF TypeOK, LocalInv, Shape, CheckCancel, CheckMany, At
<1>4. CASE CheckCancel(w)
  <2> DEFINE id == Req(w).id
             row == Reread(w)
  <2>1. /\ id \in ReservationId /\ Req(w).op = "cancel" /\ pc[w] = "check"
        /\ row # None /\ row.departure = mem[w].read.departure /\ mem[w].read # None
    <3>1. Req(w).op = "cancel" /\ pc[w] = "check" /\ Req(w) \in Request /\ written[w] = NothingWritten
      BY <1>4 DEF CheckCancel, At, LocalInv, Shape
    <3>2. id \in ReservationId
      BY <3>1, RequestKinds DEF CancelRequest
    <3>3. row = reservation[id]
      BY <3>1, <3>2 DEF Reread, View, NothingWritten
    <3> QED BY <1>4, <3>1, <3>2, <3>3 DEF CheckCancel, At, LocalInv, ItsBus, OneRowRequest
  <2>2. CASE Goto(w, "write", [mem[w] EXCEPT !.read = row, !.todo = {id}])
    <3> DEFINE m == [mem[w] EXCEPT !.read = row, !.todo = {id}]
    <3>1. /\ m.request = Req(w) /\ m.made = mem[w].made /\ m.link = mem[w].link
          /\ m.read = row /\ m.todo = {id}
      BY <1>3 DEF Memory, Req
    <3>2. View(w, id) = row
      BY DEF Reread
    <3>3. Goto(w, "write", m)
      BY <2>2
    <3> HIDE DEF m, row
    <3> QED BY <1>2, <2>1, <3>1, <3>2, <3>3
  <2>3. CASE Goto(w, "commit", mem[w])
    BY <1>2, <1>3, <2>1, <2>3 DEF Req
  <2> QED BY <1>1, <1>4, <2>2, <2>3 DEF CheckCancel
<1>5. CASE CheckMany(w)
  <2> DEFINE q == Req(w)
             rows == {r \in ReservationId : MatchesMany(q, View(w, r)) /\ (q.op = "group" => r \in q.ids)}
             m == [mem[w] EXCEPT !.todo = rows]
             phase == IF rows = {} THEN "commit" ELSE "write"
  <2>1. /\ m.request = q /\ m.made = mem[w].made /\ m.link = mem[w].link /\ m.todo = rows
        /\ phase \in {"write", "commit"} /\ (phase = "commit" => rows = {})
    BY <1>3 DEF Memory, Req
  <2>2. q.op # "cancel" /\ Goto(w, phase, m)
    BY <1>5 DEF CheckMany, At
  <2>3. \A r \in rows : r \in ReservationId /\ View(w, r) # None
    BY DEF MatchesMany, IsActive
  <2> HIDE DEF m, rows, phase
  <2> QED BY <1>2, <2>1, <2>2, <2>3
<1> QED BY <1>4, <1>5

-----------------------------------------------------------------------------
(* The checks that decide a seat. *)

(* A row in a seat that is free clashes with no reservation that was counted,
   whichever of the two is asked about first. *)
LEMMA FreeNoClash ==
  ASSUME TypeOK, NEW w \in Writer, NEW d \in DepartureId, departure[d] # None,
         NEW row \in ReservationRow, row.departure = d,
         NEW excluded, SeatFree(w, d, row, row.seat, excluded),
         NEW r \in ReservationId \ excluded
  PROVE  ~Clash(View(w, r), row) /\ ~Clash(row, View(w, r))
<1> DEFINE other == View(w, r)
<1>1. ASSUME IsActive(other), other.departure = d, OnRoute(departure[d], other),
             OnRoute(departure[d], row), other.seat = row.seat
      PROVE  ~Overlap(departure[d], other, row) /\ ~Overlap(departure[d], row, other)
  <2>1. ~Overlap(departure[d], other, row)
    BY <1>1 DEF SeatFree, Others
  <2>2. departure[d].route \in Seq(Station)
    BY DEF TypeOK, DepartureRow
  <2>3. RouteStationOrder(departure[d].route) \in [RouteStations(departure[d].route) -> Nat]
    BY <2>2, StationOrderType
  <2>4. SegmentOf(departure[d], other) \in Segment /\ SegmentOf(departure[d], row) \in Segment
    BY <1>1, <2>3 DEF SegmentOf, Segment, OnRoute
  <2> QED BY <2>1, <2>4, OverlapSymmetric DEF Overlap
<1> QED BY <1>1 DEF Clash

(* New plans for the reservations of T, in seats that are free of everybody
   else's, on a bus that is held. *)
LEMMA NewPlans ==
  ASSUME TypeOK, NEW w \in Writer, LocalInv(w), mem[w].todo = {},
         UNCHANGED <<departure, reservation, holder>>,
         NEW d \in DepartureId, holder[d] = w, departure[d] # None,
         NEW T \in SUBSET ReservationId,
         \A r \in ReservationId \ T : Planned(w, r)' = View(w, r),
         \A r \in T :
           /\ Planned(w, r)' \in ReservationRow /\ Planned(w, r)'.departure = d
           /\ reservation[r] # None => reservation[r].departure = d
           /\ ~Gone(reservation[r])
           /\ SeatFree(w, d, Planned(w, r)', Planned(w, r)'.seat, T),
         \A r, s \in T : r # s => ~Clash(Planned(w, r)', Planned(w, s)')
  PROVE  OnHeldBuses(w)' /\ NoNewClash(w)'
<1>0. \A r \in ReservationId \ T : Planned(w, r) = View(w, r) /\ Planned(w, r)' = Planned(w, r)
  BY DEF Planned, PlannedRow
<1>1. OnHeldBuses(w)'
  <2> SUFFICES ASSUME NEW r \in ReservationId, Planned(w, r)' # None
               PROVE  /\ reservation[r] # None => Planned(w, r)'.departure = reservation[r].departure
                      /\ \/ SameRoom(Planned(w, r)', reservation[r])
                         \/ /\ ~Gone(reservation[r])
                            /\ \/ Planned(w, r)'.departure = None
                               \/ /\ holder[Planned(w, r)'.departure] = w
                                  /\ departure[Planned(w, r)'.departure] # None
    BY DEF OnHeldBuses, SameRoom
  <2>1. CASE r \in T
    BY <2>1
  <2>2. CASE r \notin T
    BY <1>0, <2>2 DEF LocalInv, OnHeldBuses
  <2> QED BY <2>1, <2>2
<1>2. NoNewClash(w)'
  <2>1. ASSUME NEW r \in ReservationId, NEW s \in ReservationId, r # s,
               Clash(Planned(w, r)', Planned(w, s)')
        PROVE  Clash(reservation[r], reservation[s])
    <3>1. CASE r \in T /\ s \in T
      BY <2>1, <3>1
    <3>2. CASE r \in T /\ s \notin T
      <4>1. ~Clash(Planned(w, r)', View(w, s))
        BY <3>2, FreeNoClash
      <4> QED BY <1>0, <2>1, <3>2, <4>1
    <3>3. CASE r \notin T /\ s \in T
      <4>1. ~Clash(View(w, r), Planned(w, s)')
        BY <3>3, FreeNoClash
      <4> QED BY <1>0, <2>1, <3>3, <4>1
    <3>4. CASE r \notin T /\ s \notin T
      BY <1>0, <2>1, <3>4 DEF LocalInv, NoNewClash
    <3> QED BY <3>1, <3>2, <3>3, <3>4
  <2> QED BY <2>1, NoNewClashLater
<1> QED BY <1>1, <1>2

(* What the second read finds: the reservation, still on the bus that is held. *)
LEMMA RereadFacts ==
  ASSUME TypeOK, Referential, NEW w \in Writer, LocalInv(w), pc[w] = "check", OneRowRequest(w)
  PROVE  /\ Req(w).id \in ReservationId /\ Req(w) \in Request /\ begun[w] # 0
         /\ mem[w] \in Memory /\ mem[w].todo = {} /\ mem[w].link = None
         /\ \A r \in ReservationId : View(w, r) = reservation[r]
         /\ Reread(w) = View(w, Req(w).id) /\ Reread(w) \in ReservationRow
         /\ mem[w].read # None /\ Reread(w).departure = mem[w].read.departure
         /\ mem[w].read.departure # None =>
              /\ mem[w].read.departure \in DepartureId
              /\ holder[mem[w].read.departure] = w
              /\ departure[mem[w].read.departure] # None
<1>1. /\ Req(w) \in Request /\ begun[w] # 0 /\ mem[w].todo = {} /\ mem[w].link = None
      /\ written[w] = NothingWritten
  BY DEF LocalInv, Shape, OneRowRequest
<1>2. Req(w).id \in ReservationId
  BY <1>1, RequestKinds DEF OneRowRequest, UpdateRequest, MoveRequest, CancelRequest
<1>3. \A r \in ReservationId : View(w, r) = reservation[r]
  BY <1>1 DEF View, NothingWritten
<1>4. /\ mem[w].read # None /\ reservation[Req(w).id] # None
      /\ reservation[Req(w).id].departure = mem[w].read.departure
      /\ mem[w].read.departure # None => holder[mem[w].read.departure] = w
  BY DEF LocalInv, ItsBus
<1>5. reservation[Req(w).id] \in ReservationRow
  BY <1>2, <1>4 DEF TypeOK
<1>6. mem[w].read.departure # None =>
        mem[w].read.departure \in DepartureId /\ departure[mem[w].read.departure] # None
  BY <1>2, <1>4, <1>5 DEF Referential, ReservationRow
<1> QED BY <1>1, <1>2, <1>3, <1>4, <1>5, <1>6 DEF Reread, TypeOK

(* An update that is accepted has found its seat free. *)
LEMMA CheckUpdateKeeps ==
  ASSUME TypeOK, Referential, NEW w \in Writer, LocalInv(w), CheckUpdate(w)
  PROVE  LocalInv(w)'
<1> DEFINE q == Req(w)
           row == Reread(w)
           d == mem[w].read.departure
           leg == UpdatedLeg(q, row)
           seat == Given(q.seat, row.seat)
           o == OutboundToValidate(q, row)
           link == LinkOrNone(w, o)
           m == [mem[w] EXCEPT !.read = row, !.link = link, !.todo = {q.id}]
<1>1. CASE \E code : Rollback(w, code)
  BY <1>1, EndedStep DEF Rollback
<1>2. CASE /\ row.status = "ACTIVE"
           /\ SeatAvailable(w, d, leg, seat, {q.id})
           /\ o # None => Exists(w, o)
           /\ Goto(w, AfterLink(link), m)
  <2>1. pc[w] = "check" /\ OneRowRequest(w) /\ q.op = "update"
    BY DEF CheckUpdate, At, OneRowRequest
  <2>2. /\ q.id \in ReservationId /\ q \in UpdateRequest /\ begun[w] # 0
        /\ mem[w] \in Memory /\ mem[w].todo = {}
        /\ \A r \in ReservationId : View(w, r) = reservation[r]
        /\ row = View(w, q.id) /\ row \in ReservationRow /\ row.departure = d
    BY <2>1, RereadFacts, RequestKinds
  <2>3. d # None
    BY <2>1 DEF LocalInv, ItsBus
  <2>4. d \in DepartureId /\ holder[d] = w /\ departure[d] # None
    BY <2>1, <2>3, RereadFacts
  <2>5. link \in Link \cup {None} /\ (link # None => o # None /\ link.of = o)
    BY <1>2, <2>2, OutboundType, LinkType
  <2>6. UpdatedRow(q, row, link) \in ReservationRow
    BY <2>2, <2>5, UpdatedRowType
  <2>7. /\ UpdatedRow(q, row, link).departure = d /\ UpdatedRow(q, row, link).seat = seat
        /\ UpdatedRow(q, row, link).from = leg.from /\ UpdatedRow(q, row, link).to = leg.to
    BY <2>2 DEF UpdatedRow, UpdatedLeg
  <2>8. SeatFree(w, d, UpdatedRow(q, row, link), seat, {q.id})
    BY <1>2, <2>7 DEF SeatAvailable, SeatFree, Overlap, SegmentOf
  <2> HIDE DEF link, leg, seat
  <2>9. m.request = q /\ m.todo = {q.id} /\ m.link = link /\ m.made = mem[w].made /\ m.read = row
    BY <2>2 DEF Memory, Req
  <2>10. /\ UNCHANGED <<departure, reservation, holder, written, begun>>
         /\ pc'[w] = AfterLink(link) /\ mem'[w] = m /\ Req(w)' = q
         /\ \A r : View(w, r)' = View(w, r)
    BY ZenonT(60), <1>2, <2>9, GotoFacts
  <2> HIDE DEF row, m, d, q
  <2>11. PICK id \in ReservationId : id = q.id
    BY <2>2
  <2>12. /\ Planned(w, id)' = UpdatedRow(q, row, link)
         /\ \A r \in ReservationId \ {id} : Planned(w, r)' = View(w, r)
    BY <2>1, <2>2, <2>9, <2>10, <2>11 DEF Planned, PlannedRow
  <2>13. OnHeldBuses(w)' /\ NoNewClash(w)'
    <3>1. reservation[id].departure = d /\ ~Gone(reservation[id])
      BY <1>2, <2>2, <2>11 DEF Gone
    <3>2. \A r \in {id} :
            /\ Planned(w, r)' \in ReservationRow /\ Planned(w, r)'.departure = d
            /\ reservation[r] # None => reservation[r].departure = d
            /\ ~Gone(reservation[r])
            /\ SeatFree(w, d, Planned(w, r)', Planned(w, r)'.seat, {id})
      BY <2>6, <2>7, <2>8, <2>11, <2>12, <3>1
    <3>3. \A r, s \in {id} : r # s => ~Clash(Planned(w, r)', Planned(w, s)')
      OBVIOUS
    <3>4. {id} \in SUBSET ReservationId
      OBVIOUS
    <3> QED BY <2>2, <2>4, <2>10, <2>12, <3>2, <3>3, <3>4, NewPlans
  <2>14. Shape(w)'
    BY <2>1, <2>2, <2>9, <2>10, RequestKinds DEF LocalInv, Shape, AfterLink, q
  <2>15. LinkExists(w)'
    BY <1>2, <2>5, <2>9, <2>10 DEF LinkExists, Exists
  <2>16. TodoExists(w)'
    BY <2>1, <2>2, <2>9, <2>10, NoneAssumption DEF TodoExists
  <2>17. ItsBus(w)' /\ EveryBus(w)'
    BY <2>1, <2>2, <2>3, <2>4, <2>9, <2>10, NoneAssumption
    DEF ItsBus, EveryBus, OneRowRequest, AfterLink
  <2> QED BY <2>13, <2>14, <2>15, <2>16, <2>17 DEF LocalInv
<1> QED BY <1>1, <1>2 DEF CheckUpdate, LinkAllowed

(* A seat move that is accepted has found the target seat free, and, when it
   swaps, its own seat free for the reservation it changes with. *)
LEMMA CheckMoveKeeps ==
  ASSUME TypeOK, Referential, NEW w \in Writer, LocalInv(w), CheckMove(w)
  PROVE  LocalInv(w)'
<1> DEFINE q == Req(w)
           source == Reread(w)
           d == mem[w].read.departure
           seatFor(r) == IF r = q.id THEN q.seat ELSE source.seat
<1>1. pc[w] = "check" /\ OneRowRequest(w) /\ q.op = "move"
  BY DEF CheckMove, At, OneRowRequest
<1>2. PICK id \in ReservationId : id = q.id
  BY <1>1, RereadFacts
<1>3. /\ q \in MoveRequest /\ q.seat \in SeatNumber /\ begun[w] # 0
      /\ mem[w] \in Memory /\ mem[w].todo = {} /\ mem[w].link = None
      /\ \A r \in ReservationId : View(w, r) = reservation[r]
      /\ source = View(w, id) /\ source \in ReservationRow /\ source.departure = d
  BY <1>1, <1>2, RereadFacts, RequestKinds DEF MoveRequest
<1>4. d # None
  BY <1>1 DEF LocalInv, ItsBus
<1>5. d \in DepartureId /\ holder[d] = w /\ departure[d] # None
  BY <1>1, <1>4, RereadFacts
<1>6. CASE Rollback(w, "refused")
  BY <1>6, EndedStep DEF Rollback
<1>7. CASE Goto(w, "commit", [mem[w] EXCEPT !.read = source])
  <2> DEFINE m == [mem[w] EXCEPT !.read = source]
  <2>1. m.request = q /\ m.todo = {} /\ m.link = None /\ m.made = mem[w].made
    BY <1>3 DEF Memory, Req
  <2>2. /\ UNCHANGED <<departure, reservation, holder, written, begun>>
        /\ pc'[w] = "commit" /\ mem'[w] = m /\ Req(w)' = q
    BY <1>7, <2>1, GotoFacts
  <2> HIDE DEF m
  <2>3. OnHeldBuses(w)' /\ NoNewClash(w)'
    BY <1>3, <2>1, <2>2, NothingPlanned
  <2>4. /\ Shape(w)' /\ LinkExists(w)' /\ TodoExists(w)' /\ ItsBus(w)' /\ EveryBus(w)'
    BY <1>1, <1>3, <2>1, <2>2
    DEF LocalInv, Shape, LinkExists, TodoExists, ItsBus, EveryBus, OneRowRequest
  <2> QED BY <2>3, <2>4 DEF LocalInv
<1>8. ASSUME NEW partner, NEW T \in SUBSET ReservationId, id \in T,
             Goto(w, "write", [mem[w] EXCEPT !.read = source, !.partner = partner, !.todo = T]),
             \A r \in T : /\ View(w, r) \in ReservationRow /\ View(w, r).departure = d
                          /\ View(w, r).status = "ACTIVE"
                          /\ SeatFree(w, d, View(w, r), seatFor(r), T),
             \A r, s \in T : r # s => seatFor(r) # seatFor(s)
      PROVE  LocalInv(w)'
  <2> DEFINE m == [mem[w] EXCEPT !.read = source, !.partner = partner, !.todo = T]
  <2>1. m.request = q /\ m.todo = T /\ m.link = None /\ m.made = mem[w].made /\ m.read = source
    BY <1>3 DEF Memory, Req
  <2>2. /\ UNCHANGED <<departure, reservation, holder, written, begun>>
        /\ pc'[w] = "write" /\ mem'[w] = m /\ Req(w)' = q
        /\ \A r : View(w, r)' = View(w, r)
    <3>1. Goto(w, "write", m)
      BY <1>8
    <3> HIDE DEF m, q
    <3> QED BY <2>1, <3>1, GotoFacts
  <2> HIDE DEF m
  <2>3. ASSUME NEW r \in T
        PROVE  /\ Planned(w, r)' \in ReservationRow /\ Planned(w, r)'.departure = d
               /\ Planned(w, r)'.seat = seatFor(r)
               /\ reservation[r] # None => reservation[r].departure = d
               /\ ~Gone(reservation[r])
               /\ SeatFree(w, d, Planned(w, r)', Planned(w, r)'.seat, T)
    <3>1. Planned(w, r)' = [View(w, r) EXCEPT !.seat = seatFor(r)]
      BY <1>1, <2>1, <2>2 DEF Planned, PlannedRow
    <3>2. seatFor(r) \in SeatNumber
      BY <1>3 DEF ReservationRow
    <3>3. PICK n \in SeatNumber : n = seatFor(r)
      BY <3>2
    <3> HIDE DEF seatFor
    <3>4. PICK row \in ReservationRow : row = View(w, r)
      BY <1>8
    <3>5. /\ [row EXCEPT !.seat = n] \in ReservationRow
          /\ [row EXCEPT !.seat = n].departure = row.departure
          /\ [row EXCEPT !.seat = n].seat = n
          /\ [row EXCEPT !.seat = n].from = row.from /\ [row EXCEPT !.seat = n].to = row.to
      BY DEF ReservationRow
    <3>6. row.departure = d /\ SeatFree(w, d, row, n, T)
      BY <1>8, <3>3, <3>4
    <3>7. SeatFree(w, d, [row EXCEPT !.seat = n], n, T)
      BY <3>5, <3>6 DEF SeatFree, Overlap, SegmentOf
    <3>8. reservation[r] = row /\ ~Gone(row)
      BY <1>3, <1>8, <3>4 DEF Gone
    <3> QED BY <3>1, <3>3, <3>4, <3>5, <3>6, <3>7, <3>8
  <2>4. \A r \in ReservationId \ T : Planned(w, r)' = View(w, r)
    BY <2>1, <2>2 DEF Planned, PlannedRow
  <2>5. \A r, s \in T : r # s => ~Clash(Planned(w, r)', Planned(w, s)')
    BY <1>8, <2>3 DEF Clash
  <2> HIDE DEF seatFor
  <2>6. OnHeldBuses(w)' /\ NoNewClash(w)'
    BY <1>3, <1>5, <2>2, <2>3, <2>4, <2>5, NewPlans
  <2>7. Shape(w)' /\ LinkExists(w)'
    BY <1>1, <1>3, <2>1, <2>2 DEF LocalInv, Shape, LinkExists, OneRowRequest
  <2>8. TodoExists(w)'
    BY <1>3, <1>8, <2>1, <2>2, NoneAssumption DEF TodoExists
  <2>9. ItsBus(w)' /\ EveryBus(w)'
    BY <1>1, <1>3, <1>4, <1>5, <2>1, <2>2, NoneAssumption DEF ItsBus, EveryBus, OneRowRequest
  <2> QED BY <2>6, <2>7, <2>8, <2>9 DEF LocalInv
<1>9. CASE /\ source.status = "ACTIVE"
           /\ SeatAvailable(w, d, source, q.seat, {id})
           /\ Goto(w, "write", [mem[w] EXCEPT !.read = source, !.partner = None, !.todo = {id}])
  <2>1. \A r \in {id} : /\ View(w, r) \in ReservationRow /\ View(w, r).departure = d
                        /\ View(w, r).status = "ACTIVE"
                        /\ SeatFree(w, d, View(w, r), seatFor(r), {id})
    BY <1>2, <1>3, <1>9 DEF SeatAvailable
  <2>2. \A r, s \in {id} : r # s => seatFor(r) # seatFor(s)
    OBVIOUS
  <2>3. {id} \in SUBSET ReservationId /\ id \in {id}
    OBVIOUS
  <2> HIDE DEF seatFor, source, d, q
  <2> QED BY <1>8, <1>9, <2>1, <2>2, <2>3
<1>10. ASSUME source.status = "ACTIVE",
              NEW r \in Destinations(w, d, source), source.seat # q.seat,
              Swappable(w, d, source, r),
              Goto(w, "write", [mem[w] EXCEPT !.read = source, !.partner = r, !.todo = {id, r}])
       PROVE  LocalInv(w)'
  <2>1. /\ r \in ReservationId /\ r # id /\ View(w, r).departure = d /\ View(w, r) # None
        /\ View(w, r).status = "ACTIVE"
    BY <1>2 DEF Destinations, AtTarget, Others, IsActive
  <2>2. View(w, r) \in ReservationRow
    BY <2>1, ViewType
  <2>3. /\ SeatFree(w, d, source, q.seat, {id, r})
        /\ SeatFree(w, d, View(w, r), source.seat, {id, r})
    BY <1>2, <1>10 DEF Swappable, SeatAvailable
  <2>4. seatFor(id) = q.seat /\ seatFor(r) = source.seat
    BY <1>2, <2>1
  <2>5. \A x \in {id, r} : /\ View(w, x) \in ReservationRow /\ View(w, x).departure = d
                           /\ View(w, x).status = "ACTIVE"
                           /\ SeatFree(w, d, View(w, x), seatFor(x), {id, r})
    BY <1>3, <1>10, <2>1, <2>2, <2>3, <2>4
  <2>6. \A x, y \in {id, r} : x # y => seatFor(x) # seatFor(y)
    BY <1>10, <2>4
  <2>7. {id, r} \in SUBSET ReservationId /\ id \in {id, r}
    BY <2>1
  <2> HIDE DEF seatFor, source, d, q
  <2> QED BY <1>8, <1>10, <2>5, <2>6, <2>7
<1> QED BY <1>2, <1>6, <1>7, <1>9, <1>10 DEF CheckMove

-----------------------------------------------------------------------------
(* The writes. *)

(* Stamping the marker moves nobody. *)
LEMMA StampKeeps ==
  ASSUME TypeOK, NEW w \in Writer, LocalInv(w), Stamp(w)
  PROVE  LocalInv(w)'
<1>1. PICK o \in ReservationId : mem[w].link # None /\ o = mem[w].link.of
  BY DEF LocalInv, Shape, Stamp, TypeOK, Memory, Link
<1>2. PICK row \in ReservationRow : row = View(w, o)
  BY <1>1, ViewType DEF LocalInv, LinkExists
<1>3. PICK mark \in Marker : mark = mem[w].link.marker
  BY <1>1 DEF TypeOK, Memory, Link
<1> DEFINE stamped == [row EXCEPT !.marker = mark]
<1>4. stamped \in ReservationRow /\ SameRoom(stamped, row) /\ stamped # None
  <2>1. stamped \in ReservationRow
    BY DEF ReservationRow
  <2> QED BY <2>1, NoneAssumption DEF SameRoom, ReservationRow
<1> HIDE DEF stamped
<1>5. /\ UNCHANGED <<departure, reservation, holder, mem, begun>>
      /\ pc[w] = "stamp" /\ pc'[w] = "write" /\ Req(w)' = Req(w)
      /\ written' = [written EXCEPT ![w][o] = stamped]
  BY <1>1, <1>2, <1>3 DEF Stamp, TypeOK, Req, schedule, stamped
<1>6. View(w, o)' = stamped /\ \A r \in ReservationId \ {o} : View(w, r)' = View(w, r)
  BY <1>4, <1>5 DEF TypeOK, View
<1>7. \A r \in ReservationId :
        /\ View(w, r) # None => View(w, r)' # None
        /\ View(w, r)'.departure = View(w, r).departure
  BY <1>2, <1>4, <1>6 DEF SameRoom
<1>8. ASSUME NEW r \in ReservationId
      PROVE  SameRoom(Planned(w, r)', Planned(w, r))
  <2>1. CASE r # o
    <3>1. Planned(w, r)' = Planned(w, r)
      BY <1>5, <1>6, <2>1 DEF Planned
    <3> QED BY <3>1, SameRoomRelation
  <2>2. CASE r = o
    <3>1. r \in mem[w].todo => Req(w) \in Request /\ (Req(w).op = "move" => mem[w].read # None)
      BY <1>5 DEF LocalInv, Shape, TodoExists
    <3>2. mem[w] \in Memory
      BY DEF TypeOK
    <3>3. SameRoom(PlannedRow(mem[w], r, stamped), PlannedRow(mem[w], r, row))
      BY <1>4, <3>1, <3>2, PlannedRowRoom DEF Req
    <3> QED BY <1>2, <1>5, <1>6, <2>2, <3>3 DEF Planned
  <2> QED BY <2>1, <2>2
<1>9. OnHeldBuses(w)' /\ NoNewClash(w)'
  BY <1>5, <1>8, SamePlans
<1>10. Shape(w)' /\ ItsBus(w)'
  BY <1>5 DEF LocalInv, Shape, ItsBus, OneRowRequest
<1>11. LinkExists(w)' /\ TodoExists(w)'
  <2>1. mem[w].todo \subseteq ReservationId
    BY DEF TypeOK, Memory
  <2> QED BY <1>1, <1>5, <1>7, <2>1 DEF LocalInv, LinkExists, TodoExists
<1>12. EveryBus(w)'
  <2>1. /\ \A i : (NamedDeparture(Req(w).items[i]))' = NamedDeparture(Req(w).items[i])
        /\ (NamedDeparture(CurrentItem(w)))' = NamedDeparture(CurrentItem(w))
    BY <1>5, NamesKept
  <2> QED BY <1>5, <2>1 DEF LocalInv, EveryBus
<1> QED BY <1>9, <1>10, <1>11, <1>12 DEF LocalInv

(* A booked row takes a seat found free under the lock. *)
LEMMA InsertKeeps ==
  ASSUME TypeOK, NEW w \in Writer, LocalInv(w), InsertItem(w)
  PROVE  LocalInv(w)'
<1> DEFINE item == CurrentItem(w)
           link == mem[w].link
<1>1. PICK id \in ReservationId : id = NewId /\ Unused(id)
  BY NewIdFresh DEF InsertItem
<1>2. PICK d \in DepartureId : d = NamedDeparture(item)
  BY ItemType DEF InsertItem, LocalInv
<1>3. /\ item \in Item /\ departure[d] # None /\ holder[d] = w
      /\ pc[w] = "write" /\ Req(w).op = "create" /\ Req(w) \in Request /\ begun[w] # 0
      /\ mem[w].todo = {} /\ mem[w] \in Memory
  BY <1>2, ItemType DEF InsertItem, LocalInv, Shape, EveryBus, At, TypeOK
<1>4. PICK row \in ReservationRow : row = NewRow(w, item, d, link)
  BY <1>3, NewRowType DEF Memory
<1>5. row.departure = d /\ row.seat = item.seat /\ row.from = item.from /\ row.to = item.to
  BY <1>4 DEF NewRow
<1>6. SeatFree(w, d, row, row.seat, {id})
  <2>1. SeatFree(w, d, item, item.seat, {})
    BY <1>2 DEF InsertItem, SeatAvailable
  <2> HIDE DEF item
  <2> QED BY <1>5, <2>1 DEF SeatFree, Others, Overlap, SegmentOf
<1>7. /\ UNCHANGED <<departure, reservation, holder, begun>>
      /\ written' = [written EXCEPT ![w][id] = row]
      /\ Req(w)' = Req(w) /\ mem'[w].todo = {} /\ mem'[w].link = None
      /\ mem'[w].made = Append(mem[w].made, id) /\ mem'[w].read = mem[w].read
      /\ pc'[w] = IF Len(mem[w].made) + 1 = Len(Req(w).items) THEN "commit" ELSE "check"
  BY <1>1, <1>2, <1>3, <1>4 DEF InsertItem, TypeOK, Memory, Req, schedule
<1>8. View(w, id)' = row /\ \A r \in ReservationId \ {id} : View(w, r)' = View(w, r)
  BY <1>7, NoneAssumption DEF TypeOK, View
<1>9. /\ Planned(w, id)' = row
      /\ \A r \in ReservationId \ {id} : Planned(w, r)' = View(w, r)
  BY <1>7, <1>8 DEF Planned, PlannedRow
<1>10. OnHeldBuses(w)' /\ NoNewClash(w)'
  <2>1. reservation[id] = None
    BY <1>1 DEF Unused
  <2>2. \A r \in {id} :
          /\ Planned(w, r)' \in ReservationRow /\ Planned(w, r)'.departure = d
          /\ reservation[r] # None => reservation[r].departure = d
          /\ ~Gone(reservation[r])
          /\ SeatFree(w, d, Planned(w, r)', Planned(w, r)'.seat, {id})
    BY <1>5, <1>6, <1>9, <2>1 DEF Gone
  <2>3. \A r, s \in {id} : r # s => ~Clash(Planned(w, r)', Planned(w, s)')
    OBVIOUS
  <2>4. {id} \in SUBSET ReservationId
    OBVIOUS
  <2> QED BY <1>3, <1>7, <1>9, <2>2, <2>3, <2>4, NewPlans
<1>11. Shape(w)' /\ LinkExists(w)' /\ TodoExists(w)' /\ ItsBus(w)'
  BY <1>3, <1>7 DEF Shape, LinkExists, TodoExists, ItsBus, OneRowRequest
<1>12. EveryBus(w)'
  <2>1. \A i : (NamedDeparture(Req(w).items[i]))' = NamedDeparture(Req(w).items[i])
    BY <1>7, NamesKept
  <2>2. EveryBus(w)
    BY DEF LocalInv
  <2>3. mem[w].made \in Seq(ReservationId) /\ Len(mem'[w].made) = Len(mem[w].made) + 1
    BY <1>3, <1>7 DEF Memory
  <2>4. Req(w).items \in Seq(Item)
    BY <1>3, RequestKinds DEF CreateRequest
  <2> QED BY <1>3, <1>7, <2>1, <2>2, <2>3, <2>4, NoneAssumption DEF EveryBus
<1> QED BY <1>10, <1>11, <1>12 DEF LocalInv

(* A write of a row that is still to be written: everything but the seats. *)
LEMMA PutKeeps ==
  ASSUME TypeOK, NEW w \in Writer, LocalInv(w), pc[w] = "write",
         NEW r \in mem[w].todo, NEW row \in ReservationRow, Put(w, r, row),
         row.departure = View(w, r).departure
  PROVE  /\ Shape(w)' /\ LinkExists(w)' /\ TodoExists(w)' /\ ItsBus(w)' /\ EveryBus(w)'
         /\ UNCHANGED <<departure, reservation, holder>>
         /\ r \in ReservationId /\ Planned(w, r)' = row
         /\ \A s \in ReservationId \ {r} : Planned(w, s)' = Planned(w, s)
<1>1. /\ UNCHANGED <<departure, reservation, holder, begun>> /\ r \in ReservationId
      /\ Req(w)' = Req(w) /\ mem'[w] = [mem[w] EXCEPT !.todo = @ \ {r}] /\ mem[w] \in Memory
      /\ pc'[w] = IF mem[w].todo \subseteq {r} THEN "commit" ELSE "write"
      /\ written' = [written EXCEPT ![w][r] = row]
  BY DEF Put, TypeOK, Memory, Req, schedule
<1>2. /\ mem'[w].todo = mem[w].todo \ {r} /\ mem'[w].link = mem[w].link
      /\ mem'[w].made = mem[w].made /\ mem'[w].read = mem[w].read
      /\ mem'[w].request = mem[w].request
  BY <1>1 DEF Memory
<1>3. View(w, r)' = row /\ \A s \in ReservationId \ {r} : View(w, s)' = View(w, s)
  BY <1>1, NoneAssumption DEF TypeOK, View
<1>4. \A s \in ReservationId :
        /\ View(w, s) # None => View(w, s)' # None
        /\ View(w, s)'.departure = View(w, s).departure
  BY <1>3, NoneAssumption
<1>5. Shape(w)'
  BY <1>1, <1>2 DEF LocalInv, Shape
<1>6. LinkExists(w)'
  BY <1>1, <1>2, <1>4 DEF LocalInv, LinkExists, Memory, Link
<1>7. TodoExists(w)'
  BY <1>1, <1>2, <1>4 DEF LocalInv, TodoExists, Memory
<1>8. ItsBus(w)'
  BY <1>1, <1>2 DEF LocalInv, ItsBus, OneRowRequest
<1>9. EveryBus(w)'
  BY <1>1, <1>2 DEF LocalInv, Shape, EveryBus
<1>10. Planned(w, r)' = row /\ \A s \in ReservationId \ {r} : Planned(w, s)' = Planned(w, s)
  BY <1>1, <1>2, <1>3 DEF Planned, PlannedRow
<1> QED BY <1>1, <1>5, <1>6, <1>7, <1>8, <1>9, <1>10

(* A write that does what was planned. *)
LEMMA PutAsPlanned ==
  ASSUME TypeOK, NEW w \in Writer, LocalInv(w), pc[w] = "write",
         NEW r \in mem[w].todo, NEW row \in ReservationRow, Put(w, r, row),
         SameRoom(row, Planned(w, r))
  PROVE  LocalInv(w)'
<1>1. r \in ReservationId
  BY DEF TypeOK, Memory
<1>2. row.departure = View(w, r).departure
  BY <1>1, PlannedType DEF LocalInv, SameRoom
<1>3. /\ Shape(w)' /\ LinkExists(w)' /\ TodoExists(w)' /\ ItsBus(w)' /\ EveryBus(w)'
      /\ UNCHANGED <<departure, reservation, holder>>
      /\ Planned(w, r)' = row
      /\ \A s \in ReservationId \ {r} : Planned(w, s)' = Planned(w, s)
  BY <1>2, PutKeeps
<1>4. ASSUME NEW s \in ReservationId
      PROVE  SameRoom(Planned(w, s)', Planned(w, s))
  <2>1. CASE s = r
    BY <1>3, <2>1
  <2>2. CASE s # r
    BY <1>3, <2>2, SameRoomRelation
  <2> QED BY <2>1, <2>2
<1>5. OnHeldBuses(w)' /\ NoNewClash(w)'
  BY <1>3, <1>4, SamePlans
<1> QED BY <1>3, <1>5 DEF LocalInv

(* A cancellation gives room up and takes none. *)
LEMMA CancelKeeps ==
  ASSUME TypeOK, Referential, NEW w \in Writer, LocalInv(w), WriteCancel(w)
  PROVE  LocalInv(w)'
<1>1. PICK id \in ReservationId : id = Req(w).id /\ mem[w].todo = {id}
  BY RequestKinds DEF WriteCancel, At, LocalInv, Shape, CancelRequest
<1>2. /\ pc[w] = "write" /\ Req(w).op = "cancel" /\ OneRowRequest(w)
      /\ Put(w, id, [View(w, id) EXCEPT !.status = "CANCELLED"])
  BY <1>1 DEF WriteCancel, At, OneRowRequest
<1>3. View(w, id) # None /\ mem[w].read # None /\ View(w, id).departure = mem[w].read.departure
  BY <1>1, <1>2 DEF LocalInv, TodoExists
<1>4. View(w, id) \in ReservationRow
  BY <1>3, ViewType
<1>5. PICK row \in ReservationRow :
        /\ row = [View(w, id) EXCEPT !.status = "CANCELLED"]
        /\ row.status = "CANCELLED" /\ row.departure = View(w, id).departure
        /\ View(w, id).status = "CANCELLED" => row = View(w, id)
  <2>1. PICK old \in ReservationRow : old = View(w, id)
    BY <1>4
  <2>2. /\ [old EXCEPT !.status = "CANCELLED"] \in ReservationRow
        /\ [old EXCEPT !.status = "CANCELLED"].status = "CANCELLED"
        /\ [old EXCEPT !.status = "CANCELLED"].departure = old.departure
        /\ old.status = "CANCELLED" => [old EXCEPT !.status = "CANCELLED"] = old
    BY DEF ReservationRow
  <2> QED BY <2>1, <2>2
<1>6. /\ Shape(w)' /\ LinkExists(w)' /\ TodoExists(w)' /\ ItsBus(w)' /\ EveryBus(w)'
      /\ UNCHANGED <<departure, reservation, holder>>
      /\ Planned(w, id)' = row
      /\ \A s \in ReservationId \ {id} : Planned(w, s)' = Planned(w, s)
  BY ZenonT(60), <1>1, <1>2, <1>5, PutKeeps
<1>7. Planned(w, id) = View(w, id) /\ Planned(w, id) # None /\ Planned(w, id).departure = row.departure
  BY <1>2, <1>3, <1>5 DEF Planned, PlannedRow, Req
<1>8. OnHeldBuses(w)'
  <2> SUFFICES ASSUME NEW r \in ReservationId, Planned(w, r)' # None
               PROVE  /\ reservation[r] # None => Planned(w, r)'.departure = reservation[r].departure
                      /\ \/ SameRoom(Planned(w, r)', reservation[r])
                         \/ /\ ~Gone(reservation[r])
                            /\ \/ Planned(w, r)'.departure = None
                               \/ /\ holder[Planned(w, r)'.departure] = w
                                  /\ departure[Planned(w, r)'.departure] # None
    BY <1>6 DEF OnHeldBuses, SameRoom
  <2>1. CASE r # id
    BY <1>6, <2>1 DEF LocalInv, OnHeldBuses
  <2>2. CASE r = id
    <3>1. reservation[id] # None => row.departure = reservation[id].departure
      BY <1>7 DEF LocalInv, OnHeldBuses
    <3>2. row.departure # None => holder[row.departure] = w
      BY <1>2, <1>3, <1>5 DEF LocalInv, ItsBus
    <3>3. row.departure # None => departure[row.departure] # None
      BY <1>7 DEF LocalInv, OnHeldBuses, SameRoom, Referential
    <3>4. CASE Gone(reservation[id])
      <4>1. SameRoom(Planned(w, id), reservation[id])
        BY <1>7, <3>4 DEF LocalInv, OnHeldBuses
      <4>2. row = Planned(w, id)
        BY <1>5, <1>7, <3>4, <4>1 DEF SameRoom, Gone
      <4> QED BY <1>6, <2>2, <3>1, <4>1, <4>2
    <3> QED BY <1>6, <2>2, <3>1, <3>2, <3>3, <3>4
  <2> QED BY <2>1, <2>2
<1>9. NoNewClash(w)'
  <2>1. ASSUME NEW r \in ReservationId, NEW s \in ReservationId, r # s,
               Clash(Planned(w, r)', Planned(w, s)')
        PROVE  Clash(reservation[r], reservation[s])
    <3>1. r # id /\ s # id
      BY <1>5, <1>6, <2>1 DEF Clash, IsActive
    <3> QED BY <1>6, <2>1, <3>1 DEF LocalInv, NoNewClash
  <2> QED BY <1>6, <2>1, NoNewClashLater
<1> QED BY <1>6, <1>8, <1>9 DEF LocalInv

(* The four kinds of write. *)
LEMMA WriteKeeps ==
  ASSUME TypeOK, Referential, NEW w \in Writer, LocalInv(w),
         WriteUpdate(w) \/ WriteSeat(w) \/ WriteCancel(w) \/ WriteMany(w)
  PROVE  LocalInv(w)'
<1>1. \A r \in mem[w].todo : r \in ReservationId /\ View(w, r) \in ReservationRow
  BY ViewType DEF LocalInv, TodoExists, TypeOK, Memory
<1>2. ASSUME NEW r \in mem[w].todo, NEW row, Put(w, r, row), pc[w] = "write",
             row = Planned(w, r)
      PROVE  LocalInv(w)'
  <2>1. row \in ReservationRow
    BY <1>1, <1>2, PlannedType, NoneAssumption DEF LocalInv
  <2> QED BY <1>2, <2>1, PutAsPlanned, SameRoomRelation
<1>3. CASE WriteUpdate(w)
  <2>1. pc[w] = "write" /\ Req(w).op = "update" /\ Req(w).id \in mem[w].todo
    BY <1>3 DEF WriteUpdate, At, LocalInv, Shape
  <2>2. CASE Rollback(w, "refused")
    BY <2>2, EndedStep DEF Rollback
  <2>3. CASE Put(w, Req(w).id, UpdatedRow(Req(w), View(w, Req(w).id), mem[w].link))
    <3>1. UpdatedRow(Req(w), View(w, Req(w).id), mem[w].link) = Planned(w, Req(w).id)
      BY <2>1 DEF Planned, PlannedRow, Req
    <3> QED BY <1>2, <2>1, <2>3, <3>1
  <2> QED BY <1>3, <2>2, <2>3 DEF WriteUpdate
<1>4. CASE WriteSeat(w)
  <2>1. PICK r \in mem[w].todo :
          Put(w, r, [View(w, r) EXCEPT !.seat = IF r = Req(w).id THEN Req(w).seat ELSE mem[w].read.seat])
    BY <1>4 DEF WriteSeat
  <2>2. pc[w] = "write" /\ Req(w).op = "move"
    BY <1>4 DEF WriteSeat, At
  <2>3. [View(w, r) EXCEPT !.seat = IF r = Req(w).id THEN Req(w).seat ELSE mem[w].read.seat]
          = Planned(w, r)
    BY <2>1, <2>2 DEF Planned, PlannedRow, Req
  <2> QED BY <1>2, <2>1, <2>2, <2>3
<1>5. CASE WriteMany(w)
  <2>1. PICK r \in mem[w].todo : Put(w, r, ManyRow(Req(w), View(w, r)))
    BY <1>5 DEF WriteMany
  <2>2. pc[w] = "write" /\ Req(w) \in GroupRequest \cup MergeRequest
    BY <1>5, RequestKinds DEF WriteMany, At, LocalInv, Shape
  <2>3. ManyRow(Req(w), View(w, r)) \in ReservationRow
    BY <1>1, <2>2 DEF ManyRow, GroupRequest, MergeRequest, ReservationRow, Group
  <2>4. SameRoom(ManyRow(Req(w), View(w, r)), View(w, r))
    BY <1>1, <2>3, NoneAssumption DEF ManyRow, SameRoom, ReservationRow
  <2>5. Planned(w, r) = View(w, r)
    BY <2>2 DEF Planned, PlannedRow, Req, GroupRequest, MergeRequest
  <2> QED BY <2>1, <2>2, <2>3, <2>4, <2>5, PutAsPlanned
<1> QED BY <1>3, <1>4, <1>5, CancelKeeps

-----------------------------------------------------------------------------
(* The invariant, and what follows from it. *)

(* Every step of w keeps what w relies on. *)
LEMMA OwnStepKeeps ==
  ASSUME Inv, NEW w \in Writer, WriterStep(w)
  PROVE  LocalInv(w)'
<1> TypeOK /\ Referential /\ LocalInv(w)
  BY DEF Inv
<1>1. ASSUME NEW code, End(w, code) PROVE LocalInv(w)'
  BY <1>1, EndedStep
<1>2. CASE ScheduleLockTimeout(w) \/ Fail(w) \/ AbortDeadlock(w) \/ Commit(w) \/ RefuseItem(w)
  BY <1>1, <1>2 DEF ScheduleLockTimeout, Fail, AbortDeadlock, Commit, RefuseItem, Rollback
<1>3. CASE Submit(w) \/ AcquireScheduleLockShared(w)
  BY <1>3, BeginKeeps
<1>4. CASE Name(w)
  BY <1>4, NameKeeps
<1>5. CASE LockDeparture(w) \/ DeparturesLocked(w)
  BY <1>5, LockKeeps
<1>6. CASE CheckItem(w) \/ CheckUpdate(w) \/ CheckMove(w) \/ CheckCancel(w) \/ CheckMany(w)
  BY <1>6, CheckItemKeeps, CheckUpdateKeeps, CheckMoveKeeps, CheckOtherKeeps
<1>7. CASE CheckSlot(w) \/ Stamp(w) \/ InsertItem(w)
  BY <1>7, CheckSlotKeeps, StampKeeps, InsertKeeps
<1>8. CASE WriteUpdate(w) \/ WriteSeat(w) \/ WriteCancel(w) \/ WriteMany(w)
  BY <1>8, WriteKeeps
<1> QED BY <1>2, <1>3, <1>4, <1>5, <1>6, <1>7, <1>8 DEF WriterStep, Statement

(* The invariant is inductive. *)
LEMMA StepInv ==
  ASSUME Inv, [Next]_vars
  PROVE  Inv'
<1>1. TypeOK' /\ Frozen' /\ RowsExclusive' /\ Referential'
  BY StepType, StepFrozen, StepRowsExclusive, StepReferential
<1>2. ASSUME NEW w \in Writer PROVE LocalInv(w)'
  <2>1. CASE WriterStep(w)
    BY <2>1, OwnStepKeeps
  <2>2. CASE ~WriterStep(w)
    <3>1. (\E x \in Writer \ {w} : WriterStep(x)) \/ Schedule \/ UNCHANGED vars
      BY <2>2 DEF Next, WriterStep
    <3> QED BY <3>1, BystanderStep
  <2> QED BY <2>1, <2>2
<1> QED BY <1>1, <1>2 DEF Inv

(* The invariant holds in every reachable state. *)
LEMMA SpecInv == Spec => []Inv
<1>1. Init => Inv
  BY InitInv
<1>2. Inv /\ [Next]_vars => Inv'
  BY StepInv
<1> QED BY <1>1, <1>2, PTL DEF Spec

(* Every variable has its type, an uncommitted row is a whole row and every
   remembered link names a stored reservation, in every interleaving. *)
THEOREM TypeCorrect == Spec => []TypeOK
<1>1. Inv => TypeOK
  BY DEF Inv
<1> QED BY <1>1, SpecInv, PTL

(* No booking, update, seat move, cancellation, assignment or merge ever sells a
   seat to two passengers aboard at once: seat-unique.ts' checks, made under
   departure-lock.ts' row locks, are enough, for any number of concurrent
   transactions, departures, seats, routes and requests. *)
THEOREM NoDoubleSale == Spec => NoWriterDoubleSells
<1> DEFINE Kept == \A r, s \in ReservationId : DoubleSold(r, s)' => DoubleSold(r, s)
<1>1. Inv /\ [Next]_vars => [edit = "held" \/ Kept]_vars
  <2> SUFFICES ASSUME Inv, Next
               PROVE  edit = "held" \/ Kept
    BY DEF vars
  <2>1. ASSUME NEW w \in Writer, WriterStep(w), NEW r \in ReservationId, NEW s \in ReservationId,
               DoubleSold(r, s)'
        PROVE  DoubleSold(r, s)
    <3>1. departure' = departure /\ (reservation' = reservation \/ Commit(w)) /\ LocalInv(w)
      BY <2>1, WriterSteps DEF OwnStep, Inv
    <3>2. r # s /\ Clash(reservation'[r], reservation'[s])
      BY <2>1, <3>1 DEF DoubleSold, Clash, OnRoute, Overlap, SegmentOf, IsActive
    <3>3. CASE reservation' = reservation
      BY <3>2, <3>3 DEF DoubleSold
    <3>4. CASE Commit(w)
      <4>1. reservation'[r] = Planned(w, r) /\ reservation'[s] = Planned(w, s)
        BY <3>1, <3>4 DEF Commit, LocalInv, Shape, Planned, PlannedRow
      <4> QED BY <3>1, <3>2, <4>1 DEF LocalInv, NoNewClash, DoubleSold
    <3> QED BY <3>1, <3>3, <3>4
  <2>2. CASE RequestEdit \/ AcquireScheduleLockExclusive \/ AbandonEdit
    BY <2>2
    DEF RequestEdit, AcquireScheduleLockExclusive, AbandonEdit, DoubleSold, Clash, OnRoute,
        Overlap, SegmentOf, IsActive
  <2>3. CASE ApplyEdit
    BY <2>3 DEF ApplyEdit
  <2> QED BY <2>1, <2>2, <2>3 DEF Next, WriterStep, Schedule
<1>2. Spec => []Inv
  BY SpecInv
<1>3. Spec => [][Next]_vars
  BY DEF Spec
<1> HIDE DEF Kept
<1>4. [][edit = "held" \/ Kept]_vars <=> NoWriterDoubleSells
  BY DEF NoWriterDoubleSells, Kept
<1> QED BY <1>1, <1>2, <1>3, <1>4, PTL

(* A cancelled reservation stays as it was when it was cancelled: no update,
   move or merge that had read it live writes it over, because each reads it
   again under its bus's lock, and a schedule edit only retimes it. *)
THEOREM CancellationHolds == Spec => CancelledIsFinal
<1> DEFINE Final ==
      \A r \in ReservationId :
        reservation[r] # None /\ reservation[r].status = "CANCELLED" =>
          /\ reservation'[r].status = "CANCELLED"
          /\ reservation'[r].seat = reservation[r].seat
          /\ reservation'[r].from = reservation[r].from
          /\ reservation'[r].to = reservation[r].to
<1>1. Inv /\ [Next]_vars => [Final]_vars
  <2> SUFFICES ASSUME Inv, Next, NEW r \in ReservationId, Gone(reservation[r])
               PROVE  /\ reservation'[r].status = "CANCELLED"
                      /\ reservation'[r].seat = reservation[r].seat
                      /\ reservation'[r].from = reservation[r].from
                      /\ reservation'[r].to = reservation[r].to
    BY DEF Final, Gone
  <2>1. ASSUME NEW w \in Writer, WriterStep(w)
        PROVE  SameRoom(reservation'[r], reservation[r])
    <3>1. (reservation' = reservation \/ Commit(w)) /\ LocalInv(w)
      BY <2>1, WriterSteps DEF Inv
    <3>2. CASE reservation' = reservation
      BY <3>2, SameRoomRelation
    <3>3. CASE Commit(w)
      <4>1. reservation'[r] = Planned(w, r) /\ reservation'[r] = View(w, r)
        BY <3>1, <3>3 DEF Commit, LocalInv, Shape, Planned, PlannedRow
      <4>2. Planned(w, r) # None
        BY <4>1 DEF View, Gone
      <4> QED BY <3>1, <4>1, <4>2 DEF LocalInv, OnHeldBuses
    <3> QED BY <3>1, <3>2, <3>3
  <2>2. CASE RequestEdit \/ AcquireScheduleLockExclusive \/ AbandonEdit
    BY <2>2 DEF RequestEdit, AcquireScheduleLockExclusive, AbandonEdit, Gone
  <2>3. CASE ApplyEdit
    <3>1. PICK e \in Edit : reservation'[r] = Resettled(e, reservation[r])
      BY <2>3 DEF ApplyEdit
    <3>2. PICK row \in ReservationRow : row = reservation[r]
      BY DEF Inv, TypeOK, Gone
    <3>3. CASE row.departure \notin Reached(e)
      BY <3>1, <3>2, <3>3 DEF Resettled, Gone
    <3>4. CASE row.departure \in Reached(e)
      <4>1. PICK t, c : /\ Resettled(e, row) = [row EXCEPT !.time = t, !.status = c]
                        /\ c \in {"CANCELLED", row.status}
        BY <3>2, <3>4 DEF Resettled, Gone
      <4>2. /\ Resettled(e, row).status = c
            /\ Resettled(e, row).seat = row.seat
            /\ Resettled(e, row).from = row.from /\ Resettled(e, row).to = row.to
        BY <4>1 DEF ReservationRow
      <4> QED BY <3>1, <3>2, <4>1, <4>2 DEF Gone
    <3> QED BY <3>3, <3>4
  <2> QED BY <2>1, <2>2, <2>3 DEF Next, WriterStep, Schedule, SameRoom, Gone
<1>2. Spec => []Inv
  BY SpecInv
<1>3. Spec => [][Next]_vars
  BY DEF Spec
<1>4. [][Final]_vars <=> CancelledIsFinal
  BY DEF CancelledIsFinal
<1> HIDE DEF Final
<1> QED BY <1>1, <1>2, <1>3, <1>4, PTL
=============================================================================
