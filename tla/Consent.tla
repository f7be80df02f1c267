------------------------------- MODULE Consent -------------------------------
(***************************************************************************)
(* The question a ride edit asks before it breaks something, and the       *)
(* answer.                                                                 *)
(*                                                                         *)
(* guardProspectiveWrite applies the edit, measures what the invariants    *)
(* say before and after, and refuses unless the request carries an answer  *)
(* to every question the difference raises.  An answer is the token of the *)
(* refusal it answers: a digest of the invariant and of the violations     *)
(* shown.  Between the refusal and the answer bookings land, passengers    *)
(* cancel and other operators edit the same ride; replies get lost; and a  *)
(* page loaded before tokens existed can answer only yes.                  *)
(*                                                                         *)
(* One ride with one bus on one date, on a route of one leg: the guard     *)
(* runs under the exclusive schedule lock, so a request is one step.  A    *)
(* reservation made before departures were stored has no link and is found *)
(* by its time; the reachable check can link it to its bus.                *)
(***************************************************************************)
EXTENDS Integers, FiniteSets, FiniteSetsExt

CONSTANTS
    Tab,            \* the operators' open pages
    StaleTab,       \* those loaded before tokens existed
    Reservation,
    Time,
    Capacity,       \* the capacities a ride may be given
    Edit,           \* the edits an operator may want
    InitBooking,    \* the bookings that may be stored at the start
    None, Saved,
    MaxChanges,     \* bound: bookings and cancellations
    MaxEdits,       \* bound: edits begun
    MaxLosses       \* bound: requests and replies lost

Seat == 1 .. Max(Capacity)

\* A ride update: whether the ride is active, when its bus leaves, its seats.
RideRow == [active: BOOLEAN, time: Time, capacity: Capacity]

BookingRow == [linked: BOOLEAN, time: Time, seat: Seat]

ASSUME ConsentAssumption ==
    /\ Capacity \subseteq Nat \ {0} /\ \E n \in Capacity : \A m \in Capacity : m <= n
    /\ IsFiniteSet(Reservation)
    /\ StaleTab \subseteq Tab
    /\ Edit \subseteq RideRow
    /\ InitBooking \subseteq [Reservation -> BookingRow \cup {None}]
    /\ None \notin BookingRow /\ None \notin Edit /\ Saved # None
    /\ {MaxChanges, MaxEdits, MaxLosses} \subseteq Nat

VARIABLES
    ride,       \* the ride as its row says
    bus,        \* the stored departure: its own time, seats, whether dropped
    booking,    \* the ACTIVE reservations of the date
    tab,        \* each operator's page
    spent       \* how much of each bound is used

vars == <<ride, bus, booking, tab, spent>>

-----------------------------------------------------------------------------
(* What the checks say of a state s = [ride, bus, booking] *)

\* PROSPECTIVE_INVARIANTS.rideUpdate, in order; the two about stations have
\* nothing to say on one leg.
Invariant == {"departureTimeKept", "reachable", "seatWithinCapacity", "notOverbooked"}

Live(s) == {r \in Reservation : s.booking[r] # None}
Linked(s) == {r \in Live(s) : s.booking[r].linked}

\* Aboard a stored bus that runs, or found by the time of the ride's run.
Reachable(s, r) ==
    IF s.booking[r].linked THEN ~s.bus.dropped
    ELSE s.ride.active /\ s.booking[r].time = s.ride.time

\* An unlinked reservation the occupancy scan can place: on the ride's run,
\* or on the one run the repair would move it to.
Placed(s) == {r \in Live(s) \ Linked(s) : s.ride.active}

Occupants(s, i) == IF i = "bus" THEN Linked(s) ELSE Placed(s)
Seats(s, i) == IF i = "bus" THEN s.bus.capacity ELSE s.ride.capacity
Excess(s, i) == Cardinality(Occupants(s, i)) - Seats(s, i)

\* What the scan calls them: a run without a departure is known by its time.
Instance(s, i) == IF i = "bus" THEN <<"departure">> ELSE <<"ride", s.ride.time>>

\* The violations of each invariant, as pairs of subject and magnitude.  The
\* first lists what every linked passenger was told, right or wrong.
Violations(s, inv) ==
    CASE inv = "departureTimeKept" -> {<<<<r, s.bus.time>>, 0>> : r \in Linked(s)}
      [] inv = "reachable" -> {<<r, 0>> : r \in {r \in Live(s) : ~Reachable(s, r)}}
      [] inv = "seatWithinCapacity" ->
            {<<r, 0>> : r \in {r \in Reservation : \E i \in {"bus", "run"} :
                                  r \in Occupants(s, i) /\ s.booking[r].seat > Seats(s, i)}}
      [] inv = "notOverbooked" ->
            {<<Instance(s, i), Excess(s, i)>> : i \in {i \in {"bus", "run"} : Excess(s, i) > 0}}

\* New subjects, and old ones made worse.
Added(before, after, inv) ==
    {v \in Violations(after, inv) :
        \A u \in Violations(before, inv) : u[1] = v[1] => v[2] > u[2]}

\* Mutant of Token: whose violations they are, and not how bad.
TokenOfSubjects(inv, added) == <<inv, {v[1] : v \in added}>>

\* Mutant of Token: how many reservations there are goes into the digest.
TokenOfScan(inv, added) == <<inv, added, Cardinality({r \in Reservation : booking[r] # None})>>

\* The digest binds the invariant, each subject and each magnitude.
Token(inv, added) == <<inv, added>>

\* What a violation of an invariant is about.
Subject(inv) ==
    CASE inv = "departureTimeKept" -> Reservation \X Time
      [] inv \in {"reachable", "seatWithinCapacity"} -> Reservation
      [] inv = "notOverbooked" -> {<<"departure">>} \cup {"ride"} \X Time

Shown(inv) == SUBSET (Subject(inv) \X Int)

QuestionRow(inv) ==
    [inv: {inv}, shown: Shown(inv), token: {inv} \X Shown(inv), repairable: BOOLEAN]

\* What was shown is not sent: it is what the operator of the page saw.
AnswerRow(inv) ==
    [as: {"confirmed", "repaired"}, token: {inv} \X Shown(inv), shown: Shown(inv)]

ASSUME RefusalAssumption ==
    \A inv \in Invariant :
        {None, Saved} \cap QuestionRow(inv) = {} /\ None \notin AnswerRow(inv)

-----------------------------------------------------------------------------
(* The write, the sync and the repair *)

\* The departure follows a ride that runs and is dropped with one that does
\* not.
Written(s, edit) ==
    [ride |-> edit,
     bus |-> IF edit.active
             THEN [time |-> edit.time, capacity |-> edit.capacity, dropped |-> FALSE]
             ELSE [s.bus EXCEPT !.dropped = TRUE],
     booking |-> [r \in Reservation |->
                    IF r \in Linked(s) /\ edit.active
                    THEN [s.booking[r] EXCEPT !.time = edit.time] ELSE s.booking[r]]]

\* Mutant of Taken: passengers found by time alone do not hold a seat.
TakenByLinked(s) == {s.booking[r].seat : r \in {r \in Linked(s) : Reachable(s, r)}}

\* Every passenger the bus visibly carries holds a seat, linked or not.
Taken(s) == {s.booking[r].seat : r \in {r \in Live(s) : Reachable(s, r)}}

FreeSeats(s) == (1 .. s.bus.capacity) \ Taken(s)

\* The repair can take all of S: each was found by its time on a ride that
\* still runs once that day, and each gets a seat.
FullyRepairable(s, S) ==
    /\ s.ride.active
    /\ S \cap Linked(s) = {}
    /\ Cardinality(S) <= Cardinality(FreeSeats(s))

\* The seats the two passes give: whoever can keep their seat does, one of
\* those who share it, and the others get the lowest that are left.
Keepers(s, S, f) == {r \in S : f[r] = s.booking[r].seat}

SeatChoices(s, S) ==
    {f \in [S -> FreeSeats(s)] :
        /\ \A r, q \in S : f[r] = f[q] => r = q
        /\ \A r \in S : s.booking[r].seat \in FreeSeats(s)
                        => \E q \in S : /\ f[q] = s.booking[r].seat
                                        /\ s.booking[q].seat = s.booking[r].seat
        /\ \A r \in S \ Keepers(s, S, f) : \A n \in FreeSeats(s) :
                n < f[r] => \E q \in S : f[q] = n}

\* Linked to the bus, with its time and the seat found.
Repaired(s, S, f) ==
    [s EXCEPT !.booking = [r \in Reservation |->
        IF r \in S THEN [linked |-> TRUE, time |-> s.bus.time, seat |-> f[r]]
        ELSE s.booking[r]]]

-----------------------------------------------------------------------------
(* The guard *)

\* What a request carries.  A page answers with tokens; a stale one with the
\* retired boolean, from its second attempt on.
NoAnswers == [inv \in Invariant |-> None]

Confirms(answers, inv, token) ==
    answers[inv] # None /\ answers[inv].as = "confirmed" /\ answers[inv].token = token

AsksRepair(answers, inv, token) ==
    inv = "reachable" /\ answers[inv] # None
    /\ answers[inv].as = "repaired" /\ answers[inv].token = token

Subjects(added) == {v[1] : v \in added}

Repairable(inv, s, added) == inv = "reachable" /\ FullyRepairable(s, Subjects(added))

\* A refusal: what is shown, the token that answers it, whether a repair is
\* offered.
Question(inv, added, repairable) ==
    [inv |-> inv, shown |-> added, token |-> Token(inv, added), repairable |-> repairable]

Repairing(s, w, answers) ==
    LET added == Added(s, w, "reachable")
    IN  added # {} /\ AsksRepair(answers, "reachable", Token("reachable", added))

\* The states the request may be about to commit: as written, or with the
\* repair it asks for done.
Proposals(s, w, answers) ==
    LET S == Subjects(Added(s, w, "reachable"))
    IN  IF Repairing(s, w, answers) /\ FullyRepairable(w, S)
        THEN {Repaired(w, S, f) : f \in SeatChoices(w, S)}
        ELSE {w}

\* What an invariant adds as it is judged: those after the repair see it.
Judged(s, w, p, inv) ==
    Added(s, IF inv \in {"departureTimeKept", "reachable"} THEN w ELSE p, inv)

\* Mutant of Settled: a confirmed question stays confirmed whatever it has
\* become.
SettledOnce(s, w, p, answers, inv) ==
    \/ Judged(s, w, p, inv) = {}
    \/ answers[inv] # None /\ answers[inv].as = "confirmed"
    \/ inv = "reachable" /\ Repairing(s, w, answers) /\ Added(s, p, inv) = {}

\* The request answers what this invariant adds: nothing to answer, a repair
\* that settled it, or a confirmation of exactly this.
Settled(s, w, p, answers, inv) ==
    LET added == Judged(s, w, p, inv)
    IN  \/ added = {}
        \/ inv = "reachable" /\ Repairing(s, w, answers) /\ Added(s, p, inv) = {}
        \/ Confirms(answers, inv, Token(inv, added))

Before(inv) ==
    CASE inv = "departureTimeKept" -> {}
      [] inv = "reachable" -> {"departureTimeKept"}
      [] inv = "seatWithinCapacity" -> {"departureTimeKept", "reachable"}
      [] inv = "notOverbooked" -> Invariant \ {"notOverbooked"}

\* The invariants are walked in order and the first without an answer
\* refuses.
Refuses(s, w, p, answers, inv) ==
    /\ ~Settled(s, w, p, answers, inv)
    /\ \A earlier \in Before(inv) : Settled(s, w, p, answers, earlier)

\* A failed repair is refused as a question that offers none, and a stale
\* page is offered none either.
Refusal(s, w, p, answers, insists, inv) ==
    LET added == Judged(s, w, p, inv)
    IN  Question(inv, added,
                 /\ ~insists
                 /\ ~(inv = "reachable" /\ Repairing(s, w, answers))
                 /\ Repairable(inv, IF inv = "departureTimeKept" THEN w ELSE p, added))

-----------------------------------------------------------------------------
(* The page *)

Idle ==
    [phase |-> "idle", edit |-> None, answers |-> NoAnswers, sent |-> NoAnswers,
     insists |-> FALSE, question |-> None, changed |-> FALSE, failed |-> FALSE,
     reply |-> None]

Now == [ride |-> ride, bus |-> bus, booking |-> booking]

\* Saving the form: no answers yet.
Save(t, edit) ==
    /\ tab[t].phase = "idle"
    /\ spent.edits < MaxEdits
    /\ tab' = [tab EXCEPT ![t] = [Idle EXCEPT !.phase = "sent", !.edit = edit]]
    /\ spent' = [spent EXCEPT !.edits = @ + 1]
    /\ UNCHANGED <<ride, bus, booking>>

\* The whole transaction: it commits what is proposed or rolls back.
Handle(t) ==
    LET s == Now
        w == Written(s, tab[t].edit)
        answers == tab[t].sent
    IN  /\ tab[t].phase = "sent"
        /\ \E p \in Proposals(s, w, answers) :
              \/ /\ \A inv \in Invariant : Settled(s, w, p, answers, inv)
                 /\ ride' = p.ride /\ bus' = p.bus /\ booking' = p.booking
                 /\ tab' = [tab EXCEPT ![t].phase = "answered", ![t].reply = Saved]
              \/ \E inv \in Invariant :
                 /\ Refuses(s, w, p, answers, inv)
                 /\ tab' = [tab EXCEPT ![t].phase = "answered",
                               ![t].reply = Refusal(s, w, p, answers, tab[t].insists, inv)]
                 /\ UNCHANGED <<ride, bus, booking>>
        /\ UNCHANGED spent

\* The dialog closes on a saved edit, or shows the refusal with what became
\* of an earlier answer to the same question.
Deliver(t) ==
    LET reply == tab[t].reply
    IN  /\ tab[t].phase = "answered"
        /\ \/ reply = Saved /\ tab' = [tab EXCEPT ![t] = Idle]
           \/ /\ reply # Saved
              /\ LET previous == tab[t].sent[reply.inv]
                     same == previous # None /\ previous.token = reply.token
                 IN  tab' = [tab EXCEPT ![t].phase = "asking",
                                ![t].answers = tab[t].sent,
                                ![t].sent = NoAnswers,
                                ![t].question = reply,
                                ![t].changed = previous # None /\ ~same,
                                ![t].failed = /\ same /\ previous.as = "repaired"
                                              /\ ~reply.repairable,
                                ![t].reply = None]
        /\ UNCHANGED <<ride, bus, booking, spent>>

\* Mutant of Lose: what arrived is kept beside the dialog.
LoseKeepsReply(t) ==
    /\ tab[t].phase \in {"sent", "answered"}
    /\ spent.losses < MaxLosses
    /\ tab' = [tab EXCEPT ![t] =
                 IF tab[t].question = None THEN Idle
                 ELSE [tab[t] EXCEPT !.phase = "asking", !.sent = NoAnswers]]
    /\ spent' = [spent EXCEPT !.losses = @ + 1]
    /\ UNCHANGED <<ride, bus, booking>>

\* The request fails on its way or its reply does: an open dialog keeps the
\* question and the answers it was showing, a first save only its form.
Lose(t) ==
    /\ tab[t].phase \in {"sent", "answered"}
    /\ spent.losses < MaxLosses
    /\ tab' = [tab EXCEPT ![t] =
                 IF tab[t].question = None THEN Idle
                 ELSE [tab[t] EXCEPT !.phase = "asking", !.sent = NoAnswers, !.reply = None]]
    /\ spent' = [spent EXCEPT !.losses = @ + 1]
    /\ UNCHANGED <<ride, bus, booking>>

\* Mutant of Answering: the request that follows does not carry the answer.
AnsweringForgets(answers, question, as) == answers

\* The answer replaces the one to this invariant and no other.
Answering(answers, question, as) ==
    [answers EXCEPT ![question.inv] =
        [as |-> as, token |-> question.token, shown |-> question.shown]]

\* "Save anyway" and, where it is offered, "save and repair".  A stale page
\* sends its edit again with the boolean set.
Answer(t, as) ==
    /\ tab[t].phase = "asking"
    /\ as = "repaired" => tab[t].question.repairable
    /\ tab' = [tab EXCEPT
                 ![t].phase = "sent",
                 ![t].insists = t \in StaleTab,
                 ![t].sent = IF t \in StaleTab THEN NoAnswers
                             ELSE Answering(tab[t].answers, tab[t].question, as)]
    /\ UNCHANGED <<ride, bus, booking, spent>>

Confirm(t) == Answer(t, "confirmed")

Repair(t) == Answer(t, "repaired")

GiveUp(t) ==
    /\ tab[t].phase = "asking"
    /\ tab' = [tab EXCEPT ![t] = Idle]
    /\ UNCHANGED <<ride, bus, booking, spent>>

-----------------------------------------------------------------------------
(* Passengers *)

Changed == /\ spent.changes < MaxChanges
           /\ spent' = [spent EXCEPT !.changes = @ + 1]
           /\ UNCHANGED <<ride, bus, tab>>

\* Booking counts the passengers on the departure, and not those found by
\* their time.
BookableSeats ==
    IF bus.dropped \/ Cardinality(Linked(Now)) >= bus.capacity THEN {}
    ELSE (1 .. bus.capacity) \ {booking[r].seat : r \in Linked(Now)}

Book(r, seat) ==
    /\ booking[r] = None
    /\ seat \in BookableSeats
    /\ booking' = [booking EXCEPT ![r] = [linked |-> TRUE, time |-> bus.time, seat |-> seat]]
    /\ Changed

Cancel(r) ==
    /\ booking[r] # None
    /\ booking' = [booking EXCEPT ![r] = None]
    /\ Changed

-----------------------------------------------------------------------------
(* Specification *)

\* A departure as a sync left it; linked passengers carry its time.
Init ==
    /\ ride \in Edit /\ ride.active
    /\ bus = [time |-> ride.time, capacity |-> ride.capacity, dropped |-> FALSE]
    /\ booking \in {[r \in Reservation |->
                        IF b[r] # None /\ b[r].linked THEN [b[r] EXCEPT !.time = ride.time]
                        ELSE b[r]] : b \in InitBooking}
    /\ tab = [t \in Tab |-> Idle]
    /\ spent = [changes |-> 0, edits |-> 0, losses |-> 0]

Next ==
    \/ \E t \in Tab :
          \/ \E edit \in Edit : Save(t, edit)
          \/ Handle(t) \/ Deliver(t) \/ Lose(t)
          \/ Confirm(t) \/ Repair(t) \/ GiveUp(t)
    \/ \E r \in Reservation : Cancel(r) \/ \E seat \in Seat : Book(r, seat)

Spec == Init /\ [][Next]_vars

\* The server answers what reaches it, the reply arrives unless it is lost,
\* and the operator of a page that knows tokens answers every question.
Fairness ==
    \A t \in Tab : /\ WF_vars(Handle(t)) /\ WF_vars(Deliver(t))
                   /\ t \notin StaleTab => WF_vars(Confirm(t))

FairSpec == Spec /\ Fairness

-----------------------------------------------------------------------------
(* Properties *)

TypeOK ==
    /\ ride \in RideRow
    /\ bus \in [time: Time, capacity: Capacity, dropped: BOOLEAN]
    /\ booking \in [Reservation -> BookingRow \cup {None}]
    /\ DOMAIN tab = Tab
    /\ \A t \in Tab :
          /\ tab[t].phase \in {"idle", "sent", "answered", "asking"}
          /\ tab[t].edit \in Edit \cup {None}
          /\ tab[t].phase # "idle" <=> tab[t].edit # None
          /\ tab[t].phase = "answered" <=> tab[t].reply # None
          /\ tab[t].phase = "asking" => tab[t].question # None
          /\ DOMAIN tab[t].answers = Invariant /\ DOMAIN tab[t].sent = Invariant

Commits(t) == /\ tab[t].phase = "sent"
              /\ tab'[t].phase = "answered" /\ tab'[t].reply = Saved

\* Whom an edit harms, told from the tables alone.
Moved == {r \in Linked(Now) : r \in Linked(Now)' /\ bus'.time # bus.time}
Stranded == {r \in Live(Now) : Reachable(Now, r) /\ ~Reachable(Now, r)'}
Unseated == {r \in Live(Now) : /\ \E i \in {"bus", "run"} :
                                     r \in Occupants(Now, i)' /\ booking'[r].seat > Seats(Now, i)'
                               /\ ~\E i \in {"bus", "run"} :
                                     r \in Occupants(Now, i) /\ booking[r].seat > Seats(Now, i)}
Deepened == {i \in {"bus", "run"} :
                /\ Excess(Now, i)' > 0
                /\ Instance(Now, i)' = Instance(Now, i) => Excess(Now, i)' > Excess(Now, i)}

\* What was shown in the question the request confirms, if it confirms one.
Agreed(t, inv) ==
    LET answer == tab[t].sent[inv]
    IN  IF answer # None /\ answer.as = "confirmed" THEN answer.shown ELSE {}

\* The count confirmed is the count written (prospective-write.ts:322): an
\* edit that commits moves, strands and unseats exactly the passengers of the
\* questions its operator said yes to, and overbooks by exactly as many,
\* whatever was booked, cancelled or edited since they were asked.  A stale
\* page, which says yes to nothing in particular, harms nobody.
ConfirmedIsWritten ==
    [][\A t \in Tab : Commits(t) =>
          /\ Moved # {} => Moved = {v[1][1] : v \in Agreed(t, "departureTimeKept")}
          /\ Stranded # {} => Stranded = Subjects(Agreed(t, "reachable"))
          /\ Unseated # {} => Unseated = Subjects(Agreed(t, "seatWithinCapacity"))
          /\ \A i \in Deepened :
                <<Instance(Now, i)', Excess(Now, i)'>> \in Agreed(t, "notOverbooked")]_vars

\* Whoever a repair moves ends up on a bus that runs, in a seat it has and
\* nobody else on that bus holds.
RepairedIsSeated ==
    [][\A r \in Live(Now) :
          booking'[r] # None /\ booking'[r].linked /\ ~booking[r].linked =>
              /\ ~bus'.dropped /\ booking'[r].seat <= bus'.capacity
              /\ \A q \in Live(Now)' \ {r} :
                    Reachable(Now, q)' => booking'[q].seat # booking'[r].seat]_vars

\* A question that was answered comes back only with other violations or
\* because its repair failed, and the dialog says which of the two.
NeverAskedTwice ==
    \A t \in Tab :
        LET question == tab[t].question
            answer == tab[t].answers[question.inv]
        IN  tab[t].phase = "asking" /\ answer # None
            => /\ tab[t].changed <=> question.shown # answer.shown
               /\ tab[t].failed <=> question.shown = answer.shown

\* Once the bookings stop, an operator who keeps answering gets the edit
\* saved: answers to its several questions add up and are not asked forever.
EditIsSettled ==
    \A t \in Tab \ StaleTab : tab[t].phase = "sent" ~> tab[t].phase = "idle"

=============================================================================
