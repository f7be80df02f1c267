---------------------------- MODULE Consent_proof ----------------------------
(***************************************************************************)
(* What holds of a ride edit and its questions for any number of pages,    *)
(* reservations, times and capacities: every variable keeps its type, the  *)
(* dialog tells the truth about an answer that did not do, and what is     *)
(* written is what was confirmed.                                          *)
(***************************************************************************)
EXTENDS Consent, FiniteSetTheorems, TLAPS

-----------------------------------------------------------------------------
(* The tables, as the guard measures them *)

BusRow == [time: Time, capacity: Capacity, dropped: BOOLEAN]

Tables == [ride: RideRow, bus: BusRow, booking: [Reservation -> BookingRow \cup {None}]]

LEMMA SeatsOfABus == \A n \in Capacity : 1 .. n \subseteq Seat
<1>1. PICK top \in Capacity : \A m \in Capacity : m <= top
  BY ConsentAssumption
<1>2. \A m \in Capacity : m \in Nat
  BY ConsentAssumption
<1>3. \A m \in Capacity : top >= m
  BY <1>1, <1>2
<1>4. Max(Capacity) \in Capacity /\ \A m \in Capacity : Max(Capacity) >= m
  BY <1>3 DEF Max
<1> DEFINE most == Max(Capacity)
<1>5. most \in Nat /\ \A m \in Capacity : m \in Nat /\ m <= most
  BY <1>2, <1>4
<1>6. Seat = 1 .. most
  BY DEF Seat
<1> HIDE DEF most
<1> QED
  BY <1>5, <1>6

LEMMA NoneIsNoBooking == \A row \in BookingRow : row # None
BY ConsentAssumption

LEMMA BookingType ==
    ASSUME NEW s \in Tables, NEW r \in Live(s)
    PROVE  r \in Reservation /\ s.booking[r] \in BookingRow
BY DEF Live, Tables

\* An edit leaves who is booked, who is linked and every seat as they were.
LEMMA WrittenKeeps ==
    ASSUME NEW s \in Tables, NEW edit \in RideRow
    PROVE  /\ Written(s, edit) \in Tables
           /\ Written(s, edit).ride = edit
           /\ edit.active => ~Written(s, edit).bus.dropped
           /\ Live(Written(s, edit)) = Live(s)
           /\ Linked(Written(s, edit)) = Linked(s)
<1> DEFINE w == Written(s, edit)
<1>1. s.bus \in BusRow /\ s.booking \in [Reservation -> BookingRow \cup {None}]
  BY DEF Tables
<1>2. w.bus \in BusRow /\ w.ride = edit /\ (edit.active => ~w.bus.dropped)
  BY <1>1 DEF Written, BusRow, RideRow
<1>3. \A r \in Reservation :
         w.booking[r] = IF r \in Linked(s) /\ edit.active
                        THEN [s.booking[r] EXCEPT !.time = edit.time] ELSE s.booking[r]
  BY DEF Written
<1>4. \A r \in Linked(s) : s.booking[r] \in BookingRow
  BY BookingType DEF Linked
<1>5. \A r \in Linked(s) : /\ [s.booking[r] EXCEPT !.time = edit.time] \in BookingRow
                           /\ [s.booking[r] EXCEPT !.time = edit.time].linked = s.booking[r].linked
  BY <1>4 DEF BookingRow, RideRow
<1>6. w.booking \in [Reservation -> BookingRow \cup {None}]
  BY <1>1, <1>5 DEF Written
<1>7. w \in Tables
  BY <1>2, <1>6 DEF Written, Tables
<1>8. \A r \in Reservation : w.booking[r] # None <=> s.booking[r] # None
  BY <1>3, <1>4, <1>5, NoneIsNoBooking
<1> HIDE DEF w
<1>9. Live(w) = Live(s)
  BY <1>8 DEF Live
<1>10. Linked(w) = Linked(s)
  BY <1>3, <1>5, <1>9 DEF Linked, Live
<1> QED
  BY <1>2, <1>7, <1>9, <1>10 DEF w

\* A repair links S, and changes neither the ride nor the bus nor anybody
\* else's booking.
LEMMA RepairedKeeps ==
    ASSUME NEW w \in Tables, NEW S \in SUBSET Live(w), NEW f \in SeatChoices(w, S)
    PROVE  /\ Repaired(w, S, f) \in Tables
           /\ Repaired(w, S, f).ride = w.ride
           /\ Repaired(w, S, f).bus = w.bus
           /\ \A r \in S : Repaired(w, S, f).booking[r] =
                              [linked |-> TRUE, time |-> w.bus.time, seat |-> f[r]]
           /\ \A r \in Reservation \ S : Repaired(w, S, f).booking[r] = w.booking[r]
           /\ Live(Repaired(w, S, f)) = Live(w)
           /\ Linked(Repaired(w, S, f)) = Linked(w) \cup S
<1> DEFINE p == Repaired(w, S, f)
<1>1. /\ w.bus.capacity \in Capacity /\ w.bus.time \in Time /\ S \subseteq Reservation
      /\ w.booking \in [Reservation -> BookingRow \cup {None}]
  BY DEF Tables, BusRow, Live
<1>2. f \in [S -> FreeSeats(w)]
  BY DEF SeatChoices
<1>3. \A r \in S : f[r] \in Seat
  BY <1>1, <1>2, SeatsOfABus DEF FreeSeats
<1>4. p.ride = w.ride /\ p.bus = w.bus
  BY DEF Repaired, Tables
<1>5. p.booking = [r \in Reservation |->
                     IF r \in S THEN [linked |-> TRUE, time |-> w.bus.time, seat |-> f[r]]
                     ELSE w.booking[r]]
  BY DEF Repaired, Tables
<1>6. \A r \in S : [linked |-> TRUE, time |-> w.bus.time, seat |-> f[r]] \in BookingRow
  BY <1>1, <1>3 DEF BookingRow
<1>7. p.booking \in [Reservation -> BookingRow \cup {None}]
  BY <1>1, <1>5, <1>6
<1>8. p \in Tables
  BY <1>7 DEF Repaired, Tables
<1>9. \A r \in S : p.booking[r] = [linked |-> TRUE, time |-> w.bus.time, seat |-> f[r]]
  BY <1>1, <1>5
<1>10. \A r \in Reservation \ S : p.booking[r] = w.booking[r]
  BY <1>5
<1> HIDE DEF p
<1>11. \A r \in S : p.booking[r] # None /\ p.booking[r].linked
  <2>1. \A r \in S : [linked |-> TRUE, time |-> w.bus.time, seat |-> f[r]].linked = TRUE
    OBVIOUS
  <2> QED
    BY <1>6, <1>9, <2>1, NoneIsNoBooking
<1>12. Live(p) = Live(w)
  BY <1>1, <1>10, <1>11 DEF Live
<1>13. Linked(p) = Linked(w) \cup S
  BY <1>10, <1>11, <1>12 DEF Linked, Live
<1> QED
  BY <1>4, <1>8, <1>9, <1>10, <1>12, <1>13 DEF p

-----------------------------------------------------------------------------
(* What the checks find *)

LEMMA ExcessType ==
    ASSUME NEW s \in Tables, NEW i \in {"bus", "run"}
    PROVE  Excess(s, i) \in Int
<1>1. Occupants(s, i) \subseteq Reservation
  BY DEF Occupants, Linked, Placed, Live
<1>2. Cardinality(Occupants(s, i)) \in Nat
  BY <1>1, FS_Subset, FS_CardinalityType, ConsentAssumption
<1>3. Seats(s, i) \in Nat
  BY ConsentAssumption DEF Seats, Tables, RideRow, BusRow
<1> QED
  BY <1>2, <1>3 DEF Excess

LEMMA ViolationsType ==
    ASSUME NEW s \in Tables, NEW inv \in Invariant
    PROVE  Violations(s, inv) \subseteq Subject(inv) \X Int
<1>1. CASE inv = "departureTimeKept"
  <2>1. Linked(s) \subseteq Reservation /\ s.bus.time \in Time
    BY DEF Linked, Live, Tables, BusRow
  <2> QED
    BY <1>1, <2>1 DEF Violations, Subject
<1>2. CASE inv = "reachable"
  BY <1>2 DEF Violations, Subject, Live
<1>3. CASE inv = "seatWithinCapacity"
  BY <1>3 DEF Violations, Subject
<1>4. CASE inv = "notOverbooked"
  <2>1. \A i \in {"bus", "run"} : Instance(s, i) \in Subject(inv)
    BY <1>4 DEF Instance, Subject, Tables, RideRow
  <2> QED
    BY <1>4, <2>1, ExcessType DEF Violations
<1> QED
  BY <1>1, <1>2, <1>3, <1>4 DEF Invariant

LEMMA AddedType ==
    ASSUME NEW s \in Tables, NEW w \in Tables, NEW inv \in Invariant
    PROVE  Added(s, w, inv) \in Shown(inv)
BY ViolationsType DEF Added, Shown

\* A bus that moves moves all who are linked to it.
LEMMA AddedWhenMoved ==
    ASSUME NEW s \in Tables, NEW w \in Tables, Linked(w) = Linked(s), w.bus.time # s.bus.time
    PROVE  Added(s, w, "departureTimeKept") = {<<<<r, w.bus.time>>, 0>> : r \in Linked(s)}
<1>1. Violations(w, "departureTimeKept") = {<<<<r, w.bus.time>>, 0>> : r \in Linked(s)}
  BY DEF Violations
<1>2. Violations(s, "departureTimeKept") = {<<<<r, s.bus.time>>, 0>> : r \in Linked(s)}
  BY DEF Violations
<1>3. \A v \in Violations(w, "departureTimeKept") :
         \A u \in Violations(s, "departureTimeKept") : u[1] # v[1]
  BY <1>1, <1>2
<1> QED
  BY <1>1, <1>3 DEF Added

LEMMA SubjectsAre ==
    ASSUME NEW R, NEW H \in SUBSET R, NEW added,
           \A v \in added : \E r \in R : v = <<r, 0>>,
           \A r \in R : <<r, 0>> \in added <=> r \in H
    PROVE  Subjects(added) = H
<1>1. ASSUME NEW v \in added PROVE v[1] \in H
  <2>1. PICK r \in R : v = <<r, 0>>
    OBVIOUS
  <2> QED
    BY <2>1
<1>2. ASSUME NEW r \in H PROVE r \in {v[1] : v \in added}
  <2>1. <<r, 0>> \in added /\ <<r, 0>>[1] = r
    OBVIOUS
  <2> QED
    BY <2>1
<1> QED
  BY <1>1, <1>2 DEF Subjects

\* Whom the reachable check newly finds.
LEMMA AddedWhenStranded ==
    ASSUME NEW s \in Tables, NEW w \in Tables, Live(w) = Live(s)
    PROVE  Subjects(Added(s, w, "reachable")) =
               {r \in Live(s) : Reachable(s, r) /\ ~Reachable(w, r)}
<1>1. Violations(w, "reachable") = {<<r, 0>> : r \in {r \in Live(s) : ~Reachable(w, r)}}
  BY DEF Violations
<1>2. Violations(s, "reachable") = {<<r, 0>> : r \in {r \in Live(s) : ~Reachable(s, r)}}
  BY DEF Violations
<1> DEFINE harmed == {r \in Live(s) : Reachable(s, r) /\ ~Reachable(w, r)}
<1>3. \A r \in Live(s) : <<r, 0>> \in Added(s, w, "reachable") <=> r \in harmed
  BY <1>1, <1>2 DEF Added
<1>4. \A v \in Added(s, w, "reachable") : \E r \in Live(s) : v = <<r, 0>>
  BY <1>1 DEF Added
<1> QED
  BY <1>3, <1>4, SubjectsAre

\* A passenger whose seat the bus, or the run, does not have.
SeatMissing(s, r) ==
    \E i \in {"bus", "run"} : r \in Occupants(s, i) /\ s.booking[r].seat > Seats(s, i)

LEMMA AddedWhenUnseated ==
    ASSUME NEW s \in Tables, NEW p \in Tables
    PROVE  Subjects(Added(s, p, "seatWithinCapacity")) =
               {r \in Reservation : SeatMissing(p, r) /\ ~SeatMissing(s, r)}
<1>1. \A q \in Tables :
         Violations(q, "seatWithinCapacity") =
             {<<r, 0>> : r \in {r \in Reservation : SeatMissing(q, r)}}
  BY DEF Violations, SeatMissing
<1> DEFINE harmed == {r \in Reservation : SeatMissing(p, r) /\ ~SeatMissing(s, r)}
<1>2. \A r \in Reservation : <<r, 0>> \in Added(s, p, "seatWithinCapacity") <=> r \in harmed
  BY <1>1 DEF Added
<1>3. \A v \in Added(s, p, "seatWithinCapacity") : \E r \in Reservation : v = <<r, 0>>
  BY <1>1 DEF Added
<1> QED
  BY <1>2, <1>3, SubjectsAre

\* By how many a bus is newly, or further, overbooked.
Deepens(s, p, i) ==
    /\ Excess(p, i) > 0
    /\ Instance(p, i) = Instance(s, i) => Excess(p, i) > Excess(s, i)

LEMMA AddedWhenDeepened ==
    ASSUME NEW s \in Tables, NEW p \in Tables, NEW i \in {"bus", "run"},
           Deepens(s, p, i)
    PROVE  <<Instance(p, i), Excess(p, i)>> \in Added(s, p, "notOverbooked")
<1>1. \A q \in Tables :
         Violations(q, "notOverbooked") =
             {<<Instance(q, j), Excess(q, j)>> : j \in {j \in {"bus", "run"} : Excess(q, j) > 0}}
  BY DEF Violations
<1>2. <<Instance(p, i), Excess(p, i)>> \in Violations(p, "notOverbooked")
  BY <1>1 DEF Deepens
<1>3. \A j \in {"bus", "run"} : Instance(s, j) = Instance(p, i) => j = i
  BY DEF Instance
<1>4. \A u \in Violations(s, "notOverbooked") :
         u[1] = Instance(p, i) => Instance(s, i) = Instance(p, i) /\ u[2] = Excess(s, i)
  BY <1>1, <1>3
<1> QED
  BY <1>2, <1>4 DEF Added, Deepens

-----------------------------------------------------------------------------
(* The invariant of a page *)

Questions == UNION {QuestionRow(inv) : inv \in Invariant}

AnyAnswer == UNION {AnswerRow(inv) : inv \in Invariant}

Answers == [Invariant -> AnyAnswer \cup {None}]

PageRow ==
    [phase: {"idle", "sent", "answered", "asking"}, edit: Edit \cup {None}, answers: Answers,
     sent: Answers, insists: BOOLEAN, question: Questions \cup {None}, changed: BOOLEAN,
     failed: BOOLEAN, reply: Questions \cup {None, Saved}]

\* An answer is to what was shown, and a repair is only ever asked of the
\* one invariant that has one.
AnswersOK(answers) ==
    \A inv \in Invariant : answers[inv] # None =>
        /\ answers[inv].token = Token(inv, answers[inv].shown)
        /\ answers[inv].as = "repaired" => inv = "reachable"

QuestionOK(question) ==
    /\ question.token = Token(question.inv, question.shown)
    /\ question.repairable => question.inv = "reachable"

\* A refusal that answers an earlier answer with the same question does so
\* only where the repair that was asked for failed.
ReplyOK(reply, sent) ==
    /\ QuestionOK(reply)
    /\ sent[reply.inv] # None /\ sent[reply.inv].token = reply.token =>
          sent[reply.inv].as = "repaired" /\ ~reply.repairable

\* What the dialog says of an answer to the question it shows.
SaysWhy(page, answer) ==
    answer # None =>
        /\ page.changed <=> page.question.shown # answer.shown
        /\ page.failed <=> page.question.shown = answer.shown

\* A page that waits for a reply keeps the question it will go back to.
PageOK(page) ==
    /\ page.phase # "idle" <=> page.edit # None
    /\ page.phase = "answered" <=> page.reply # None
    /\ page.phase = "asking" => page.question # None
    /\ AnswersOK(page.answers) /\ AnswersOK(page.sent)
    /\ page.question # None =>
          QuestionOK(page.question) /\ SaysWhy(page, page.answers[page.question.inv])
    /\ page.reply \notin {None, Saved} => ReplyOK(page.reply, page.sent)

Inv ==
    /\ Now \in Tables
    /\ tab \in [Tab -> PageRow]
    /\ \A t \in Tab : PageOK(tab[t])

LEMMA QuestionType ==
    ASSUME NEW question \in Questions
    PROVE  /\ question.inv \in Invariant
           /\ question.shown \in Shown(question.inv)
           /\ question.token \in {question.inv} \X Shown(question.inv)
           /\ question.repairable \in BOOLEAN
           /\ question # None /\ question # Saved
<1>1. PICK inv \in Invariant : question \in QuestionRow(inv)
  BY DEF Questions
<1>2. question.inv = inv /\ question # None /\ question # Saved
  BY <1>1, RefusalAssumption DEF QuestionRow
<1> QED
  BY <1>1, <1>2 DEF QuestionRow

LEMMA AnswerType ==
    ASSUME NEW answer \in AnyAnswer
    PROVE  answer.as \in {"confirmed", "repaired"}
<1>1. PICK inv \in Invariant : answer \in AnswerRow(inv)
  BY DEF AnyAnswer
<1> QED
  BY <1>1 DEF AnswerRow

LEMMA NoAnswersOK == NoAnswers \in Answers /\ AnswersOK(NoAnswers)
<1>1. \A inv \in Invariant : NoAnswers[inv] = None
  BY DEF NoAnswers
<1>2. NoAnswers \in Answers
  BY DEF NoAnswers, Answers
<1>3. AnswersOK(NoAnswers)
  BY <1>1 DEF AnswersOK
<1> QED
  BY <1>2, <1>3

LEMMA IdlePage == Idle \in PageRow /\ PageOK(Idle)
BY NoAnswersOK, ConsentAssumption DEF Idle, PageRow, PageOK

\* The form is saved: nothing has been asked or answered.
LEMMA SavedPage ==
    ASSUME NEW edit \in Edit
    PROVE  /\ [Idle EXCEPT !.phase = "sent", !.edit = edit] \in PageRow
           /\ PageOK([Idle EXCEPT !.phase = "sent", !.edit = edit])
<1> DEFINE page == [Idle EXCEPT !.phase = "sent", !.edit = edit]
<1>1. edit # None
  BY ConsentAssumption
<1>2. /\ page.phase = "sent" /\ page.edit = edit /\ page.answers = NoAnswers
      /\ page.sent = NoAnswers /\ page.question = None /\ page.reply = None
  BY DEF Idle
<1>3. page \in PageRow
  BY NoAnswersOK DEF Idle, PageRow
<1> HIDE DEF page
<1>4. PageOK(page)
  BY <1>1, <1>2, NoAnswersOK DEF PageOK
<1> QED
  BY <1>3, <1>4 DEF page

\* A reply arrives at the server's end of the request.
LEMMA RepliedPage ==
    ASSUME NEW page \in PageRow, PageOK(page), page.phase = "sent",
           NEW reply \in Questions \cup {Saved},
           reply # Saved => ReplyOK(reply, page.sent)
    PROVE  /\ [page EXCEPT !.phase = "answered", !.reply = reply] \in PageRow
           /\ PageOK([page EXCEPT !.phase = "answered", !.reply = reply])
<1> DEFINE new == [page EXCEPT !.phase = "answered", !.reply = reply]
<1>1. reply # None
  BY QuestionType, ConsentAssumption
<1>2. /\ new.phase = "answered" /\ new.reply = reply /\ new.edit = page.edit
      /\ new.answers = page.answers /\ new.sent = page.sent /\ new.question = page.question
      /\ new.changed = page.changed /\ new.failed = page.failed
  BY DEF PageRow
<1>3. new \in PageRow
  BY DEF PageRow
<1> HIDE DEF new
<1>4. PageOK(new)
  BY <1>1, <1>2 DEF PageOK, SaysWhy
<1> QED
  BY <1>3, <1>4 DEF new

\* The refusal is shown, with what became of the answer it came back to.
LEMMA AskingPage ==
    ASSUME NEW page \in PageRow, PageOK(page), page.phase = "answered",
           NEW reply \in Questions, page.reply = reply,
           NEW changed \in BOOLEAN, NEW failed \in BOOLEAN,
           page.sent[reply.inv] # None =>
              /\ changed <=> reply.shown # page.sent[reply.inv].shown
              /\ failed <=> reply.shown = page.sent[reply.inv].shown,
           NEW new,
           new = [page EXCEPT !.phase = "asking", !.answers = page.sent, !.sent = NoAnswers,
                              !.question = reply, !.changed = changed, !.failed = failed,
                              !.reply = None]
    PROVE  new \in PageRow /\ PageOK(new)
<1>1. reply # None /\ reply # Saved
  BY QuestionType
<1>2. /\ new.phase = "asking" /\ new.reply = None /\ new.edit = page.edit
      /\ new.answers = page.sent /\ new.sent = NoAnswers /\ new.question = reply
      /\ new.changed = changed /\ new.failed = failed
  BY DEF PageRow
<1>3. new \in PageRow
  BY NoAnswersOK DEF PageRow
<1>4. QuestionOK(reply) /\ AnswersOK(page.sent) /\ page.edit # None
  BY <1>1 DEF PageOK, ReplyOK
<1>5. SaysWhy(new, page.sent[reply.inv])
  BY <1>2 DEF SaysWhy
<1>6. PageOK(new)
  BY <1>1, <1>2, <1>4, <1>5, NoAnswersOK DEF PageOK
<1> QED
  BY <1>3, <1>6

\* The reply is lost: the dialog is back to the question it showed.
LEMMA LostPage ==
    ASSUME NEW page \in PageRow, PageOK(page), page.phase \in {"sent", "answered"},
           page.question # None, NEW new,
           new = [page EXCEPT !.phase = "asking", !.sent = NoAnswers, !.reply = None]
    PROVE  new \in PageRow /\ PageOK(new)
<1>1. /\ new.phase = "asking" /\ new.reply = None /\ new.edit = page.edit
      /\ new.answers = page.answers /\ new.sent = NoAnswers /\ new.question = page.question
      /\ new.changed = page.changed /\ new.failed = page.failed
  BY DEF PageRow
<1>2. new \in PageRow
  BY NoAnswersOK DEF PageRow
<1>3. PageOK(new)
  BY <1>1, NoAnswersOK DEF PageOK, SaysWhy
<1> QED
  BY <1>2, <1>3

\* The question is answered and the edit sent again.
LEMMA AnsweredPage ==
    ASSUME NEW page \in PageRow, PageOK(page), page.phase = "asking",
           NEW as \in {"confirmed", "repaired"}, as = "repaired" => page.question.repairable,
           NEW insists \in BOOLEAN,
           NEW sent \in {NoAnswers, Answering(page.answers, page.question, as)}, NEW new,
           new = [page EXCEPT !.phase = "sent", !.insists = insists, !.sent = sent]
    PROVE  new \in PageRow /\ PageOK(new)
<1> DEFINE question == page.question
           inv == question.inv
           answer == [as |-> as, token |-> question.token, shown |-> question.shown]
<1>1. question \in Questions /\ QuestionOK(question) /\ AnswersOK(page.answers)
  BY DEF PageOK, PageRow
<1>2. inv \in Invariant /\ answer \in AnswerRow(inv)
  BY <1>1, QuestionType DEF AnswerRow
<1>3. sent \in Answers
  <2>1. answer \in AnyAnswer
    BY <1>2 DEF AnyAnswer
  <2> QED
    BY <1>2, <2>1, NoAnswersOK DEF Answering, Answers, PageRow
<1>4. AnswersOK(Answering(page.answers, question, as))
  <2>1. \A other \in Invariant :
           Answering(page.answers, question, as)[other] =
               IF other = inv THEN answer ELSE page.answers[other]
    BY <1>2 DEF Answering, PageRow, Answers
  <2>2. answer.token = Token(inv, answer.shown) /\ (answer.as = "repaired" => inv = "reachable")
    BY <1>1 DEF QuestionOK
  <2> HIDE DEF answer, inv, question
  <2> QED
    BY <1>1, <2>1, <2>2 DEF AnswersOK
<1>5. AnswersOK(sent)
  BY <1>4, NoAnswersOK
<1>6. /\ new.phase = "sent" /\ new.reply = page.reply /\ new.edit = page.edit
      /\ new.answers = page.answers /\ new.sent = sent /\ new.question = page.question
      /\ new.changed = page.changed /\ new.failed = page.failed
  BY DEF PageRow
<1>7. new \in PageRow
  BY <1>3 DEF PageRow
<1>8. page.reply = None /\ page.edit # None
  BY DEF PageOK
<1> HIDE DEF answer, inv, question
<1>9. PageOK(new)
  BY <1>5, <1>6, <1>8 DEF PageOK, SaysWhy
<1> QED
  BY <1>7, <1>9

-----------------------------------------------------------------------------
(* The guard *)

\* A repair is asked for and there is one.
Mends(s, w, answers) ==
    /\ Repairing(s, w, answers)
    /\ FullyRepairable(w, Subjects(Added(s, w, "reachable")))

\* What is about to commit is what was written, or that with the repair done.
LEMMA ProposalKeeps ==
    ASSUME NEW s \in Tables, NEW edit \in RideRow, NEW w, w = Written(s, edit),
           NEW answers, NEW p \in Proposals(s, w, answers),
           NEW S, S = Subjects(Added(s, w, "reachable"))
    PROVE  /\ w \in Tables /\ p \in Tables
           /\ p.ride = w.ride /\ p.bus = w.bus
           /\ S \subseteq Live(w)
           /\ Live(w) = Live(s) /\ Live(p) = Live(s)
           /\ Linked(w) = Linked(s) /\ Linked(s) \subseteq Linked(p)
           /\ \/ ~Mends(s, w, answers) /\ p = w
              \/ Mends(s, w, answers) /\ \E f \in SeatChoices(w, S) : p = Repaired(w, S, f)
<1>1. w \in Tables /\ Live(w) = Live(s) /\ Linked(w) = Linked(s)
  BY WrittenKeeps
<1>2. S \subseteq Live(w)
  BY <1>1, AddedWhenStranded
<1>3. CASE ~Mends(s, w, answers)
  <2>1. p = w
    BY <1>3 DEF Proposals, Mends
  <2> QED
    BY <1>1, <1>2, <1>3, <2>1
<1>4. CASE Mends(s, w, answers)
  <2>1. PICK f \in SeatChoices(w, S) : p = Repaired(w, S, f)
    BY <1>4 DEF Proposals, Mends
  <2>2. /\ p \in Tables /\ p.ride = w.ride /\ p.bus = w.bus /\ Live(p) = Live(w)
        /\ Linked(p) = Linked(w) \cup S
    BY <1>1, <1>2, <2>1, RepairedKeeps
  <2> QED
    BY <1>1, <1>2, <1>4, <2>1, <2>2
<1> QED
  BY <1>3, <1>4

\* Every refusal is a question, and one that repeats an answered question
\* follows a repair that did not do.
LEMMA RefusalIsQuestion ==
    ASSUME NEW s \in Tables, NEW edit \in RideRow, NEW w, w = Written(s, edit),
           NEW answers \in Answers, AnswersOK(answers), NEW p \in Proposals(s, w, answers),
           NEW insists \in BOOLEAN, NEW inv \in Invariant, Refuses(s, w, p, answers, inv)
    PROVE  /\ Refusal(s, w, p, answers, insists, inv) \in Questions
           /\ ReplyOK(Refusal(s, w, p, answers, insists, inv), answers)
<1> DEFINE added == Judged(s, w, p, inv)
           offered == /\ ~insists
                      /\ ~(inv = "reachable" /\ Repairing(s, w, answers))
                      /\ Repairable(inv, IF inv = "departureTimeKept" THEN w ELSE p, added)
           reply == Refusal(s, w, p, answers, insists, inv)
<1>1. w \in Tables /\ p \in Tables
  BY ProposalKeeps
<1>2. added \in Shown(inv)
  BY <1>1, AddedType DEF Judged
<1>3. offered \in BOOLEAN /\ (offered => inv = "reachable" /\ ~Repairing(s, w, answers))
  BY DEF Repairable
<1>4. reply = Question(inv, added, offered)
  BY DEF Refusal
<1>5. ~Settled(s, w, p, answers, inv)
  BY DEF Refuses
<1>6. added # {} /\ ~Confirms(answers, inv, Token(inv, added))
  BY <1>5 DEF Settled
<1>7. inv = "reachable" => added = Added(s, w, "reachable")
  BY DEF Judged
<1> HIDE DEF added, offered, reply
<1>8. /\ reply.inv = inv /\ reply.shown = added /\ reply.token = Token(inv, added)
      /\ reply.repairable = offered
  BY <1>4 DEF Question
<1>9. reply \in QuestionRow(inv)
  BY <1>2, <1>3, <1>4 DEF Question, QuestionRow, Token
<1>10. QuestionOK(reply)
  BY <1>3, <1>8 DEF QuestionOK
<1>11. ASSUME answers[inv] # None, answers[inv].token = reply.token
       PROVE  answers[inv].as = "repaired" /\ ~reply.repairable
  <2>1. answers[inv] \in AnyAnswer
    BY <1>11 DEF Answers
  <2>2. answers[inv].as \in {"confirmed", "repaired"}
    BY <2>1, AnswerType
  <2>3. answers[inv].as = "repaired"
    BY <1>6, <1>8, <1>11, <2>2 DEF Confirms
  <2>4. inv = "reachable"
    BY <1>11, <2>3 DEF AnswersOK
  <2>5. Repairing(s, w, answers)
    BY <1>6, <1>7, <1>8, <1>11, <2>3, <2>4 DEF Repairing, AsksRepair
  <2> QED
    BY <1>3, <1>8, <2>3, <2>5
<1>12. ReplyOK(reply, answers)
  BY <1>8, <1>10, <1>11 DEF ReplyOK
<1> QED
  BY <1>9, <1>12 DEF Questions, reply

\* What the answers say yes to of one invariant.
AgreedTo(answers, inv) ==
    IF answers[inv] # None /\ answers[inv].as = "confirmed" THEN answers[inv].shown ELSE {}

LEMMA ConfirmedIsShown ==
    ASSUME NEW answers \in Answers, AnswersOK(answers), NEW inv \in Invariant, NEW added,
           Confirms(answers, inv, Token(inv, added))
    PROVE  AgreedTo(answers, inv) = added
<1>1. /\ answers[inv] # None /\ answers[inv].as = "confirmed"
      /\ answers[inv].token = Token(inv, added)
  BY DEF Confirms
<1>2. Token(inv, answers[inv].shown) = Token(inv, added)
  BY <1>1 DEF AnswersOK
<1>3. answers[inv].shown = added
  BY <1>2 DEF Token
<1> QED
  BY <1>1, <1>3 DEF AgreedTo

\* A write every question of which is settled harms as was agreed to.
LEMMA SettledIsAgreed ==
    ASSUME NEW s \in Tables, NEW edit \in RideRow, NEW w, w = Written(s, edit),
           NEW answers \in Answers, AnswersOK(answers), NEW p \in Proposals(s, w, answers),
           \A inv \in Invariant : Settled(s, w, p, answers, inv)
    PROVE  /\ p.bus.time # s.bus.time /\ Linked(s) # {} =>
                 AgreedTo(answers, "departureTimeKept") =
                     {<<<<r, p.bus.time>>, 0>> : r \in Linked(s)}
           /\ {r \in Live(s) : Reachable(s, r) /\ ~Reachable(p, r)} # {} =>
                 Subjects(AgreedTo(answers, "reachable")) =
                     {r \in Live(s) : Reachable(s, r) /\ ~Reachable(p, r)}
           /\ {r \in Reservation : SeatMissing(p, r) /\ ~SeatMissing(s, r)} # {} =>
                 Subjects(AgreedTo(answers, "seatWithinCapacity")) =
                     {r \in Reservation : SeatMissing(p, r) /\ ~SeatMissing(s, r)}
           /\ \A i \in {"bus", "run"} : Deepens(s, p, i) =>
                 <<Instance(p, i), Excess(p, i)>> \in AgreedTo(answers, "notOverbooked")
<1> DEFINE S == Subjects(Added(s, w, "reachable"))
<1>1. /\ w \in Tables /\ p \in Tables /\ p.bus = w.bus
      /\ Live(w) = Live(s) /\ Live(p) = Live(s) /\ Linked(w) = Linked(s)
      /\ \/ ~Mends(s, w, answers) /\ p = w
         \/ Mends(s, w, answers)
  BY ProposalKeeps
<1>2. ASSUME p.bus.time # s.bus.time, Linked(s) # {}
      PROVE  AgreedTo(answers, "departureTimeKept") = {<<<<r, p.bus.time>>, 0>> : r \in Linked(s)}
  <2>1. Judged(s, w, p, "departureTimeKept") = {<<<<r, p.bus.time>>, 0>> : r \in Linked(s)}
    BY <1>1, <1>2, AddedWhenMoved DEF Judged
  <2>2. Judged(s, w, p, "departureTimeKept") # {}
    BY <1>2, <2>1
  <2>3. Confirms(answers, "departureTimeKept",
                 Token("departureTimeKept", Judged(s, w, p, "departureTimeKept")))
    BY <2>2 DEF Settled, Invariant
  <2> QED
    BY <2>1, <2>3, ConfirmedIsShown DEF Invariant
<1>3. ASSUME {r \in Live(s) : Reachable(s, r) /\ ~Reachable(p, r)} # {}
      PROVE  Subjects(AgreedTo(answers, "reachable")) =
                 {r \in Live(s) : Reachable(s, r) /\ ~Reachable(p, r)}
  <2>1. Subjects(Added(s, p, "reachable")) = {r \in Live(s) : Reachable(s, r) /\ ~Reachable(p, r)}
    BY <1>1, AddedWhenStranded
  <2>2. Added(s, p, "reachable") # {}
    BY <1>3, <2>1 DEF Subjects
  <2>3. Judged(s, w, p, "reachable") = Added(s, w, "reachable")
    BY DEF Judged
  <2>4. Settled(s, w, p, answers, "reachable")
    BY DEF Invariant
  <2>5. CASE Mends(s, w, answers)
    <3>1. Repairing(s, w, answers) /\ Added(s, w, "reachable") # {}
      BY <2>5 DEF Mends, Repairing
    <3>2. Confirms(answers, "reachable", Token("reachable", Added(s, w, "reachable")))
      BY <2>2, <2>3, <2>4, <3>1 DEF Settled
    <3> QED
      BY <3>1, <3>2 DEF Confirms, Repairing, AsksRepair
  <2>6. CASE ~Mends(s, w, answers)
    <3>1. p = w
      BY <1>1, <2>6
    <3>2. Confirms(answers, "reachable", Token("reachable", Added(s, w, "reachable")))
      BY <2>2, <2>3, <2>4, <3>1 DEF Settled
    <3>3. AgreedTo(answers, "reachable") = Added(s, p, "reachable")
      BY <3>1, <3>2, ConfirmedIsShown DEF Invariant
    <3> QED
      BY <2>1, <3>3
  <2> QED
    BY <2>5, <2>6
<1>4. ASSUME {r \in Reservation : SeatMissing(p, r) /\ ~SeatMissing(s, r)} # {}
      PROVE  Subjects(AgreedTo(answers, "seatWithinCapacity")) =
                 {r \in Reservation : SeatMissing(p, r) /\ ~SeatMissing(s, r)}
  <2>1. Subjects(Added(s, p, "seatWithinCapacity")) =
            {r \in Reservation : SeatMissing(p, r) /\ ~SeatMissing(s, r)}
    BY <1>1, AddedWhenUnseated
  <2>2. Judged(s, w, p, "seatWithinCapacity") = Added(s, p, "seatWithinCapacity")
    BY DEF Judged
  <2>3. Added(s, p, "seatWithinCapacity") # {}
    BY <1>4, <2>1 DEF Subjects
  <2>4. Confirms(answers, "seatWithinCapacity",
                 Token("seatWithinCapacity", Added(s, p, "seatWithinCapacity")))
    BY <2>2, <2>3 DEF Settled, Invariant
  <2> QED
    BY <2>1, <2>4, ConfirmedIsShown DEF Invariant
<1>5. ASSUME NEW i \in {"bus", "run"}, Deepens(s, p, i)
      PROVE  <<Instance(p, i), Excess(p, i)>> \in AgreedTo(answers, "notOverbooked")
  <2>1. <<Instance(p, i), Excess(p, i)>> \in Added(s, p, "notOverbooked")
    BY <1>1, <1>5, AddedWhenDeepened
  <2>2. Judged(s, w, p, "notOverbooked") = Added(s, p, "notOverbooked")
    BY DEF Judged
  <2>3. Confirms(answers, "notOverbooked", Token("notOverbooked", Added(s, p, "notOverbooked")))
    BY <2>1, <2>2 DEF Settled, Invariant
  <2> QED
    BY <2>1, <2>3, ConfirmedIsShown DEF Invariant
<1> QED
  BY <1>2, <1>3, <1>4, <1>5

\* Whom a repair moves it seats: on a bus that runs, in a seat it has and
\* nobody it visibly carries holds.
LEMMA MendedIsSeated ==
    ASSUME NEW s \in Tables, NEW edit \in RideRow, NEW w, w = Written(s, edit),
           NEW answers, NEW p \in Proposals(s, w, answers),
           NEW r \in Linked(p) \ Linked(s)
    PROVE  /\ ~p.bus.dropped /\ p.booking[r].seat <= p.bus.capacity
           /\ \A q \in Live(p) \ {r} : Reachable(p, q) => p.booking[q].seat # p.booking[r].seat
<1> DEFINE S == Subjects(Added(s, w, "reachable"))
<1>1. /\ w \in Tables /\ p \in Tables /\ p.ride = w.ride /\ p.bus = w.bus /\ S \subseteq Live(w)
      /\ Live(w) = Live(s) /\ Live(p) = Live(s) /\ Linked(w) = Linked(s)
      /\ \/ ~Mends(s, w, answers) /\ p = w
         \/ Mends(s, w, answers) /\ \E f \in SeatChoices(w, S) : p = Repaired(w, S, f)
  BY ProposalKeeps
<1>2. Mends(s, w, answers)
  BY <1>1
<1>3. PICK f \in SeatChoices(w, S) : p = Repaired(w, S, f)
  BY <1>1, <1>2
<1>4. FullyRepairable(w, S)
  BY <1>2 DEF Mends
<1> HIDE DEF S
<1>5. /\ \A x \in S : p.booking[x] = [linked |-> TRUE, time |-> w.bus.time, seat |-> f[x]]
      /\ \A x \in Reservation \ S : p.booking[x] = w.booking[x]
      /\ Linked(p) = Linked(w) \cup S
  BY <1>1, <1>3, RepairedKeeps
<1>6. \A x \in S : p.booking[x].seat = f[x]
  <2>1. \A x \in S : [linked |-> TRUE, time |-> w.bus.time, seat |-> f[x]].seat = f[x]
    OBVIOUS
  <2> QED
    BY <1>5, <2>1
<1>7. r \in S /\ p.booking[r].seat = f[r]
  BY <1>1, <1>5, <1>6
<1>8. f \in [S -> FreeSeats(w)] /\ \A x, y \in S : f[x] = f[y] => x = y
  BY DEF SeatChoices
<1>9. f[r] \in 1 .. w.bus.capacity /\ f[r] \notin Taken(w)
  BY <1>7, <1>8 DEF FreeSeats
<1>10. ~w.bus.dropped
  BY <1>4, WrittenKeeps DEF FullyRepairable
<1>11. w.bus.capacity \in Nat
  BY <1>1, ConsentAssumption DEF Tables, BusRow
<1>12. ASSUME NEW q \in Live(p) \ {r}, Reachable(p, q) PROVE p.booking[q].seat # f[r]
  <2>1. CASE q \in S
    <3>1. p.booking[q].seat = f[q]
      BY <1>6, <2>1
    <3> QED
      BY <1>7, <1>8, <2>1, <3>1
  <2>2. CASE q \notin S
    <3>1. q \in Reservation /\ p.booking[q] = w.booking[q] /\ q \in Live(w)
      BY <1>1, <1>5, <2>2 DEF Live
    <3>2. Reachable(w, q)
      BY <1>1, <1>12, <3>1 DEF Reachable
    <3>3. w.booking[q].seat \in Taken(w)
      BY <3>1, <3>2 DEF Taken
    <3> QED
      BY <1>9, <3>1, <3>3
  <2> QED
    BY <2>1, <2>2
<1> QED
  BY <1>1, <1>7, <1>9, <1>10, <1>11, <1>12

-----------------------------------------------------------------------------
(* The steps *)

LEMMA NowType ==
    /\ Now \in Tables <=>
          /\ ride \in RideRow /\ bus \in BusRow
          /\ booking \in [Reservation -> BookingRow \cup {None}]
    /\ Now.ride = ride /\ Now.bus = bus /\ Now.booking = booking
BY DEF Now, Tables

\* The request commits one of the proposals, if it commits.
LEMMA HandleFacts ==
    ASSUME Inv, NEW t \in Tab, Handle(t)
    PROVE  /\ tab[t].edit \in RideRow
           /\ tab[t].sent \in Answers /\ AnswersOK(tab[t].sent)
           /\ \E p \in Proposals(Now, Written(Now, tab[t].edit), tab[t].sent) :
                 \/ /\ \A inv \in Invariant :
                          Settled(Now, Written(Now, tab[t].edit), p, tab[t].sent, inv)
                    /\ Now' = p /\ p \in Tables
                    /\ tab' = [tab EXCEPT ![t].phase = "answered", ![t].reply = Saved]
                 \/ \E inv \in Invariant :
                    /\ Refuses(Now, Written(Now, tab[t].edit), p, tab[t].sent, inv)
                    /\ tab' = [tab EXCEPT ![t].phase = "answered",
                                  ![t].reply = Refusal(Now, Written(Now, tab[t].edit), p,
                                                       tab[t].sent, tab[t].insists, inv)]
                    /\ UNCHANGED <<ride, bus, booking>>
<1>1. tab[t] \in PageRow /\ PageOK(tab[t]) /\ tab[t].phase = "sent" /\ Now \in Tables
  BY DEF Inv, Handle
<1>2. tab[t].edit \in RideRow
  BY <1>1, ConsentAssumption DEF PageOK, PageRow
<1>3. tab[t].sent \in Answers /\ AnswersOK(tab[t].sent)
  BY <1>1 DEF PageOK, PageRow
<1>4. \A p \in Proposals(Now, Written(Now, tab[t].edit), tab[t].sent) : p \in Tables
  BY <1>1, <1>2, ProposalKeeps
<1>5. \A p \in Tables : ride' = p.ride /\ bus' = p.bus /\ booking' = p.booking => Now' = p
  BY DEF Now, Tables
<1> QED
  BY <1>2, <1>3, <1>4, <1>5 DEF Handle

\* A step that changes one page only keeps what holds of the others.
LEMMA OnePage ==
    ASSUME Inv, NEW t \in Tab, NEW page, tab' = [tab EXCEPT ![t] = page],
           page \in PageRow, PageOK(page), Now' \in Tables
    PROVE  Inv'
BY DEF Inv

LEMMA SaveInv == \A t \in Tab, edit \in Edit : Inv /\ Save(t, edit) => Inv'
<1> SUFFICES ASSUME NEW t \in Tab, NEW edit \in Edit, Inv, Save(t, edit) PROVE Inv'
  OBVIOUS
<1>1. Now' \in Tables
  BY DEF Save, Now, Inv
<1> QED
  BY <1>1, SavedPage, OnePage DEF Save

LEMMA HandleInv == \A t \in Tab : Inv /\ Handle(t) => Inv'
<1> SUFFICES ASSUME NEW t \in Tab, Inv, Handle(t) PROVE Inv'
  OBVIOUS
<1>1. tab[t] \in PageRow /\ PageOK(tab[t]) /\ tab[t].phase = "sent" /\ Now \in Tables
  BY DEF Inv, Handle
<1>2. tab[t].insists \in BOOLEAN
  BY <1>1 DEF PageRow
<1>3. \E reply \in Questions \cup {Saved} :
         /\ reply # Saved => ReplyOK(reply, tab[t].sent)
         /\ tab' = [tab EXCEPT ![t].phase = "answered", ![t].reply = reply]
         /\ Now' \in Tables
  <2>1. PICK p \in Proposals(Now, Written(Now, tab[t].edit), tab[t].sent) :
           \/ /\ Now' = p /\ p \in Tables
              /\ tab' = [tab EXCEPT ![t].phase = "answered", ![t].reply = Saved]
           \/ \E inv \in Invariant :
              /\ Refuses(Now, Written(Now, tab[t].edit), p, tab[t].sent, inv)
              /\ tab' = [tab EXCEPT ![t].phase = "answered",
                            ![t].reply = Refusal(Now, Written(Now, tab[t].edit), p,
                                                 tab[t].sent, tab[t].insists, inv)]
              /\ UNCHANGED <<ride, bus, booking>>
    BY HandleFacts
  <2>2. CASE /\ Now' = p /\ p \in Tables
             /\ tab' = [tab EXCEPT ![t].phase = "answered", ![t].reply = Saved]
    BY <2>2
  <2>3. CASE \E inv \in Invariant :
              /\ Refuses(Now, Written(Now, tab[t].edit), p, tab[t].sent, inv)
              /\ tab' = [tab EXCEPT ![t].phase = "answered",
                            ![t].reply = Refusal(Now, Written(Now, tab[t].edit), p,
                                                 tab[t].sent, tab[t].insists, inv)]
              /\ UNCHANGED <<ride, bus, booking>>
    <3>1. PICK inv \in Invariant :
              /\ Refuses(Now, Written(Now, tab[t].edit), p, tab[t].sent, inv)
              /\ tab' = [tab EXCEPT ![t].phase = "answered",
                            ![t].reply = Refusal(Now, Written(Now, tab[t].edit), p,
                                                 tab[t].sent, tab[t].insists, inv)]
              /\ UNCHANGED <<ride, bus, booking>>
      BY <2>3
    <3> DEFINE reply == Refusal(Now, Written(Now, tab[t].edit), p, tab[t].sent,
                                tab[t].insists, inv)
    <3>2. reply \in Questions /\ ReplyOK(reply, tab[t].sent)
      BY <1>1, <1>2, <3>1, HandleFacts, RefusalIsQuestion
    <3>3. Now' = Now
      BY <3>1 DEF Now
    <3> QED
      BY <1>1, <3>1, <3>2, <3>3
  <2> QED
    BY <2>1, <2>2, <2>3
<1>4. PICK reply \in Questions \cup {Saved} :
         /\ reply # Saved => ReplyOK(reply, tab[t].sent)
         /\ tab' = [tab EXCEPT ![t].phase = "answered", ![t].reply = reply]
         /\ Now' \in Tables
  BY <1>3
<1> DEFINE page == [tab[t] EXCEPT !.phase = "answered", !.reply = reply]
<1>5. page \in PageRow /\ PageOK(page)
  BY <1>1, <1>4, RepliedPage
<1>6. tab' = [tab EXCEPT ![t] = page]
  BY <1>4
<1> QED
  BY <1>4, <1>5, <1>6, OnePage

LEMMA DeliverInv == \A t \in Tab : Inv /\ Deliver(t) => Inv'
<1> SUFFICES ASSUME NEW t \in Tab, Inv, Deliver(t) PROVE Inv'
  OBVIOUS
<1> DEFINE reply == tab[t].reply
           previous == tab[t].sent[reply.inv]
           same == previous # None /\ previous.token = reply.token
           changed == previous # None /\ ~same
           failed == same /\ previous.as = "repaired" /\ ~reply.repairable
<1>1. /\ tab[t] \in PageRow /\ PageOK(tab[t]) /\ tab[t].phase = "answered"
      /\ Now \in Tables /\ Now' = Now
  BY DEF Inv, Deliver, Now
<1>2. CASE reply = Saved /\ tab' = [tab EXCEPT ![t] = Idle]
  BY <1>1, <1>2, IdlePage, OnePage
<1>3. CASE /\ reply # Saved
           /\ tab' = [tab EXCEPT ![t].phase = "asking", ![t].answers = tab[t].sent,
                         ![t].sent = NoAnswers, ![t].question = reply,
                         ![t].changed = changed, ![t].failed = failed, ![t].reply = None]
  <2>1. reply \in Questions /\ ReplyOK(reply, tab[t].sent) /\ AnswersOK(tab[t].sent)
    BY <1>1, <1>3 DEF PageOK, PageRow
  <2>2. reply.inv \in Invariant
    BY <2>1, QuestionType
  <2>3. previous # None => (same <=> reply.shown = previous.shown)
    BY <2>1, <2>2 DEF ReplyOK, QuestionOK, AnswersOK, Token
  <2>4. same => previous.as = "repaired" /\ ~reply.repairable
    BY <2>1 DEF ReplyOK
  <2>5. previous # None =>
           /\ changed <=> reply.shown # previous.shown
           /\ failed <=> reply.shown = previous.shown
    BY <2>3, <2>4
  <2>6. changed \in BOOLEAN /\ failed \in BOOLEAN
    OBVIOUS
  <2> DEFINE page == [tab[t] EXCEPT !.phase = "asking", !.answers = tab[t].sent,
                         !.sent = NoAnswers, !.question = reply, !.changed = changed,
                         !.failed = failed, !.reply = None]
  <2>7. tab' = [tab EXCEPT ![t] = page]
    <3> HIDE DEF changed, failed, reply
    <3> QED
      BY <1>3
  <2>8. page \in PageRow /\ PageOK(page)
    <3> HIDE DEF changed, failed
    <3> QED
      BY <1>1, <2>1, <2>5, <2>6, AskingPage
  <2> QED
    BY <1>1, <2>7, <2>8, OnePage
<1> QED
  BY <1>2, <1>3 DEF Deliver

LEMMA LoseInv == \A t \in Tab : Inv /\ Lose(t) => Inv'
<1> SUFFICES ASSUME NEW t \in Tab, Inv, Lose(t) PROVE Inv'
  OBVIOUS
<1>1. /\ tab[t] \in PageRow /\ PageOK(tab[t]) /\ tab[t].phase \in {"sent", "answered"}
      /\ Now' \in Tables
  BY DEF Inv, Lose, Now
<1>2. CASE tab[t].question = None
  <2>1. tab' = [tab EXCEPT ![t] = Idle]
    BY <1>2 DEF Lose
  <2> QED
    BY <1>1, <2>1, IdlePage, OnePage
<1>3. CASE tab[t].question # None
  <2> DEFINE page == [tab[t] EXCEPT !.phase = "asking", !.sent = NoAnswers, !.reply = None]
  <2>1. tab' = [tab EXCEPT ![t] = page]
    BY <1>3 DEF Lose
  <2>2. page \in PageRow /\ PageOK(page)
    BY <1>1, <1>3, LostPage
  <2> QED
    BY <1>1, <2>1, <2>2, OnePage
<1> QED
  BY <1>2, <1>3

LEMMA AnswerInv ==
    \A t \in Tab, as \in {"confirmed", "repaired"} : Inv /\ Answer(t, as) => Inv'
<1> SUFFICES ASSUME NEW t \in Tab, NEW as \in {"confirmed", "repaired"}, Inv, Answer(t, as)
             PROVE  Inv'
  OBVIOUS
<1> DEFINE insists == t \in StaleTab
           sent == IF t \in StaleTab THEN NoAnswers
                   ELSE Answering(tab[t].answers, tab[t].question, as)
           page == [tab[t] EXCEPT !.phase = "sent", !.insists = insists, !.sent = sent]
<1>1. /\ tab[t] \in PageRow /\ PageOK(tab[t]) /\ tab[t].phase = "asking"
      /\ as = "repaired" => tab[t].question.repairable
      /\ Now' \in Tables
  BY DEF Inv, Answer, Now
<1>2. insists \in BOOLEAN /\ sent \in {NoAnswers, Answering(tab[t].answers, tab[t].question, as)}
  OBVIOUS
<1>3. tab' = [tab EXCEPT ![t].phase = "sent", ![t].insists = insists, ![t].sent = sent]
  BY DEF Answer
<1> HIDE DEF insists, sent
<1>4. tab' = [tab EXCEPT ![t] = page]
  BY <1>3
<1>5. page \in PageRow /\ PageOK(page)
  BY <1>1, <1>2, AnsweredPage
<1> QED
  BY <1>1, <1>4, <1>5, OnePage

LEMMA GiveUpInv == \A t \in Tab : Inv /\ GiveUp(t) => Inv'
<1> SUFFICES ASSUME NEW t \in Tab, Inv, GiveUp(t) PROVE Inv'
  OBVIOUS
<1>1. Now' \in Tables
  BY DEF GiveUp, Now, Inv
<1> QED
  BY <1>1, IdlePage, OnePage DEF GiveUp

LEMMA PassengersInv ==
    ASSUME NEW r \in Reservation, Inv, Cancel(r) \/ \E seat \in Seat : Book(r, seat)
    PROVE  Inv'
<1>1. ride \in RideRow /\ bus \in BusRow /\ booking \in [Reservation -> BookingRow \cup {None}]
  BY NowType DEF Inv
<1>2. booking' \in [Reservation -> BookingRow \cup {None}]
  <2>1. CASE Cancel(r)
    BY <1>1, <2>1 DEF Cancel
  <2>2. ASSUME NEW seat \in Seat, Book(r, seat)
        PROVE  booking' \in [Reservation -> BookingRow \cup {None}]
    <3>1. [linked |-> TRUE, time |-> bus.time, seat |-> seat] \in BookingRow
      BY <1>1 DEF BookingRow, BusRow
    <3> QED
      BY <1>1, <2>2, <3>1 DEF Book
  <2> QED
    BY <2>1, <2>2
<1>3. ride' = ride /\ bus' = bus /\ tab' = tab
  BY DEF Cancel, Book, Changed
<1>4. Now' \in Tables
  BY <1>1, <1>2, <1>3 DEF Now, Tables
<1> QED
  BY <1>3, <1>4 DEF Inv

LEMMA InvInit == Init => Inv
<1> SUFFICES ASSUME Init PROVE Inv
  OBVIOUS
<1>1. ride \in RideRow /\ ride.time \in Time /\ ride.capacity \in Capacity
  BY ConsentAssumption DEF Init, RideRow
<1>2. bus \in BusRow
  BY <1>1 DEF Init, BusRow
<1>3. PICK b \in InitBooking :
         booking = [r \in Reservation |->
                        IF b[r] # None /\ b[r].linked THEN [b[r] EXCEPT !.time = ride.time]
                        ELSE b[r]]
  BY DEF Init
<1>4. b \in [Reservation -> BookingRow \cup {None}]
  BY ConsentAssumption
<1>5. \A r \in Reservation : b[r] # None => [b[r] EXCEPT !.time = ride.time] \in BookingRow
  BY <1>1, <1>4 DEF BookingRow
<1>6. booking \in [Reservation -> BookingRow \cup {None}]
  BY <1>3, <1>4, <1>5
<1>7. tab \in [Tab -> PageRow] /\ \A t \in Tab : PageOK(tab[t])
  BY IdlePage DEF Init
<1> QED
  BY <1>1, <1>2, <1>6, <1>7, NowType DEF Inv

LEMMA InvStep == Inv /\ [Next]_vars => Inv'
<1> SUFFICES ASSUME Inv, [Next]_vars PROVE Inv'
  OBVIOUS
<1>1. ASSUME NEW t \in Tab, Confirm(t) \/ Repair(t) PROVE Inv'
  BY <1>1, AnswerInv DEF Confirm, Repair
<1>2. CASE UNCHANGED vars
  BY <1>2 DEF vars, Inv, Now
<1> QED
  BY <1>1, <1>2, SaveInv, HandleInv, DeliverInv, LoseInv, GiveUpInv, PassengersInv DEF Next

LEMMA InvAlways == Spec => []Inv
BY InvInit, InvStep, PTL DEF Spec

\* Every variable keeps its type, and a page has a reply exactly while one is
\* on its way to it and a question whenever it asks (useConfirmableUpdate).
THEOREM TypeCorrect == Spec => []TypeOK
<1>1. Inv => TypeOK
  <2> SUFFICES ASSUME Inv PROVE TypeOK
    OBVIOUS
  <2>1. ride \in RideRow /\ bus \in BusRow /\ booking \in [Reservation -> BookingRow \cup {None}]
    BY NowType DEF Inv
  <2>2. tab \in [Tab -> PageRow]
    BY DEF Inv
  <2>3. ASSUME NEW t \in Tab
        PROVE  /\ tab[t].phase \in {"idle", "sent", "answered", "asking"}
               /\ tab[t].edit \in Edit \cup {None}
               /\ tab[t].phase # "idle" <=> tab[t].edit # None
               /\ tab[t].phase = "answered" <=> tab[t].reply # None
               /\ tab[t].phase = "asking" => tab[t].question # None
               /\ DOMAIN tab[t].answers = Invariant /\ DOMAIN tab[t].sent = Invariant
    <3>1. tab[t] \in PageRow /\ PageOK(tab[t])
      BY <2>2 DEF Inv
    <3>2. tab[t].answers \in Answers /\ tab[t].sent \in Answers
      BY <3>1 DEF PageRow
    <3>3. DOMAIN tab[t].answers = Invariant /\ DOMAIN tab[t].sent = Invariant
      BY <3>2 DEF Answers
    <3>4. /\ tab[t].phase \in {"idle", "sent", "answered", "asking"}
          /\ tab[t].edit \in Edit \cup {None}
      BY <3>1 DEF PageRow
    <3> QED
      BY <3>1, <3>3, <3>4 DEF PageOK
  <2> QED
    BY <2>1, <2>2, <2>3 DEF TypeOK, BusRow
<1> QED
  BY <1>1, InvAlways, PTL

\* An answered question comes back only with other violations or because its
\* repair failed, and the dialog says which: however many operators edit, and
\* whatever replies are lost (attempt in useConfirmableUpdate, the tokens of
\* guardProspectiveWrite).
THEOREM NeverAskedTwiceAlways == Spec => []NeverAskedTwice
<1>1. Inv => NeverAskedTwice
  BY DEF Inv, PageOK, SaysWhy, NeverAskedTwice
<1> QED
  BY <1>1, InvAlways, PTL

\* Only the request itself turns a page that waits into one with a reply.
LEMMA OnlyHandleAnswers ==
    ASSUME Inv, [Next]_vars, NEW t \in Tab, tab[t].phase = "sent", tab'[t].phase = "answered"
    PROVE  Handle(t)
<1>1. /\ tab \in [Tab -> PageRow] /\ tab[t] \in PageRow
      /\ tab'[t] # tab[t] /\ tab'[t] # Idle
      /\ tab[t].phase # "idle" /\ tab[t].phase # "asking" /\ tab[t].phase # "answered"
  BY DEF Inv, Idle
<1>2. ASSUME NEW u \in Tab, NEW edit \in Edit, Save(u, edit) PROVE FALSE
  BY <1>1, <1>2 DEF Save
<1>3. ASSUME NEW u \in Tab, Deliver(u) PROVE FALSE
  BY <1>1, <1>3 DEF Deliver
<1>4. ASSUME NEW u \in Tab, Lose(u) PROVE FALSE
  <2>1. u = t
    BY <1>1, <1>4 DEF Lose
  <2>2. CASE tab[t].question = None
    BY <1>1, <1>4, <2>1, <2>2 DEF Lose
  <2>3. CASE tab[t].question # None
    <3>1. tab'[t] = [tab[t] EXCEPT !.phase = "asking", !.sent = NoAnswers, !.reply = None]
      BY <1>1, <1>4, <2>1, <2>3 DEF Lose
    <3>2. tab'[t].phase = "asking"
      BY <1>1, <3>1 DEF PageRow
    <3> QED
      BY <3>2
  <2> QED
    BY <2>2, <2>3
<1>5. ASSUME NEW u \in Tab, NEW as \in {"confirmed", "repaired"}, Answer(u, as) PROVE FALSE
  BY <1>1, <1>5 DEF Answer
<1>6. ASSUME NEW u \in Tab, GiveUp(u) PROVE FALSE
  BY <1>1, <1>6 DEF GiveUp
<1>7. ASSUME NEW r \in Reservation, Cancel(r) \/ \E seat \in Seat : Book(r, seat) PROVE FALSE
  BY <1>1, <1>7 DEF Cancel, Book, Changed
<1>8. ASSUME NEW u \in Tab, Handle(u) PROVE u = t
  BY <1>1, <1>8 DEF Handle
<1> QED
  BY <1>1, <1>2, <1>3, <1>4, <1>5, <1>6, <1>7, <1>8 DEF Next, Confirm, Repair, vars

LEMMA CommitIsSettled ==
    ASSUME Inv, [Next]_vars, NEW t \in Tab, Commits(t)
    PROVE  /\ tab[t].edit \in RideRow
           /\ tab[t].sent \in Answers /\ AnswersOK(tab[t].sent)
           /\ \E p \in Proposals(Now, Written(Now, tab[t].edit), tab[t].sent) :
                 /\ \A inv \in Invariant :
                       Settled(Now, Written(Now, tab[t].edit), p, tab[t].sent, inv)
                 /\ Now' = p /\ p \in Tables
<1>1. Handle(t)
  BY OnlyHandleAnswers DEF Commits
<1>2. tab \in [Tab -> PageRow] /\ tab[t] \in PageRow /\ tab[t].insists \in BOOLEAN /\ Now \in Tables
  BY DEF Inv, PageRow
<1>3. tab'[t].reply = Saved
  BY DEF Commits
<1>4. ASSUME NEW p \in Proposals(Now, Written(Now, tab[t].edit), tab[t].sent), NEW inv \in Invariant,
             Refuses(Now, Written(Now, tab[t].edit), p, tab[t].sent, inv),
             tab' = [tab EXCEPT ![t].phase = "answered",
                                ![t].reply = Refusal(Now, Written(Now, tab[t].edit), p,
                                                     tab[t].sent, tab[t].insists, inv)]
      PROVE  FALSE
  <2> DEFINE reply == Refusal(Now, Written(Now, tab[t].edit), p, tab[t].sent, tab[t].insists, inv)
  <2>1. reply \in Questions
    BY <1>1, <1>2, <1>4, HandleFacts, RefusalIsQuestion
  <2>2. reply # Saved
    BY <2>1, QuestionType
  <2> HIDE DEF reply
  <2>3. tab'[t].reply = reply
    BY <1>2, <1>4 DEF PageRow, reply
  <2> QED
    BY <1>3, <2>2, <2>3
<1> QED
  BY <1>1, <1>4, HandleFacts

LEMMA AgreedIsAgreedTo == \A t \in Tab, inv \in Invariant : Agreed(t, inv) = AgreedTo(tab[t].sent, inv)
BY DEF Agreed, AgreedTo

\* What the passengers of the property are, in terms of the tables before
\* and after.
LEMMA HarmIsHarm ==
    ASSUME NEW s \in Tables, NEW p \in Tables, Now = s, Now' = p, Live(p) = Live(s),
           Linked(s) \subseteq Linked(p)
    PROVE  /\ Moved = IF p.bus.time # s.bus.time THEN Linked(s) ELSE {}
           /\ Stranded = {r \in Live(s) : Reachable(s, r) /\ ~Reachable(p, r)}
           /\ Unseated = {r \in Reservation : SeatMissing(p, r) /\ ~SeatMissing(s, r)}
           /\ Deepened = {i \in {"bus", "run"} : Deepens(s, p, i)}
<1>1. /\ bus = s.bus /\ booking = s.booking /\ ride = s.ride
      /\ bus' = p.bus /\ booking' = p.booking /\ ride' = p.ride
  BY DEF Now
<1>2. Moved = IF p.bus.time # s.bus.time THEN Linked(s) ELSE {}
  BY <1>1 DEF Moved
<1>3. Stranded = {r \in Live(s) : Reachable(s, r) /\ ~Reachable(p, r)}
  BY DEF Stranded
<1>4. \A r : SeatMissing(p, r) => r \in Live(s)
  BY DEF SeatMissing, Occupants, Linked, Placed
<1>5. Unseated = {r \in Live(s) : SeatMissing(p, r) /\ ~SeatMissing(s, r)}
  BY <1>1 DEF Unseated, SeatMissing
<1>6. Live(s) \subseteq Reservation
  BY DEF Live
<1>7. Unseated = {r \in Reservation : SeatMissing(p, r) /\ ~SeatMissing(s, r)}
  BY <1>4, <1>5, <1>6
<1>8. Deepened = {i \in {"bus", "run"} : Deepens(s, p, i)}
  BY DEF Deepened, Deepens
<1> QED
  BY <1>2, <1>3, <1>7, <1>8

LEMMA CommitIsConfirmed ==
    ASSUME Inv, [Next]_vars, NEW t \in Tab, Commits(t)
    PROVE  /\ Moved # {} => Moved = {v[1][1] : v \in Agreed(t, "departureTimeKept")}
           /\ Stranded # {} => Stranded = Subjects(Agreed(t, "reachable"))
           /\ Unseated # {} => Unseated = Subjects(Agreed(t, "seatWithinCapacity"))
           /\ \A i \in Deepened :
                 <<Instance(Now, i)', Excess(Now, i)'>> \in Agreed(t, "notOverbooked")
<1> DEFINE answers == tab[t].sent
           s == Now
           w == Written(s, tab[t].edit)
<1>1. s \in Tables /\ tab[t].edit \in RideRow /\ answers \in Answers /\ AnswersOK(answers)
  BY CommitIsSettled DEF Inv
<1>2. PICK p \in Proposals(s, w, answers) :
         (\A inv \in Invariant : Settled(s, w, p, answers, inv)) /\ Now' = p /\ p \in Tables
  BY CommitIsSettled
<1>3. Live(p) = Live(s) /\ Linked(s) \subseteq Linked(p)
  <2> HIDE DEF s, answers
  <2> QED
    BY <1>1, ProposalKeeps
<1>4. /\ Moved = IF p.bus.time # s.bus.time THEN Linked(s) ELSE {}
      /\ Stranded = {r \in Live(s) : Reachable(s, r) /\ ~Reachable(p, r)}
      /\ Unseated = {r \in Reservation : SeatMissing(p, r) /\ ~SeatMissing(s, r)}
      /\ Deepened = {i \in {"bus", "run"} : Deepens(s, p, i)}
  BY <1>1, <1>2, <1>3, HarmIsHarm
<1>5. /\ p.bus.time # s.bus.time /\ Linked(s) # {} =>
            AgreedTo(answers, "departureTimeKept") =
                {<<<<r, p.bus.time>>, 0>> : r \in Linked(s)}
      /\ Stranded # {} => Subjects(AgreedTo(answers, "reachable")) = Stranded
      /\ Unseated # {} => Subjects(AgreedTo(answers, "seatWithinCapacity")) = Unseated
      /\ \A i \in Deepened : <<Instance(p, i), Excess(p, i)>> \in AgreedTo(answers, "notOverbooked")
  <2> HIDE DEF s, answers
  <2>1. /\ p.bus.time # s.bus.time /\ Linked(s) # {} =>
              AgreedTo(answers, "departureTimeKept") =
                  {<<<<r, p.bus.time>>, 0>> : r \in Linked(s)}
        /\ {r \in Live(s) : Reachable(s, r) /\ ~Reachable(p, r)} # {} =>
              Subjects(AgreedTo(answers, "reachable")) =
                  {r \in Live(s) : Reachable(s, r) /\ ~Reachable(p, r)}
        /\ {r \in Reservation : SeatMissing(p, r) /\ ~SeatMissing(s, r)} # {} =>
              Subjects(AgreedTo(answers, "seatWithinCapacity")) =
                  {r \in Reservation : SeatMissing(p, r) /\ ~SeatMissing(s, r)}
        /\ \A i \in {"bus", "run"} : Deepens(s, p, i) =>
              <<Instance(p, i), Excess(p, i)>> \in AgreedTo(answers, "notOverbooked")
    BY <1>1, <1>2, SettledIsAgreed
  <2>2. Stranded # {} => Subjects(AgreedTo(answers, "reachable")) = Stranded
    BY <1>4, <2>1
  <2>3. Unseated # {} => Subjects(AgreedTo(answers, "seatWithinCapacity")) = Unseated
    BY <1>4, <2>1
  <2>4. \A i \in Deepened : <<Instance(p, i), Excess(p, i)>> \in AgreedTo(answers, "notOverbooked")
    BY <1>4, <2>1
  <2> QED
    BY <2>1, <2>2, <2>3, <2>4
<1>6. \A inv \in Invariant : Agreed(t, inv) = AgreedTo(answers, inv)
  BY AgreedIsAgreedTo
<1>7. ASSUME Moved # {} PROVE Moved = {v[1][1] : v \in Agreed(t, "departureTimeKept")}
  <2>1. Moved = Linked(s) /\ p.bus.time # s.bus.time /\ Linked(s) # {}
    BY <1>4, <1>7
  <2>2. Agreed(t, "departureTimeKept") = {<<<<r, p.bus.time>>, 0>> : r \in Linked(s)}
    BY <1>5, <1>6, <2>1 DEF Invariant
  <2> DEFINE shown == Agreed(t, "departureTimeKept")
             linked == Linked(s)
  <2>3. shown = {<<<<r, p.bus.time>>, 0>> : r \in linked}
    BY <2>2
  <2> HIDE DEF shown, linked
  <2>4. \A v \in shown : v[1][1] \in linked
    <3> SUFFICES ASSUME NEW v \in shown PROVE v[1][1] \in linked
      OBVIOUS
    <3>1. PICK r \in linked : v = <<<<r, p.bus.time>>, 0>>
      BY <2>3
    <3> QED
      BY <3>1
  <2>5. \A r \in linked : \E v \in shown : v[1][1] = r
    <3> SUFFICES ASSUME NEW r \in linked PROVE \E v \in shown : v[1][1] = r
      OBVIOUS
    <3>1. <<<<r, p.bus.time>>, 0>> \in shown /\ <<<<r, p.bus.time>>, 0>>[1][1] = r
      BY <2>3
    <3> QED
      BY <3>1
  <2>6. {v[1][1] : v \in shown} = linked
    BY <2>4, <2>5
  <2>7. {v[1][1] : v \in Agreed(t, "departureTimeKept")} = Linked(s)
    BY <2>6 DEF shown, linked
  <2> QED
    BY <2>1, <2>7
<1>8. \A i \in Deepened : Instance(Now, i)' = Instance(p, i) /\ Excess(Now, i)' = Excess(p, i)
  BY <1>2
<1> QED
  BY <1>5, <1>6, <1>7, <1>8 DEF Invariant

\* An edit that commits moves, strands and unseats exactly the passengers of
\* the questions its operator said yes to, and overbooks by exactly as many,
\* whatever happened between the question and the answer (the tokens
\* guardProspectiveWrite recomputes under the schedule lock).
THEOREM ConfirmedIsWrittenAlways == Spec => ConfirmedIsWritten
<1>1. Inv /\ [Next]_vars =>
         [\A t \in Tab : Commits(t) =>
             /\ Moved # {} => Moved = {v[1][1] : v \in Agreed(t, "departureTimeKept")}
             /\ Stranded # {} => Stranded = Subjects(Agreed(t, "reachable"))
             /\ Unseated # {} => Unseated = Subjects(Agreed(t, "seatWithinCapacity"))
             /\ \A i \in Deepened :
                 <<Instance(Now, i)', Excess(Now, i)'>> \in Agreed(t, "notOverbooked")]_vars
  BY CommitIsConfirmed
<1> QED
  BY <1>1, InvAlways, PTL DEF Spec, ConfirmedIsWritten

\* Only a commit links a reservation that is there.
LEMMA OnlyHandleLinks ==
    ASSUME Inv, [Next]_vars, NEW r \in Live(Now),
           booking'[r] # None, booking'[r].linked, ~booking[r].linked
    PROVE  \E t \in Tab : Handle(t) /\ booking' # booking
<1>1. r \in Reservation /\ booking[r] # None /\ booking' # booking
  BY DEF Live, Now
<1>2. booking \in [Reservation -> BookingRow \cup {None}]
  BY NowType DEF Inv
<1>3. ASSUME NEW q \in Reservation, Cancel(q) \/ \E seat \in Seat : Book(q, seat) PROVE FALSE
  <2>1. booking[q] # None /\ q = r => booking'[r] = None
    BY <1>2, <1>3 DEF Cancel, Book
  <2>2. q # r => booking'[r] = booking[r]
    <3>1. \E x : booking' = [booking EXCEPT ![q] = x]
      BY <1>3 DEF Cancel, Book
    <3> QED
      BY <1>1, <1>2, <3>1
  <2>3. booking[q] = None => q # r
    BY <1>1
  <2> QED
    BY <2>1, <2>2, <2>3
<1> QED
  BY <1>1, <1>3 DEF Next, Save, Deliver, Lose, Confirm, Repair, Answer, GiveUp, vars

LEMMA RepairSeats ==
    ASSUME Inv, [Next]_vars, NEW r \in Live(Now),
           booking'[r] # None, booking'[r].linked, ~booking[r].linked
    PROVE  /\ ~bus'.dropped /\ booking'[r].seat <= bus'.capacity
           /\ \A q \in Live(Now)' \ {r} : Reachable(Now, q)' => booking'[q].seat # booking'[r].seat
<1>1. PICK t \in Tab : Handle(t) /\ booking' # booking
  BY OnlyHandleLinks
<1> DEFINE answers == tab[t].sent
           s == Now
           w == Written(s, tab[t].edit)
<1>2. s \in Tables /\ tab[t].edit \in RideRow
  BY <1>1, HandleFacts DEF Inv
<1>3. PICK p \in Proposals(s, w, answers) : Now' = p /\ p \in Tables
  BY <1>1, HandleFacts
<1>4. booking = s.booking /\ booking' = p.booking /\ bus' = p.bus
  BY <1>3 DEF Now
<1>5. r \in Linked(p) \ Linked(s)
  BY <1>4 DEF Linked, Live
<1>6. /\ ~p.bus.dropped /\ p.booking[r].seat <= p.bus.capacity
      /\ \A q \in Live(p) \ {r} : Reachable(p, q) => p.booking[q].seat # p.booking[r].seat
  <2> HIDE DEF s, answers
  <2> QED
    BY <1>2, <1>5, MendedIsSeated
<1>7. Live(Now)' = Live(p) /\ \A q : Reachable(Now, q)' = Reachable(p, q)
  BY <1>3
<1> QED
  BY <1>4, <1>6, <1>7

\* Whoever a repair moves ends up on a bus that runs, in a seat it has and
\* nobody it visibly carries holds (repairOrphanedReservations, the seats
\* scanForOrphans gives in its two passes).
THEOREM RepairedIsSeatedAlways == Spec => RepairedIsSeated
<1>1. Inv /\ [Next]_vars =>
         [\A r \in Live(Now) :
             booking'[r] # None /\ booking'[r].linked /\ ~booking[r].linked =>
                /\ ~bus'.dropped /\ booking'[r].seat <= bus'.capacity
                /\ \A q \in Live(Now)' \ {r} :
                      Reachable(Now, q)' => booking'[q].seat # booking'[r].seat]_vars
  BY RepairSeats
<1> QED
  BY <1>1, InvAlways, PTL DEF Spec, RepairedIsSeated

=============================================================================
