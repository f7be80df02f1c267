----------------------- MODULE InvariantRunner_proof -----------------------
(***************************************************************************)
(* What holds of the daily integrity check for any number of replicas, any *)
(* set of violations, any retention and any number of failures: every      *)
(* variable keeps its type, one ticket a day, and what new findings are    *)
(* compared with is what the tenant was told of.                           *)
(***************************************************************************)
EXTENDS InvariantRunner, TLAPS

-----------------------------------------------------------------------------
(* The inductive invariant *)

\* The phases only the replica that inserted the day's row is in.
Holding == {"claimed", "based", "reported", "completed", "ticketed", "mailed"}

\* One replica holds the day, and the day's row says so.
DayHeldOnce ==
    /\ \A k \in Replica : worker[k].phase \in Holding => claimed
    /\ \A k, l \in Replica :
          worker[k].phase \in Holding /\ worker[l].phase \in Holding => k = l

\* The day's ticket is opened by who holds the day, when it is completed.
TicketFollowsClaim ==
    /\ tickets <= 1
    /\ ~claimed => tickets = 0
    /\ \A k \in Replica :
          worker[k].phase \in {"claimed", "based", "reported", "completed"} => tickets = 0

\* What a job compares with stays told until its ticket has been tried.
ComparesWithTold(k) ==
    worker[k].phase \in {"based", "reported", "completed"} => worker[k].previous \subseteq told

\* Once the ticket is open all that the job found is told.
ReportIsTold(k) ==
    worker[k].phase \in {"ticketed", "mailed"} /\ ~worker[k].error => worker[k].report \subseteq told

\* The row i is where the job's result is stored, not yet told.
StoredAt(k, i) ==
    TodaysRun(i) /\ rows[i].results = worker[k].report /\ rows[i].alertError = "pending"

\* The row a job settles is its own: it is there, and it is the day's.
SettlesOwnRow(k) ==
    worker[k].phase \in {"completed", "ticketed", "mailed"} => \E i \in DOMAIN rows : StoredAt(k, i)

JobInv(k) == ComparesWithTold(k) /\ ReportIsTold(k) /\ SettlesOwnRow(k)

Inv ==
    /\ TypeOK
    /\ DayHeldOnce
    /\ TicketFollowsClaim
    /\ \A k \in Replica : JobInv(k)
    /\ BaselineWasTold

-----------------------------------------------------------------------------
(* The stored runs *)

\* The n oldest runs are expired.
ExpiredUpTo(n) ==
    /\ n \in 0 .. Len(rows)
    /\ \A i \in DOMAIN rows : i <= n => Expired(rows[i])

\* Of the runs the last ones are left, and what follows them was run by hand.
KeepsAllAfter(n) ==
    /\ ExpiredUpTo(n)
    /\ Len(rows') >= Len(rows) - n
    /\ \A i \in 1 .. Len(rows) - n : rows'[i] = rows[i + n]
    /\ \A i \in DOMAIN rows' : i > Len(rows) - n => rows'[i].trigger = "MANUAL"

\* What the job looks up is found again where it was or further to the front.
LEMMA PrunedDropsPrefix ==
    ASSUME rows \in Seq(Row), NEW kept, Pruned(kept)
    PROVE  \E n \in Nat :
              /\ ExpiredUpTo(n)
              /\ kept \in Seq(Row)
              /\ Len(kept) = Len(rows) - n
              /\ \A i \in 1 .. Len(kept) : kept[i] = rows[i + n]
<1>1. PICK n \in 0 .. Len(rows) :
         /\ \A i \in DOMAIN rows : Expired(rows[i]) <=> i <= n
         /\ kept = SubSeq(rows, n + 1, Len(rows))
  BY DEF Pruned
<1>2. n \in Nat /\ n <= Len(rows)
  BY <1>1
<1>3. Len(kept) = Len(rows) - n /\ \A i \in 1 .. Len(kept) : kept[i] = rows[i + n]
  BY <1>1, <1>2
<1>4. kept \in Seq(Row)
  BY <1>1, <1>2
<1> QED
  BY <1>1, <1>2, <1>3, <1>4 DEF ExpiredUpTo

LEMMA RunsStay ==
    ASSUME TypeOK, TypeOK', NEW n \in Nat, KeepsAllAfter(n)
    PROVE  /\ \A i \in DOMAIN rows : TodaysRun(i) =>
                 \E j \in DOMAIN rows' : TodaysRun(j)' /\ rows'[j] = rows[i]
           /\ \A j \in DOMAIN rows' : Baseline(j)' =>
                 \E i \in DOMAIN rows : Baseline(i) /\ rows[i] = rows'[j]
<1> USE RetentionAssumption
<1>1. rows \in Seq(Row) /\ rows' \in Seq(Row)
  BY DEF TypeOK
<1>2. Len(rows) \in Nat /\ Len(rows') \in Nat /\ n <= Len(rows)
  BY <1>1 DEF KeepsAllAfter, ExpiredUpTo
<1>3. DOMAIN rows = 1 .. Len(rows) /\ DOMAIN rows' = 1 .. Len(rows')
  BY <1>1
<1>4. ASSUME NEW i \in DOMAIN rows, TodaysRun(i)
      PROVE  \E j \in DOMAIN rows' : TodaysRun(j)' /\ rows'[j] = rows[i]
  <2>1. i > n
    BY <1>2, <1>3, <1>4 DEF TodaysRun, KeepsAllAfter, ExpiredUpTo, Expired
  <2>2. i - n \in 1 .. Len(rows) - n /\ i - n \in DOMAIN rows' /\ (i - n) + n = i
    BY <2>1, <1>2, <1>3, <1>4 DEF KeepsAllAfter
  <2>3. rows'[i - n] = rows[i]
    BY <2>2 DEF KeepsAllAfter
  <2>4. ASSUME NEW m \in DOMAIN rows', rows'[m].trigger = "SCHEDULED" PROVE m <= i - n
    <3>1. m \in 1 .. Len(rows) - n
      BY <2>4, <1>2, <1>3 DEF KeepsAllAfter
    <3>2. rows'[m] = rows[m + n] /\ m + n \in DOMAIN rows
      BY <3>1, <1>2, <1>3 DEF KeepsAllAfter
    <3>3. m + n <= i
      BY <3>2, <2>4, <1>4 DEF TodaysRun
    <3> QED
      BY <3>1, <3>3, <1>2, <1>3
  <2>5. TodaysRun(i - n)'
    BY <2>2, <2>3, <2>4, <1>4 DEF TodaysRun
  <2> QED
    BY <2>2, <2>3, <2>5
<1>5. ASSUME NEW j \in DOMAIN rows', Baseline(j)'
      PROVE  \E i \in DOMAIN rows : Baseline(i) /\ rows[i] = rows'[j]
  <2>1. rows'[j].trigger = "SCHEDULED" /\ rows'[j].alertError = "null"
    BY <1>5 DEF Baseline, Alerted
  <2>2. j \in 1 .. Len(rows) - n
    BY <2>1, <1>2, <1>3, <1>5 DEF KeepsAllAfter
  <2>3. rows'[j] = rows[j + n] /\ j + n \in DOMAIN rows
    BY <2>2, <1>2, <1>3 DEF KeepsAllAfter
  <2>4. ASSUME NEW m \in DOMAIN rows, Alerted(m) PROVE m <= j + n
    <3>1. CASE m <= n
      BY <3>1, <2>2, <1>2, <1>3
    <3>2. CASE m > n
      <4>1. m - n \in 1 .. Len(rows) - n /\ m - n \in DOMAIN rows' /\ (m - n) + n = m
        BY <3>2, <1>2, <1>3 DEF KeepsAllAfter
      <4>2. rows'[m - n] = rows[m]
        BY <4>1 DEF KeepsAllAfter
      <4>3. Alerted(m - n)'
        BY <4>2, <2>4 DEF Alerted
      <4>4. m - n <= j
        BY <4>1, <4>3, <1>5 DEF Baseline
      <4> QED
        BY <4>4, <2>2, <1>2, <1>3
    <3> QED
      BY <3>1, <3>2, <1>2, <1>3
  <2>5. Baseline(j + n)
    BY <2>1, <2>3, <2>4 DEF Baseline, Alerted
  <2> QED
    BY <2>3, <2>5
<1> QED
  BY <1>4, <1>5

-----------------------------------------------------------------------------
(* Types *)

LEMMA IdleIsJob == Idle \in Job
BY DEF Idle, Job, Phase

\* A job that only goes on to its next phase is still a job.
LEMMA GotoType ==
    ASSUME TypeOK, NEW k \in Replica, NEW phase \in Phase, Goto(k, phase)
    PROVE  worker' \in [Replica -> Job]
<1>1. worker[k] \in Job
  BY DEF TypeOK
<1>2. [worker[k] EXCEPT !.phase = phase] \in Job
  BY <1>1 DEF Job
<1> QED
  BY <1>2 DEF Goto, TypeOK

LEMMA IdleType ==
    ASSUME TypeOK, NEW k \in Replica, worker' = [worker EXCEPT ![k] = Idle]
    PROVE  worker' \in [Replica -> Job]
BY IdleIsJob DEF TypeOK

LEMMA FailureType ==
    ASSUME TypeOK, Failure
    PROVE  failures' \in Nat
BY DEF TypeOK, Failure

LEMMA CompletedType ==
    ASSUME TypeOK, NEW k \in Replica, NEW e \in {"null", "pending"}
    PROVE  /\ Completed(worker[k], e) \in Seq(Row)
           /\ Len(Completed(worker[k], e)) = Len(rows) + 1
<1>1. worker[k].report \in SUBSET Violation
  BY DEF TypeOK, Job
<1>2. 0 \in 0 .. Retention + 1
  BY RetentionAssumption
<1>3. [age |-> 0, trigger |-> "SCHEDULED", results |-> worker[k].report, alertError |-> e] \in Row
  BY <1>1, <1>2 DEF Row
<1> QED
  BY <1>3 DEF TypeOK, Completed

LEMMA OlderType ==
    ASSUME NEW row \in Row
    PROVE  Older(row) \in Row
<1>1. (IF row.age > Retention THEN row.age ELSE row.age + 1) \in 0 .. Retention + 1
  BY RetentionAssumption DEF Row
<1> QED
  BY <1>1 DEF Older, Row

LEMMA DayPassesRows ==
    ASSUME TypeOK, DayPasses
    PROVE  /\ rows' \in Seq(Row)
           /\ DOMAIN rows' = DOMAIN rows
           /\ \A i \in DOMAIN rows : rows'[i] = Older(rows[i])
<1>1. rows \in Seq(Row) /\ Len(rows) \in Nat /\ DOMAIN rows = 1 .. Len(rows)
  BY DEF TypeOK
<1>2. \A i \in 1 .. Len(rows) : Older(rows[i]) \in Row
  BY <1>1, OlderType
<1>3. rows' \in [1 .. Len(rows) -> Row]
  BY <1>1, <1>2 DEF DayPasses
<1> QED
  BY <1>1, <1>3 DEF DayPasses

LEMMA SettleRows ==
    ASSUME TypeOK, NEW i \in DOMAIN rows, NEW e \in {"null", "failed"},
           rows' = [rows EXCEPT ![i].alertError = e]
    PROVE  /\ rows' \in Seq(Row)
           /\ DOMAIN rows' = DOMAIN rows
           /\ \A j \in DOMAIN rows : j # i => rows'[j] = rows[j]
           /\ rows'[i] = [rows[i] EXCEPT !.alertError = e]
<1>1. rows \in Seq(Row) /\ rows[i] \in Row
  BY DEF TypeOK
<1>2. [rows[i] EXCEPT !.alertError = e] \in Row
  BY <1>1 DEF Row
<1> QED
  BY <1>1, <1>2

LEMMA AppendFacts ==
    ASSUME NEW S, NEW s \in Seq(S), NEW e \in S
    PROVE  /\ Append(s, e) \in Seq(S)
           /\ Len(s) \in Nat
           /\ Len(Append(s, e)) = Len(s) + 1
           /\ DOMAIN Append(s, e) = 1 .. Len(s) + 1
           /\ \A i \in 1 .. Len(s) : Append(s, e)[i] = s[i]
           /\ Append(s, e)[Len(s) + 1] = e
OBVIOUS

\* A run by hand stores its row last.
LEMMA StoreByHandRows ==
    ASSUME TypeOK, NEW a \in Admin, StoreByHand(a)
    PROVE  /\ rows' \in Seq(Row)
           /\ KeepsAllAfter(0)
<1> DEFINE row == [age |-> 0, trigger |-> "MANUAL", results |-> manual[a].report,
                   alertError |-> "null"]
<1>1. row \in Row
  BY RetentionAssumption DEF TypeOK, ManualRun, Row
<1>2. rows \in Seq(Row) /\ row.trigger = "MANUAL" /\ rows' = Append(rows, row)
  BY DEF TypeOK, StoreByHand
<1> HIDE DEF row
<1>3. /\ rows' \in Seq(Row) /\ Len(rows) \in Nat
      /\ Len(rows') = Len(rows) + 1
      /\ DOMAIN rows' = 1 .. Len(rows) + 1
      /\ \A i \in 1 .. Len(rows) : rows'[i] = rows[i]
      /\ rows'[Len(rows) + 1] = row
  BY <1>1, <1>2, AppendFacts
<1>4. ExpiredUpTo(0)
  BY <1>2, <1>3 DEF ExpiredUpTo
<1>5. \A i \in DOMAIN rows' : i > Len(rows) - 0 => rows'[i].trigger = "MANUAL"
  BY <1>2, <1>3
<1> QED
  BY <1>3, <1>4, <1>5 DEF KeepsAllAfter

LEMMA FireRows ==
    ASSUME TypeOK, Pruned(rows')
    PROVE  /\ rows' \in Seq(Row)
           /\ \E n \in Nat : KeepsAllAfter(n)
<1>1. PICK n \in Nat :
         /\ ExpiredUpTo(n)
         /\ rows' \in Seq(Row)
         /\ Len(rows') = Len(rows) - n
         /\ \A i \in 1 .. Len(rows') : rows'[i] = rows[i + n]
  BY PrunedDropsPrefix DEF TypeOK
<1>2. Len(rows) \in Nat /\ Len(rows') \in Nat /\ DOMAIN rows' = 1 .. Len(rows')
  BY <1>1 DEF TypeOK
<1> QED
  BY <1>1, <1>2 DEF KeepsAllAfter

LEMMA TypeInit == Init => TypeOK
<1> SUFFICES ASSUME Init PROVE TypeOK
  OBVIOUS
<1>1. rows \in Seq(Row)
  BY DEF Init
<1>2. worker \in [Replica -> Job]
  BY IdleIsJob DEF Init
<1>3. manual \in [Admin -> ManualRun]
  BY DEF Init, ManualRun
<1> QED
  BY <1>1, <1>2, <1>3 DEF Init, TypeOK

LEMMA TypeStep == TypeOK /\ [Next]_vars => TypeOK'
<1> SUFFICES ASSUME TypeOK, [Next]_vars PROVE TypeOK'
  OBVIOUS
<1> USE DEF Phase
<1>1. ASSUME NEW k \in Replica, Fire(k) PROVE TypeOK'
  <2>1. worker' \in [Replica -> Job]
    BY <1>1, GotoType DEF Fire
  <2>2. rows' \in Seq(Row)
    BY <1>1, FireRows DEF Fire
  <2> QED
    BY <1>1, <2>1, <2>2 DEF Fire, TypeOK
<1>2. ASSUME NEW k \in Replica, Claim(k) PROVE TypeOK'
  <2>1. Goto(k, "idle") \/ Goto(k, "claimed")
    BY <1>2 DEF Claim
  <2>2. worker' \in [Replica -> Job]
    BY <2>1, GotoType
  <2> QED
    BY <1>2, <2>2 DEF Claim, TypeOK
<1>3. ASSUME NEW k \in Replica, ReadBaseline(k) PROVE TypeOK'
  <2>1. \A i \in DOMAIN rows : rows[i].results \in SUBSET Violation
    <3>1. \A i \in DOMAIN rows : rows[i] \in Row
      BY DEF TypeOK
    <3> QED
      BY <3>1 DEF Row
  <2>2. PICK known \in SUBSET Violation :
           worker' = [worker EXCEPT ![k].phase = "based", ![k].previous = known]
    BY <1>3, <2>1 DEF ReadBaseline
  <2>3. worker[k] \in Job
    BY DEF TypeOK
  <2>4. [worker[k] EXCEPT !.phase = "based", !.previous = known] \in Job
    BY <2>3 DEF Job
  <2>5. worker' = [worker EXCEPT ![k] = [worker[k] EXCEPT !.phase = "based", !.previous = known]]
    BY <2>2 DEF TypeOK
  <2>6. worker' \in [Replica -> Job]
    BY <2>4, <2>5 DEF TypeOK
  <2> QED
    BY <1>3, <2>6 DEF ReadBaseline, TypeOK
<1>4. ASSUME NEW k \in Replica, Check(k) PROVE TypeOK'
  <2>1. worker[k] \in Job
    BY DEF TypeOK
  <2>2. [worker[k] EXCEPT !.phase = "reported", !.report = broken] \in Job
    BY <2>1 DEF Job, TypeOK
  <2>3. worker' \in [Replica -> Job]
    BY <1>4, <2>2 DEF Check, TypeOK
  <2> QED
    BY <1>4, <2>3 DEF Check, TypeOK
<1>5. ASSUME NEW k \in Replica, CheckFails(k) PROVE TypeOK'
  BY <1>5, IdleType, FailureType DEF CheckFails, TypeOK
<1>6. ASSUME NEW k \in Replica, Complete(k) PROVE TypeOK'
  <2>1. worker' \in [Replica -> Job]
    BY <1>6, GotoType, IdleType DEF Complete
  <2>2. rows' \in Seq(Row)
    BY <1>6, CompletedType DEF Complete
  <2> QED
    BY <1>6, <2>1, <2>2 DEF Complete, TypeOK
<1>7. ASSUME NEW k \in Replica, OpenTicket(k) PROVE TypeOK'
  <2>1. worker[k] \in Job
    BY DEF TypeOK
  <2>2. [worker[k] EXCEPT !.phase = "ticketed", !.error = TRUE] \in Job
    BY <2>1 DEF Job
  <2>3. worker' \in [Replica -> Job]
    BY <1>7, <2>2, GotoType DEF OpenTicket, TypeOK
  <2>4. Changed(worker[k]) \subseteq Violation
    BY <2>1 DEF Changed, Job
  <2> QED
    BY <1>7, <2>3, <2>4, FailureType DEF OpenTicket, TypeOK
<1>8. ASSUME NEW k \in Replica, SendEmail(k) PROVE TypeOK'
  <2>1. worker[k] \in Job
    BY DEF TypeOK
  <2>2. [worker[k] EXCEPT !.phase = "mailed", !.error = TRUE] \in Job
    BY <2>1 DEF Job
  <2>3. worker' \in [Replica -> Job]
    BY <1>8, <2>2, GotoType DEF SendEmail, TypeOK
  <2> QED
    BY <1>8, <2>3, FailureType DEF SendEmail, TypeOK
<1>9. ASSUME NEW k \in Replica, Settle(k) PROVE TypeOK'
  <2>1. rows' \in Seq(Row)
    BY <1>9, SettleRows DEF Settle
  <2> QED
    BY <1>9, <2>1, IdleType DEF Settle, TypeOK
<1>10. ASSUME NEW k \in Replica, Crash(k) PROVE TypeOK'
  BY <1>10, IdleType, FailureType DEF Crash, TypeOK
<1>11. ASSUME NEW a \in Admin, StartByHand(a) \/ RunByHand(a) PROVE TypeOK'
  <2>1. manual[a] \in ManualRun /\ broken \in SUBSET Violation
    BY DEF TypeOK
  <2>2. /\ [manual[a] EXCEPT !.phase = "running"] \in ManualRun
        /\ [manual[a] EXCEPT !.phase = "checked", !.report = broken] \in ManualRun
        /\ [phase |-> "over", report |-> {}] \in ManualRun
    BY <2>1 DEF ManualRun
  <2>3. CASE StartByHand(a)
    BY <2>2, <2>3, FireRows DEF StartByHand, TypeOK
  <2>4. CASE CheckByHand(a)
    BY <2>2, <2>4 DEF CheckByHand, TypeOK
  <2>5. CASE FailByHand(a)
    BY <2>2, <2>5 DEF FailByHand, TypeOK
  <2>6. CASE StoreByHand(a)
    BY <2>2, <2>6, StoreByHandRows DEF StoreByHand, TypeOK
  <2> QED
    BY <1>11, <2>3, <2>4, <2>5, <2>6 DEF RunByHand
<1>12. ASSUME NEW v \in Violation, Change(v) PROVE TypeOK'
  BY <1>12 DEF Change, TypeOK
<1>13. CASE DayPasses
  BY <1>13, DayPassesRows DEF DayPasses, TypeOK
<1>14. CASE UNCHANGED vars
  BY <1>14 DEF vars, TypeOK
<1> QED
  BY <1>1, <1>2, <1>3, <1>4, <1>5, <1>6, <1>7, <1>8, <1>9, <1>10, <1>11, <1>12, <1>13, <1>14
  DEF Next, RunTenant

\* Every variable keeps its type, whatever the replicas, the deliveries and
\* the admins do (the actions of invariant-runner.service.ts and its job).
THEOREM TypeCorrect == Spec => []TypeOK
BY TypeInit, TypeStep, PTL DEF Spec

-----------------------------------------------------------------------------
(* The invariant *)

\* Every run of rows that the job can look up is still there, as it was.
RunsKept ==
    /\ \A i \in DOMAIN rows : TodaysRun(i) =>
          \E j \in DOMAIN rows' : TodaysRun(j)' /\ rows'[j] = rows[i]
    /\ \A j \in DOMAIN rows' : Baseline(j)' =>
          \E i \in DOMAIN rows : Baseline(i) /\ rows[i] = rows'[j]

LEMMA SameRunsKept == UNCHANGED rows => RunsKept
BY DEF RunsKept, TodaysRun, Baseline, Alerted

\* Nothing happens to the day but that jobs start, lose or die.
LEMMA DayStands ==
    ASSUME Inv, TypeOK', UNCHANGED <<claimed, told, tickets>>, RunsKept,
           \A l \in Replica : worker'[l] = worker[l] \/ worker'[l].phase \in {"idle", "started"}
    PROVE  Inv'
<1>1. DayHeldOnce'
  BY DEF Inv, DayHeldOnce, Holding
<1>2. TicketFollowsClaim'
  BY DEF Inv, TicketFollowsClaim
<1>3. ASSUME NEW l \in Replica PROVE JobInv(l)'
  <2>1. CASE worker'[l].phase \in {"idle", "started"}
    BY <2>1 DEF JobInv, ComparesWithTold, ReportIsTold, SettlesOwnRow
  <2>2. CASE worker'[l] = worker[l]
    <3>1. JobInv(l)
      BY DEF Inv
    <3>2. ComparesWithTold(l)' /\ ReportIsTold(l)'
      BY <2>2, <3>1 DEF JobInv, ComparesWithTold, ReportIsTold
    <3>3. SettlesOwnRow(l)'
      <4> SUFFICES ASSUME worker'[l].phase \in {"completed", "ticketed", "mailed"}
                   PROVE  (\E j \in DOMAIN rows : StoredAt(l, j))'
        BY DEF SettlesOwnRow
      <4>1. PICK i \in DOMAIN rows : StoredAt(l, i)
        BY <2>2, <3>1 DEF JobInv, SettlesOwnRow
      <4>2. PICK j \in DOMAIN rows' : TodaysRun(j)' /\ rows'[j] = rows[i]
        BY <4>1 DEF RunsKept, StoredAt
      <4>3. StoredAt(l, j)'
        BY <4>1, <4>2, <2>2 DEF StoredAt
      <4> QED
        BY <4>3
    <3> QED
      BY <3>2, <3>3 DEF JobInv
  <2> QED
    BY <2>1, <2>2
<1>4. BaselineWasTold'
  BY DEF Inv, BaselineWasTold, RunsKept
<1> QED
  BY <1>1, <1>2, <1>3, <1>4 DEF Inv

\* While one replica holds the day nothing else can matter to it.
LEMMA HoldsAlone ==
    ASSUME Inv, NEW k \in Replica, worker[k].phase \in Holding, UNCHANGED claimed,
           \A l \in Replica : l # k => worker'[l] = worker[l]
    PROVE  /\ DayHeldOnce'
           /\ \A l \in Replica : l # k => JobInv(l)' /\ worker'[l].phase \notin Holding
<1>1. claimed /\ \A l \in Replica : l # k => worker[l].phase \notin Holding
  BY DEF Inv, DayHeldOnce
<1>2. \A l \in Replica : l # k => worker'[l].phase \notin Holding
  BY <1>1
<1>3. \A l \in Replica : l # k => JobInv(l)'
  BY <1>2 DEF JobInv, ComparesWithTold, ReportIsTold, SettlesOwnRow, Holding
<1>4. DayHeldOnce'
  BY <1>1, <1>2 DEF DayHeldOnce
<1> QED
  BY <1>2, <1>3, <1>4

\* The row a job finds is the one it stored: the day has no other.
LEMMA TodaysRunIsOwn ==
    ASSUME TypeOK, NEW k \in Replica, SettlesOwnRow(k),
           worker[k].phase \in {"completed", "ticketed", "mailed"},
           NEW i \in DOMAIN rows, TodaysRun(i)
    PROVE  StoredAt(k, i)
<1>1. PICK j \in DOMAIN rows : StoredAt(k, j)
  BY DEF SettlesOwnRow
<1>2. i <= j /\ j <= i /\ i \in Int /\ j \in Int
  BY <1>1 DEF TodaysRun, StoredAt, TypeOK
<1> QED
  BY <1>1, <1>2

LEMMA FireInv == \A k \in Replica : Inv /\ TypeOK' /\ Fire(k) => Inv'
<1> SUFFICES ASSUME NEW k \in Replica, Inv, TypeOK', Fire(k) PROVE Inv'
  OBVIOUS
<1>1. TypeOK
  BY DEF Inv
<1>2. RunsKept
  BY <1>1, FireRows, RunsStay DEF Fire, RunsKept
<1>3. \A l \in Replica : worker'[l] = worker[l] \/ worker'[l].phase \in {"idle", "started"}
  BY <1>1 DEF Fire, Goto, TypeOK, Job
<1> QED
  BY <1>2, <1>3, DayStands DEF Fire

LEMMA ByHandInv ==
    \A a \in Admin : Inv /\ TypeOK' /\ (StartByHand(a) \/ RunByHand(a)) => Inv'
<1> SUFFICES ASSUME NEW a \in Admin, Inv, TypeOK', StartByHand(a) \/ RunByHand(a) PROVE Inv'
  OBVIOUS
<1>1. TypeOK
  BY DEF Inv
<1>2. CASE StartByHand(a)
  <2>1. RunsKept
    BY <1>1, <1>2, FireRows, RunsStay DEF StartByHand, RunsKept
  <2> QED
    BY <1>2, <2>1, DayStands DEF StartByHand
<1>3. CASE StoreByHand(a)
  <2>1. RunsKept
    BY <1>1, <1>3, StoreByHandRows, RunsStay DEF RunsKept
  <2> QED
    BY <1>3, <2>1, DayStands DEF StoreByHand
<1>4. CASE CheckByHand(a) \/ FailByHand(a)
  BY <1>4, SameRunsKept, DayStands DEF CheckByHand, FailByHand
<1> QED
  BY <1>2, <1>3, <1>4 DEF RunByHand

\* A job that dies leaves the day as it is: claimed, told or not.
LEMMA DeathInv ==
    \A k \in Replica : Inv /\ TypeOK' /\ (CheckFails(k) \/ Crash(k)) => Inv'
<1> SUFFICES ASSUME NEW k \in Replica, Inv, TypeOK', CheckFails(k) \/ Crash(k) PROVE Inv'
  OBVIOUS
<1>1. \A l \in Replica : worker'[l] = worker[l] \/ worker'[l].phase \in {"idle", "started"}
  BY DEF CheckFails, Crash, Inv, TypeOK, Idle
<1> QED
  BY <1>1, SameRunsKept, DayStands DEF CheckFails, Crash

LEMMA ClaimInv == \A k \in Replica : Inv /\ TypeOK' /\ Claim(k) => Inv'
<1> SUFFICES ASSUME NEW k \in Replica, Inv, TypeOK', Claim(k) PROVE Inv'
  OBVIOUS
<1>1. worker[k] \in Job
  BY DEF Inv, TypeOK
<1>2. CASE claimed
  <2>1. \A l \in Replica : worker'[l] = worker[l] \/ worker'[l].phase \in {"idle", "started"}
    BY <1>1, <1>2 DEF Claim, Goto, Inv, TypeOK, Job
  <2> QED
    BY <1>2, <2>1, SameRunsKept, DayStands DEF Claim
<1>3. CASE ~claimed
  <2>1. /\ worker'[k].phase = "claimed"
        /\ \A l \in Replica : l # k => worker'[l] = worker[l]
    BY <1>1, <1>3 DEF Claim, Goto, Inv, TypeOK, Job
  <2>2. \A l \in Replica : worker[l].phase \notin Holding
    BY <1>3 DEF Inv, DayHeldOnce
  <2>3. DayHeldOnce'
    BY <2>1, <2>2 DEF Claim, DayHeldOnce
  <2>4. TicketFollowsClaim'
    BY <1>3, <2>1 DEF Claim, Inv, TicketFollowsClaim
  <2>5. \A l \in Replica : JobInv(l)'
    BY <2>1, <2>2 DEF JobInv, ComparesWithTold, ReportIsTold, SettlesOwnRow, Holding
  <2>6. BaselineWasTold'
    BY SameRunsKept DEF Claim, Inv, BaselineWasTold, RunsKept
  <2> QED
    BY <2>3, <2>4, <2>5, <2>6 DEF Inv
<1> QED
  BY <1>2, <1>3

LEMMA ReadBaselineInv == \A k \in Replica : Inv /\ TypeOK' /\ ReadBaseline(k) => Inv'
<1> SUFFICES ASSUME NEW k \in Replica, Inv, TypeOK', ReadBaseline(k) PROVE Inv'
  OBVIOUS
<1>1. worker[k] \in Job /\ worker[k].phase = "claimed"
  BY DEF Inv, TypeOK, ReadBaseline
<1>2. \A l \in Replica : l # k => worker'[l] = worker[l]
  BY DEF ReadBaseline, Inv, TypeOK
<1>3. DayHeldOnce' /\ \A l \in Replica : l # k => JobInv(l)' /\ worker'[l].phase \notin Holding
  BY <1>1, <1>2, HoldsAlone DEF ReadBaseline, Holding
<1>4. worker'[k].phase = "based" /\ worker'[k].previous \subseteq told
  <2>1. CASE \E i \in DOMAIN rows :
                /\ Baseline(i)
                /\ worker' = [worker EXCEPT ![k].phase = "based", ![k].previous = rows[i].results]
    BY <1>1, <2>1 DEF Inv, TypeOK, BaselineWasTold, Job
  <2>2. CASE worker' = [worker EXCEPT ![k].phase = "based", ![k].previous = {}]
    BY <1>1, <2>2 DEF Inv, TypeOK, Job
  <2> QED
    BY <2>1, <2>2 DEF ReadBaseline
<1>5. JobInv(k)'
  BY <1>4 DEF ReadBaseline, JobInv, ComparesWithTold, ReportIsTold, SettlesOwnRow
<1>6. TicketFollowsClaim'
  BY <1>1, <1>2, <1>4 DEF ReadBaseline, Inv, TicketFollowsClaim
<1>7. BaselineWasTold'
  BY SameRunsKept DEF ReadBaseline, Inv, BaselineWasTold, RunsKept
<1> QED
  BY <1>3, <1>5, <1>6, <1>7 DEF Inv

LEMMA CheckInv == \A k \in Replica : Inv /\ TypeOK' /\ Check(k) => Inv'
<1> SUFFICES ASSUME NEW k \in Replica, Inv, TypeOK', Check(k) PROVE Inv'
  OBVIOUS
<1>1. worker[k] \in Job /\ worker[k].phase = "based" /\ JobInv(k)
  BY DEF Inv, TypeOK, Check
<1>2. /\ worker'[k].phase = "reported" /\ worker'[k].previous = worker[k].previous
      /\ \A l \in Replica : l # k => worker'[l] = worker[l]
  BY <1>1 DEF Check, Inv, TypeOK, Job
<1>3. DayHeldOnce' /\ \A l \in Replica : l # k => JobInv(l)' /\ worker'[l].phase \notin Holding
  BY <1>1, <1>2, HoldsAlone DEF Check, Holding
<1>4. JobInv(k)'
  BY <1>1, <1>2 DEF Check, JobInv, ComparesWithTold, ReportIsTold, SettlesOwnRow
<1>5. TicketFollowsClaim'
  BY <1>1, <1>2 DEF Check, Inv, TicketFollowsClaim
<1>6. BaselineWasTold'
  BY SameRunsKept DEF Check, Inv, BaselineWasTold, RunsKept
<1> QED
  BY <1>3, <1>4, <1>5, <1>6 DEF Inv

\* The new row is the last one, and the day's.
LEMMA CompletedRun ==
    ASSUME TypeOK, NEW k \in Replica, NEW e \in {"null", "pending"},
           rows' = Completed(worker[k], e)
    PROVE  \E n \in DOMAIN rows' :
              /\ TodaysRun(n)' /\ rows'[n].results = worker[k].report /\ rows'[n].alertError = e
              /\ \A i \in DOMAIN rows' : i # n => i \in DOMAIN rows /\ rows'[i] = rows[i]
              /\ \A i \in DOMAIN rows : i \in DOMAIN rows' /\ rows'[i] = rows[i] /\ i < n
<1> DEFINE row == [age |-> 0, trigger |-> "SCHEDULED", results |-> worker[k].report,
                   alertError |-> e]
<1>1. row \in Row
  BY RetentionAssumption DEF Row, TypeOK, Job
<1>2. rows \in Seq(Row) /\ rows' = Append(rows, row)
  BY DEF Completed, TypeOK
<1>3. row.age = 0 /\ row.trigger = "SCHEDULED" /\ row.results = worker[k].report /\ row.alertError = e
  OBVIOUS
<1> HIDE DEF row
<1>4. /\ Len(rows) \in Nat
      /\ DOMAIN rows' = 1 .. Len(rows) + 1
      /\ \A i \in 1 .. Len(rows) : rows'[i] = rows[i]
      /\ rows'[Len(rows) + 1] = row
  BY <1>1, <1>2, AppendFacts
<1>5. DOMAIN rows = 1 .. Len(rows)
  BY <1>2
<1>6. PICK n \in DOMAIN rows' : n = Len(rows) + 1
  BY <1>4
<1>7. rows'[n] = row /\ \A i \in DOMAIN rows' : i <= n
  BY <1>4, <1>6
<1>8. TodaysRun(n)'
  BY <1>3, <1>7 DEF TodaysRun
<1>9. /\ \A i \in DOMAIN rows' : i # n => i \in DOMAIN rows /\ rows'[i] = rows[i]
      /\ \A i \in DOMAIN rows : i \in DOMAIN rows' /\ rows'[i] = rows[i] /\ i < n
  BY <1>4, <1>5, <1>6
<1> QED
  BY <1>3, <1>7, <1>8, <1>9

LEMMA CompleteInv == \A k \in Replica : Inv /\ TypeOK' /\ Complete(k) => Inv'
<1> SUFFICES ASSUME NEW k \in Replica, Inv, TypeOK', Complete(k) PROVE Inv'
  OBVIOUS
<1>1. TypeOK /\ worker[k] \in Job /\ worker[k].phase = "reported" /\ JobInv(k)
  BY DEF Inv, TypeOK, Complete
<1>2. worker[k].previous \subseteq told
  BY <1>1 DEF JobInv, ComparesWithTold
<1>3. \A l \in Replica : l # k => worker'[l] = worker[l]
  BY DEF Complete, Goto, Inv, TypeOK
<1>4. DayHeldOnce' /\ \A l \in Replica : l # k => JobInv(l)' /\ worker'[l].phase \notin Holding
  BY <1>1, <1>3, HoldsAlone DEF Complete, Holding
<1>5. CASE /\ Changed(worker[k]) = {}
           /\ rows' = Completed(worker[k], "null")
           /\ told' = told \cap worker[k].report
           /\ worker' = [worker EXCEPT ![k] = Idle]
  <2>1. worker'[k].phase = "idle"
    BY <1>1, <1>5 DEF TypeOK, Idle
  <2>2. JobInv(k)'
    BY <2>1 DEF JobInv, ComparesWithTold, ReportIsTold, SettlesOwnRow
  <2>3. TicketFollowsClaim'
    BY <1>3, <2>1 DEF Complete, Inv, TicketFollowsClaim
  <2>4. PICK n \in DOMAIN rows' :
           /\ TodaysRun(n)' /\ rows'[n].results = worker[k].report
           /\ rows'[n].alertError = "null"
           /\ \A i \in DOMAIN rows : i \in DOMAIN rows' /\ rows'[i] = rows[i] /\ i < n
           /\ \A i \in DOMAIN rows' : i # n => i \in DOMAIN rows /\ rows'[i] = rows[i]
    BY <1>1, <1>5, CompletedRun
  <2>5. n \in Int /\ DOMAIN rows' \subseteq Int
    BY DEF TypeOK
  <2>6. \A i \in DOMAIN rows' : Baseline(i)' => i = n
    BY <2>4, <2>5 DEF Baseline, Alerted, TodaysRun
  <2>7. worker[k].report \subseteq told'
    BY <1>2, <1>5 DEF Changed
  <2>8. BaselineWasTold'
    BY <2>4, <2>6, <2>7 DEF BaselineWasTold
  <2> QED
    BY <1>4, <2>2, <2>3, <2>8 DEF Inv
<1>6. CASE /\ rows' = Completed(worker[k], "pending")
           /\ told' = told
           /\ Goto(k, "completed")
  <2>1. /\ worker'[k].phase = "completed"
        /\ worker'[k].previous = worker[k].previous /\ worker'[k].report = worker[k].report
    BY <1>1, <1>6 DEF Goto, TypeOK, Job
  <2>2. PICK n \in DOMAIN rows' :
           /\ TodaysRun(n)' /\ rows'[n].results = worker[k].report
           /\ rows'[n].alertError = "pending"
           /\ \A i \in DOMAIN rows : i \in DOMAIN rows' /\ rows'[i] = rows[i] /\ i < n
           /\ \A i \in DOMAIN rows' : i # n => i \in DOMAIN rows /\ rows'[i] = rows[i]
    BY <1>1, <1>6, CompletedRun
  <2>3. StoredAt(k, n)'
    BY <2>1, <2>2 DEF StoredAt
  <2>4. JobInv(k)'
    BY <1>2, <1>6, <2>1, <2>3 DEF JobInv, ComparesWithTold, ReportIsTold, SettlesOwnRow
  <2>5. TicketFollowsClaim'
    BY <1>1, <1>3, <2>1 DEF Complete, Inv, TicketFollowsClaim
  <2>6. \A i \in DOMAIN rows' : Baseline(i)' => Baseline(i) /\ rows'[i] = rows[i] /\ i \in DOMAIN rows
    BY <2>2 DEF Baseline, Alerted
  <2>7. BaselineWasTold'
    BY <1>6, <2>6 DEF Inv, BaselineWasTold
  <2> QED
    BY <1>4, <2>4, <2>5, <2>7 DEF Inv
<1> QED
  BY <1>5, <1>6 DEF Complete

LEMMA OpenTicketInv == \A k \in Replica : Inv /\ TypeOK' /\ OpenTicket(k) => Inv'
<1> SUFFICES ASSUME NEW k \in Replica, Inv, TypeOK', OpenTicket(k) PROVE Inv'
  OBVIOUS
<1>1. TypeOK /\ worker[k] \in Job /\ worker[k].phase = "completed" /\ JobInv(k) /\ tickets = 0
  BY DEF Inv, TypeOK, OpenTicket, TicketFollowsClaim
<1>2. worker[k].previous \subseteq told /\ told \subseteq told'
  BY <1>1 DEF JobInv, ComparesWithTold, OpenTicket
<1>3. /\ worker'[k].phase = "ticketed" /\ worker'[k].report = worker[k].report
      /\ \A l \in Replica : l # k => worker'[l] = worker[l]
  BY <1>1 DEF OpenTicket, Goto, TypeOK, Job
<1>4. DayHeldOnce' /\ \A l \in Replica : l # k => JobInv(l)' /\ worker'[l].phase \notin Holding
  BY <1>1, <1>3, HoldsAlone DEF OpenTicket, Holding
<1>5. ~worker'[k].error => worker'[k].report \subseteq told'
  <2>1. CASE told' = told \cup Changed(worker[k])
    BY <2>1, <1>2, <1>3 DEF Changed
  <2>2. CASE worker' = [worker EXCEPT ![k].phase = "ticketed", ![k].error = TRUE]
    BY <2>2, <1>1 DEF TypeOK, Job
  <2> QED
    BY <2>1, <2>2 DEF OpenTicket
<1>6. SettlesOwnRow(k)'
  BY <1>1, <1>3 DEF OpenTicket, JobInv, SettlesOwnRow, StoredAt, TodaysRun
<1>7. JobInv(k)'
  BY <1>3, <1>5, <1>6 DEF JobInv, ComparesWithTold, ReportIsTold
<1>8. tickets' \in {0, 1} /\ claimed'
  BY <1>1 DEF OpenTicket, Inv, DayHeldOnce, Holding
<1>9. TicketFollowsClaim'
  BY <1>3, <1>4, <1>8 DEF TicketFollowsClaim, Holding
<1>10. BaselineWasTold'
  BY <1>2, SameRunsKept DEF OpenTicket, Inv, BaselineWasTold, RunsKept
<1> QED
  BY <1>4, <1>7, <1>9, <1>10 DEF Inv

LEMMA SendEmailInv == \A k \in Replica : Inv /\ TypeOK' /\ SendEmail(k) => Inv'
<1> SUFFICES ASSUME NEW k \in Replica, Inv, TypeOK', SendEmail(k) PROVE Inv'
  OBVIOUS
<1>1. TypeOK /\ worker[k] \in Job /\ worker[k].phase = "ticketed" /\ JobInv(k)
  BY DEF Inv, TypeOK, SendEmail
<1>2. /\ worker'[k].phase = "mailed" /\ worker'[k].report = worker[k].report
      /\ worker'[k].error = worker[k].error \/ worker'[k].error
      /\ \A l \in Replica : l # k => worker'[l] = worker[l]
  BY <1>1 DEF SendEmail, Goto, TypeOK, Job
<1>3. DayHeldOnce' /\ \A l \in Replica : l # k => JobInv(l)' /\ worker'[l].phase \notin Holding
  BY <1>1, <1>2, HoldsAlone DEF SendEmail, Holding
<1>4. SettlesOwnRow(k)'
  BY <1>1, <1>2 DEF SendEmail, JobInv, SettlesOwnRow, StoredAt, TodaysRun
<1>5. ~worker'[k].error => worker'[k].report \subseteq told'
  BY <1>1, <1>2 DEF SendEmail, JobInv, ReportIsTold
<1>6. JobInv(k)'
  BY <1>2, <1>4, <1>5 DEF JobInv, ComparesWithTold, ReportIsTold
<1>7. TicketFollowsClaim'
  BY <1>2 DEF SendEmail, Inv, TicketFollowsClaim
<1>8. BaselineWasTold'
  BY SameRunsKept DEF SendEmail, Inv, BaselineWasTold, RunsKept
<1> QED
  BY <1>3, <1>6, <1>7, <1>8 DEF Inv

\* An alert that failed leaves the earlier baseline; one that went through
\* is the new one, and what it stores is told.
LEMMA SettleInv == \A k \in Replica : Inv /\ TypeOK' /\ Settle(k) => Inv'
<1> SUFFICES ASSUME NEW k \in Replica, Inv, TypeOK', Settle(k) PROVE Inv'
  OBVIOUS
<1>1. TypeOK /\ worker[k] \in Job /\ worker[k].phase = "mailed" /\ JobInv(k)
  BY DEF Inv, TypeOK, Settle
<1>2. worker'[k].phase = "idle" /\ \A l \in Replica : l # k => worker'[l] = worker[l]
  BY <1>1 DEF Settle, TypeOK, Idle
<1>3. DayHeldOnce' /\ \A l \in Replica : l # k => JobInv(l)' /\ worker'[l].phase \notin Holding
  BY <1>1, <1>2, HoldsAlone DEF Settle, Holding
<1>4. JobInv(k)'
  BY <1>2 DEF JobInv, ComparesWithTold, ReportIsTold, SettlesOwnRow
<1>5. TicketFollowsClaim'
  BY <1>2 DEF Settle, Inv, TicketFollowsClaim
<1>6. BaselineWasTold'
  <2>1. PICK i \in DOMAIN rows :
           /\ TodaysRun(i)
           /\ \/ /\ worker[k].error
                 /\ rows' = [rows EXCEPT ![i].alertError = "failed"]
                 /\ told' = told
              \/ /\ ~worker[k].error
                 /\ rows' = [rows EXCEPT ![i].alertError = "null"]
                 /\ told' = told \cap worker[k].report
    BY DEF Settle
  <2>2. StoredAt(k, i)
    BY <1>1, <2>1, TodaysRunIsOwn DEF JobInv
  <2>3. rows[i] \in Row /\ i \in Int /\ DOMAIN rows \subseteq Int
    BY <1>1 DEF TypeOK
  <2>4. CASE /\ worker[k].error
             /\ rows' = [rows EXCEPT ![i].alertError = "failed"]
             /\ told' = told
    <3>1. /\ DOMAIN rows' = DOMAIN rows
          /\ \A j \in DOMAIN rows : j # i => rows'[j] = rows[j]
          /\ rows'[i] = [rows[i] EXCEPT !.alertError = "failed"]
      BY <1>1, <2>4, SettleRows
    <3>2. ~Alerted(i) /\ ~Alerted(i)'
      BY <2>2, <2>3, <3>1 DEF Alerted, StoredAt, Row
    <3>3. ASSUME NEW j \in DOMAIN rows', Baseline(j)' PROVE Baseline(j) /\ rows'[j] = rows[j]
      BY <3>1, <3>2, <3>3 DEF Baseline, Alerted
    <3> QED
      BY <2>4, <3>1, <3>3 DEF Inv, BaselineWasTold
  <2>5. CASE /\ ~worker[k].error
             /\ rows' = [rows EXCEPT ![i].alertError = "null"]
             /\ told' = told \cap worker[k].report
    <3>1. /\ DOMAIN rows' = DOMAIN rows
          /\ \A j \in DOMAIN rows : j # i => rows'[j] = rows[j]
          /\ rows'[i] = [rows[i] EXCEPT !.alertError = "null"]
      BY <1>1, <2>5, SettleRows
    <3>2. Alerted(i)' /\ rows'[i].results = worker[k].report
      BY <2>1, <2>2, <2>3, <3>1 DEF Alerted, TodaysRun, StoredAt, Row
    <3>3. worker[k].report \subseteq told'
      BY <1>1, <2>5 DEF JobInv, ReportIsTold
    <3>4. ASSUME NEW j \in DOMAIN rows', Baseline(j)' PROVE j = i
      <4>1. i <= j
        BY <3>1, <3>2, <3>4 DEF Baseline
      <4>2. j # i => rows[j].trigger = "SCHEDULED"
        BY <3>1, <3>4 DEF Baseline, Alerted
      <4>3. j # i => j <= i
        BY <2>1, <3>1, <4>2 DEF TodaysRun
      <4> QED
        BY <2>3, <3>1, <4>1, <4>3
    <3> QED
      BY <3>2, <3>3, <3>4 DEF BaselineWasTold
  <2> QED
    BY <2>1, <2>4, <2>5
<1> QED
  BY <1>3, <1>4, <1>5, <1>6 DEF Inv

LEMMA DayPassesInv == Inv /\ TypeOK' /\ DayPasses => Inv'
<1> SUFFICES ASSUME Inv, TypeOK', DayPasses PROVE Inv'
  OBVIOUS
<1>1. TypeOK /\ \A k \in Replica : worker'[k].phase = "idle"
  BY DEF Inv, DayPasses, DayIsOver
<1>2. DayHeldOnce' /\ TicketFollowsClaim' /\ \A k \in Replica : JobInv(k)'
  BY <1>1 DEF DayPasses, DayHeldOnce, Holding, TicketFollowsClaim, JobInv, ComparesWithTold,
     ReportIsTold, SettlesOwnRow
<1>3. DOMAIN rows' = DOMAIN rows /\ \A i \in DOMAIN rows : rows'[i] = Older(rows[i])
  BY <1>1, DayPassesRows
<1>4. \A i \in DOMAIN rows : rows[i] \in Row
  BY <1>1 DEF TypeOK
<1>5. \A i \in DOMAIN rows :
         /\ rows'[i].trigger = rows[i].trigger
         /\ rows'[i].alertError = rows[i].alertError
         /\ rows'[i].results = rows[i].results
  BY <1>3, <1>4 DEF Older, Row
<1>6. BaselineWasTold'
  BY <1>3, <1>5 DEF DayPasses, Inv, BaselineWasTold, Baseline, Alerted
<1> QED
  BY <1>2, <1>6 DEF Inv

LEMMA InvInit == Init => Inv
<1> SUFFICES ASSUME Init PROVE Inv
  OBVIOUS
<1>1. \A k \in Replica : worker[k].phase = "idle"
  BY DEF Init, Idle
<1> QED
  BY <1>1, TypeInit DEF Init, Inv, DayHeldOnce, Holding, TicketFollowsClaim, JobInv,
     ComparesWithTold, ReportIsTold, SettlesOwnRow, BaselineWasTold

LEMMA InvStep == Inv /\ [Next]_vars => Inv'
<1> SUFFICES ASSUME Inv, [Next]_vars PROVE Inv'
  OBVIOUS
<1>1. TypeOK'
  BY TypeStep DEF Inv
<1>2. ASSUME NEW k \in Replica, RunTenant(k) PROVE Inv'
  BY <1>1, <1>2, ClaimInv, ReadBaselineInv, CheckInv, DeathInv, CompleteInv, OpenTicketInv,
     SendEmailInv, SettleInv DEF RunTenant
<1>3. ASSUME NEW v \in Violation, Change(v) PROVE Inv'
  BY <1>1, <1>3, SameRunsKept, DayStands DEF Change
<1>4. CASE UNCHANGED vars
  BY <1>1, <1>4, SameRunsKept, DayStands DEF vars
<1> QED
  BY <1>1, <1>2, <1>3, <1>4, FireInv, DeathInv, ByHandInv, DayPassesInv DEF Next

LEMMA InvAlways == Spec => []Inv
BY InvInit, InvStep, PTL DEF Spec

\* What new findings are compared with is what the tenant has been told of:
\* no crash, failed delivery or run by hand between the statements of a job
\* silences the next one (alertBaseline, runTenant, writeAlertOutcome).
THEOREM BaselineToldAlways == Spec => []BaselineWasTold
<1>1. Inv => BaselineWasTold
  BY DEF Inv
<1> QED
  BY <1>1, InvAlways, PTL

\* However many replicas fire on a day and wherever they die, the tenant gets
\* one ticket for it at most (the unique index claimDay inserts under).
THEOREM OneTicketAlways == Spec => []OneTicketADay
<1>1. Inv => OneTicketADay
  BY DEF Inv, TicketFollowsClaim, OneTicketADay
<1> QED
  BY <1>1, InvAlways, PTL

\* A job that has stored its result finds that very row, still marked, when
\* it comes to write how the alert went, whatever was pruned, appended or
\* started in between: the id it kept is never stale.
THEOREM OwnRowAlways == Spec => [](\A k \in Replica : SettlesOwnRow(k))
<1>1. Inv => \A k \in Replica : SettlesOwnRow(k)
  BY DEF Inv, JobInv
<1> QED
  BY <1>1, InvAlways, PTL

=============================================================================
