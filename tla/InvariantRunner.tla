--------------------------- MODULE InvariantRunner ---------------------------
(***************************************************************************)
(* The daily integrity check of one tenant and the alert about what it     *)
(* newly found.                                                            *)
(*                                                                         *)
(* Every replica of the API fires the job once a day.  The one that        *)
(* inserts the day's row claims the day; it reads what the tenant was      *)
(* already told (the last run whose alert went through), runs the checks,  *)
(* stores the result, opens a ticket and sends an email about what is new, *)
(* and stores how that went.  Each of these is a statement of its own: the *)
(* process may die between any two, and each delivery may fail.  Rows      *)
(* older than the retention are deleted, and an admin may run the checks   *)
(* by hand, in statements of their own beside the job's, which tells       *)
(* nobody.                                                                 *)
(*                                                                         *)
(* A row carries its age in days instead of its date, so that days go on   *)
(* for ever.  The job of a day, and a run by hand begun on it, are over     *)
(* before the next day.                                                    *)
(***************************************************************************)
EXTENDS Integers, Sequences

CONSTANTS
    Replica,
    Violation,      \* identities: invariant, subject type and subject
    Retention,      \* INVARIANT_RUN_RETENTION_DAYS
    Admin,          \* bound: who runs the checks by hand, once each
    MaxFailures     \* bound: crashes, failed checks and failed deliveries

ASSUME RetentionAssumption == {Retention, MaxFailures} \subseteq Nat

VARIABLES
    broken,         \* what is wrong with the tenant's data now
    rows,           \* the COMPLETED runs, by completedAt
    claimed,        \* the day's scheduled row exists
    manual,         \* each admin's run by hand
    fired,          \* the replicas whose job has started today
    worker,         \* each replica's job
    told,           \* what the tenant knows of: alerted since it last went
                    \* away from the run new findings are compared with
    tickets,        \* tickets opened today
    failures

vars == <<broken, rows, claimed, manual, fired, worker, told, tickets, failures>>

Row ==
    [age: 0 .. Retention + 1,
     trigger: {"SCHEDULED", "MANUAL"},
     results: SUBSET Violation,
     alertError: {"null", "pending", "failed"}]

Phase == {"idle", "started", "claimed", "based", "reported", "completed", "ticketed", "mailed"}

Job ==
    [phase: Phase, previous: SUBSET Violation, report: SUBSET Violation, error: BOOLEAN]

ManualRun == [phase: {"none", "running", "checked", "over"}, report: SUBSET Violation]

TypeOK ==
    /\ broken \in SUBSET Violation
    /\ rows \in Seq(Row)
    /\ claimed \in BOOLEAN
    /\ manual \in [Admin -> ManualRun]
    /\ fired \in SUBSET Replica
    /\ worker \in [Replica -> Job]
    /\ told \in SUBSET Violation
    /\ tickets \in Nat
    /\ failures \in Nat

-----------------------------------------------------------------------------
(* The stored runs *)

\* Mutant of Alerted: whoever ran the checks.
AlertedByAnyRun(i) == rows[i].alertError = "null"

\* A run the tenant was told about in full.
Alerted(i) == rows[i].trigger = "SCHEDULED" /\ rows[i].alertError = "null"

\* The latest of them.
Baseline(i) ==
    /\ i \in DOMAIN rows /\ Alerted(i)
    /\ \A j \in DOMAIN rows : Alerted(j) => j <= i

\* The day's scheduled row: the last one stored for it.
TodaysRun(i) ==
    /\ i \in DOMAIN rows
    /\ rows[i].trigger = "SCHEDULED" /\ rows[i].age = 0
    /\ \A j \in DOMAIN rows : rows[j].trigger = "SCHEDULED" => j <= i

Expired(row) == row.age > Retention

\* pruneExpiredInvariantRuns: the rows are in the order they were made.
Pruned(kept) ==
    \E n \in 0 .. Len(rows) :
        /\ \A i \in DOMAIN rows : Expired(rows[i]) <=> i <= n
        /\ kept = SubSeq(rows, n + 1, Len(rows))

-----------------------------------------------------------------------------
(* The job *)

Idle == [phase |-> "idle", previous |-> {}, report |-> {}, error |-> FALSE]

Changed(job) == job.report \ job.previous

Failure == failures < MaxFailures /\ failures' = failures + 1

Goto(k, phase) == worker' = [worker EXCEPT ![k].phase = phase]

\* The cron fires, and what is past the retention goes first.
Fire(k) ==
    /\ k \notin fired
    /\ worker[k].phase = "idle"
    /\ fired' = fired \cup {k}
    /\ Pruned(rows')
    /\ Goto(k, "started")
    /\ UNCHANGED <<broken, claimed, manual, told, tickets, failures>>

\* Mutant of Claim: nothing keeps two replicas off one day.
ClaimUnindexed(k) ==
    /\ worker[k].phase = "started"
    /\ claimed' = TRUE
    /\ Goto(k, "claimed")
    /\ UNCHANGED <<broken, rows, manual, fired, told, tickets, failures>>

\* The insert under the unique index on tenant and date; who loses is done.
Claim(k) ==
    /\ worker[k].phase = "started"
    /\ claimed' = TRUE
    /\ Goto(k, IF claimed THEN "idle" ELSE "claimed")
    /\ UNCHANGED <<broken, rows, manual, fired, told, tickets, failures>>

\* alertBaseline.
ReadBaseline(k) ==
    /\ worker[k].phase = "claimed"
    /\ \/ \E i \in DOMAIN rows :
             /\ Baseline(i)
             /\ worker' = [worker EXCEPT ![k].phase = "based", ![k].previous = rows[i].results]
       \/ /\ ~\E i \in DOMAIN rows : Alerted(i)
          /\ worker' = [worker EXCEPT ![k].phase = "based", ![k].previous = {}]
    /\ UNCHANGED <<broken, rows, claimed, manual, fired, told, tickets, failures>>

\* checkAll.
Check(k) ==
    /\ worker[k].phase = "based"
    /\ worker' = [worker EXCEPT ![k].phase = "reported", ![k].report = broken]
    /\ UNCHANGED <<broken, rows, claimed, manual, fired, told, tickets, failures>>

\* A check throws: the row becomes FAILED, which nothing reads again.
CheckFails(k) ==
    /\ worker[k].phase = "based"
    /\ Failure
    /\ worker' = [worker EXCEPT ![k] = Idle]
    /\ UNCHANGED <<broken, rows, claimed, manual, fired, told, tickets>>

Completed(job, alertError) ==
    Append(rows, [age |-> 0, trigger |-> "SCHEDULED", results |-> job.report,
                  alertError |-> alertError])

\* Mutant of Complete: the result is stored without the sentinel.
CompleteUnmarked(k) ==
    /\ worker[k].phase = "reported"
    /\ rows' = Completed(worker[k], "null")
    /\ IF Changed(worker[k]) = {}
       THEN /\ told' = told \cap worker[k].report
            /\ worker' = [worker EXCEPT ![k] = Idle]
       ELSE /\ told' = told
            /\ Goto(k, "completed")
    /\ UNCHANGED <<broken, claimed, manual, fired, tickets, failures>>

\* The result is stored, with the sentinel when there is something to tell.
Complete(k) ==
    /\ worker[k].phase = "reported"
    /\ \/ /\ Changed(worker[k]) = {}
          /\ rows' = Completed(worker[k], "null")
          /\ told' = told \cap worker[k].report
          /\ worker' = [worker EXCEPT ![k] = Idle]
       \/ /\ Changed(worker[k]) # {}
          /\ rows' = Completed(worker[k], "pending")
          /\ told' = told
          /\ Goto(k, "completed")
    /\ UNCHANGED <<broken, claimed, manual, fired, tickets, failures>>

OpenTicket(k) ==
    /\ worker[k].phase = "completed"
    /\ \/ /\ told' = told \cup Changed(worker[k])
          /\ tickets' = tickets + 1
          /\ Goto(k, "ticketed")
          /\ UNCHANGED failures
       \/ /\ Failure
          /\ worker' = [worker EXCEPT ![k].phase = "ticketed", ![k].error = TRUE]
          /\ UNCHANGED <<told, tickets>>
    /\ UNCHANGED <<broken, rows, claimed, manual, fired>>

\* Sent, or skipped where there is no provider or no recipient; or it fails.
SendEmail(k) ==
    /\ worker[k].phase = "ticketed"
    /\ \/ Goto(k, "mailed") /\ UNCHANGED failures
       \/ /\ Failure
          /\ worker' = [worker EXCEPT ![k].phase = "mailed", ![k].error = TRUE]
    /\ UNCHANGED <<broken, rows, claimed, manual, fired, told, tickets>>

\* Mutant of Settle: the alert has been tried, so it counts.
SettleAnyway(k) ==
    /\ worker[k].phase = "mailed"
    /\ \E i \in DOMAIN rows : TodaysRun(i) /\ rows' = [rows EXCEPT ![i].alertError = "null"]
    /\ told' = told \cap worker[k].report
    /\ worker' = [worker EXCEPT ![k] = Idle]
    /\ UNCHANGED <<broken, claimed, manual, fired, tickets, failures>>

\* Mutant of Settle: the errors joined, of which there are none.
SettleJoined(k) ==
    /\ worker[k].phase = "mailed"
    /\ \E i \in DOMAIN rows :
          /\ TodaysRun(i)
          /\ rows' = [rows EXCEPT ![i].alertError = IF worker[k].error THEN "failed" ELSE ""]
    /\ told' = told
    /\ worker' = [worker EXCEPT ![k] = Idle]
    /\ UNCHANGED <<broken, claimed, manual, fired, tickets, failures>>

\* How the alert went: only one that went through clears the sentinel.
Settle(k) ==
    /\ worker[k].phase = "mailed"
    /\ \E i \in DOMAIN rows :
          /\ TodaysRun(i)
          /\ \/ /\ worker[k].error
                /\ rows' = [rows EXCEPT ![i].alertError = "failed"]
                /\ told' = told
             \/ /\ ~worker[k].error
                /\ rows' = [rows EXCEPT ![i].alertError = "null"]
                /\ told' = told \cap worker[k].report
    /\ worker' = [worker EXCEPT ![k] = Idle]
    /\ UNCHANGED <<broken, claimed, manual, fired, tickets, failures>>

\* The process dies, or a statement outside every try fails.
Crash(k) ==
    /\ worker[k].phase # "idle"
    /\ Failure
    /\ worker' = [worker EXCEPT ![k] = Idle]
    /\ UNCHANGED <<broken, rows, claimed, manual, fired, told, tickets>>

-----------------------------------------------------------------------------
(* The tenant *)

\* "Check everything" in the settings: what is past the retention goes, and
\* the row is RUNNING, which nothing reads.
StartByHand(a) ==
    /\ manual[a].phase = "none"
    /\ Pruned(rows')
    /\ manual' = [manual EXCEPT ![a].phase = "running"]
    /\ UNCHANGED <<broken, claimed, fired, worker, told, tickets, failures>>

\* checkAll.
CheckByHand(a) ==
    /\ manual[a].phase = "running"
    /\ manual' = [manual EXCEPT ![a].phase = "checked", ![a].report = broken]
    /\ UNCHANGED <<broken, rows, claimed, fired, worker, told, tickets, failures>>

\* A check throws and the row becomes FAILED, or the process dies and it stays
\* RUNNING.
FailByHand(a) ==
    /\ manual[a].phase \in {"running", "checked"}
    /\ manual' = [manual EXCEPT ![a] = [phase |-> "over", report |-> {}]]
    /\ UNCHANGED <<broken, rows, claimed, fired, worker, told, tickets, failures>>

\* The result is stored, and nobody is told.
StoreByHand(a) ==
    /\ manual[a].phase = "checked"
    /\ rows' = Append(rows, [age |-> 0, trigger |-> "MANUAL", results |-> manual[a].report,
                             alertError |-> "null"])
    /\ manual' = [manual EXCEPT ![a] = [phase |-> "over", report |-> {}]]
    /\ UNCHANGED <<broken, claimed, fired, worker, told, tickets, failures>>

\* Data goes wrong, or is repaired.
Change(v) ==
    /\ broken' = IF v \in broken THEN broken \ {v} ELSE broken \cup {v}
    /\ UNCHANGED <<rows, claimed, manual, fired, worker, told, tickets, failures>>

Older(row) == [row EXCEPT !.age = IF row.age > Retention THEN row.age ELSE row.age + 1]

\* Nothing begun on the day is under way.
DayIsOver ==
    /\ \A k \in Replica : worker[k].phase = "idle"
    /\ \A a \in Admin : manual[a].phase \in {"none", "over"}

\* Mutant of DayPasses: the claim is on the tenant alone.
DayPassesOnce ==
    /\ DayIsOver
    /\ rows' = [i \in DOMAIN rows |-> Older(rows[i])]
    /\ fired' = {} /\ tickets' = 0
    /\ UNCHANGED <<broken, claimed, manual, worker, told, failures>>

\* The clock of the job: utcDay, and the age of what is stored.
DayPasses ==
    /\ DayIsOver
    /\ rows' = [i \in DOMAIN rows |-> Older(rows[i])]
    /\ claimed' = FALSE /\ fired' = {} /\ tickets' = 0
    /\ UNCHANGED <<broken, manual, worker, told, failures>>

-----------------------------------------------------------------------------
(* Specification *)

Init ==
    /\ broken \in SUBSET Violation
    /\ rows = <<>>
    /\ claimed = FALSE
    /\ manual = [a \in Admin |-> [phase |-> "none", report |-> {}]]
    /\ fired = {}
    /\ worker = [k \in Replica |-> Idle]
    /\ told = {}
    /\ tickets = 0
    /\ failures = 0

RunTenant(k) ==
    \/ Claim(k) \/ ReadBaseline(k) \/ Check(k) \/ CheckFails(k) \/ Complete(k)
    \/ OpenTicket(k) \/ SendEmail(k) \/ Settle(k)

RunByHand(a) == CheckByHand(a) \/ FailByHand(a) \/ StoreByHand(a)

Next ==
    \/ \E k \in Replica : Fire(k) \/ RunTenant(k) \/ Crash(k)
    \/ \E a \in Admin : StartByHand(a) \/ RunByHand(a)
    \/ \E v \in Violation : Change(v)
    \/ DayPasses

Spec == Init /\ [][Next]_vars

\* Days pass, the cron fires, and a job or a run by hand that can go on does.
Fairness ==
    /\ WF_vars(DayPasses)
    /\ \A k \in Replica : WF_vars(Fire(k)) /\ WF_vars(RunTenant(k))
    /\ \A a \in Admin : WF_vars(RunByHand(a))

FairSpec == Spec /\ Fairness

-----------------------------------------------------------------------------
(* Properties *)

\* What new findings are compared with is what the tenant has been told of:
\* a run whose ticket or email failed, or that died before it could tell,
\* or that was run by hand, never silences the next one
\* (invariant-runner.service.ts:160).
BaselineWasTold == \A i \in DOMAIN rows : Baseline(i) => rows[i].results \subseteq told

\* At most one ticket a day, however many replicas fire and whatever
\* restarts.
OneTicketADay == tickets <= 1

\* What stays wrong is told, once deliveries stop failing.
StandingViolationIsTold == \A v \in Violation : v \in broken ~> v \in told \/ v \notin broken

=============================================================================
