----------------------------- MODULE MCDepartures -----------------------------
(***************************************************************************)
(* Instances of Departures for TLC: a tenant with a ride, another the      *)
(* night meets before or after it, and a calendar of two days seen through *)
(* a window of two.  Operators act for the second day: first while it is   *)
(* the newest of the window and not stored yet, then stored ahead, then as *)
(* the agency's own date.                                                  *)
(***************************************************************************)
EXTENDS Departures, TLC

CONSTANTS tA, tB, rA, early, late, p1, p2

MCTenant == {tA, tB}
MCRide == {rA}
MCTenantOf == rA :> tA

Row(active, lineActive, base, capacity, path) ==
    [active |-> active, lineActive |-> lineActive, base |-> base,
     capacity |-> capacity, path |-> path]

Runs2(t) == [d \in Date |-> IF d = 2 THEN t ELSE None]

\* The ride may move, be resized and rerouted, and stop with its line.
MCTimetables ==
    rA :> {Row(TRUE, TRUE, Runs2(early), 1, p1),
           Row(TRUE, TRUE, Runs2(late), 2, p2),
           Row(TRUE, FALSE, Runs2(early), 1, p1)}

NoExtras == [x \in ExtraId |-> None]
NoExceptions == [e \in ExceptionId |-> None]

Orphan ==
    [ride |-> rA, date |-> 2, time |-> late, capacity |-> 1, path |-> p1,
     dropped |-> TRUE, cancelled |-> FALSE, exception |-> None]

OldAdditional == [ride |-> rA, date |-> 2, type |-> "ADDITIONAL", time |-> early]

\* What may be stored from before decisions moved to departures: nothing; an
\* ADDITIONAL whose bus the old sync deleted; an orphan the timetable
\* dropped.
MCLegacy ==
    {[extra |-> NoExtras, exception |-> NoExceptions]}
    \cup {[extra |-> NoExtras, exception |-> [NoExceptions EXCEPT ![e] = OldAdditional]] :
            e \in ExceptionId}
    \cup {[extra |-> [NoExtras EXCEPT ![x] = Orphan],
           exception |-> NoExceptions] : x \in ExtraId}

Symmetry == Permutations(ExtraId) \cup Permutations(ExceptionId)

=============================================================================
