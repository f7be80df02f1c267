------------------------------ MODULE MCConsent ------------------------------
(***************************************************************************)
(* Instances of Consent for TLC: a ride whose bus may move, shrink or stop *)
(* running, and what may be booked on it.                                  *)
(***************************************************************************)
EXTENDS Consent, TLC

CONSTANTS o1, o2, a, b, c, early, late

Row(active, time, capacity) == [active |-> active, time |-> time, capacity |-> capacity]

\* The run that is, one at another time, the same with a smaller bus, and
\* none.
MCEdit == {Row(TRUE, early, 3), Row(TRUE, late, 3), Row(TRUE, late, 1), Row(FALSE, early, 3)}

Seated(linked, time, seat) == [linked |-> linked, time |-> time, seat |-> seat]

\* Two linked passengers; a linked one and one found by time; two found by
\* time who were sold one seat, which a third holds at the other time.
MCInitBooking ==
    LET Of(x, y, z) == [r \in Reservation |-> CASE r = a -> x [] r = b -> y [] r = c -> z]
    IN  {Of(Seated(TRUE, early, 2), Seated(TRUE, early, 3), None),
         Of(Seated(TRUE, early, 2), Seated(FALSE, early, 3), None),
         Of(Seated(FALSE, early, 2), Seated(FALSE, early, 2), Seated(FALSE, late, 2))}

=============================================================================
