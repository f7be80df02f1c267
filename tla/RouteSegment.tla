---------------------------- MODULE RouteSegment ----------------------------
(***************************************************************************)
(* The arithmetic of src/api/src/reservations/route-segment.ts: the part   *)
(* of a route one reservation occupies a seat for.  Whether a booking is   *)
(* accepted, whether a seat is double-sold and how full a bus is are all   *)
(* decided by these operators.                                             *)
(***************************************************************************)
EXTENDS Integers, Sequences

(* A segment is the half-open interval between two station orders. *)
Segment == [departureOrder : Nat, arrivalOrder : Nat]

(* The stations of a route, given as the sequence of its stops, termini included. *)
RouteStations(route) == {route[i] : i \in DOMAIN route}

(***************************************************************************)
(* Stations are numbered from 0 at the departure terminus.  The code fills *)
(* a Map stop by stop, so a station that occurs twice keeps its last       *)
(* number.                                                                 *)
(***************************************************************************)
RouteStationOrder(route) ==
  [s \in RouteStations(route) |->
     (CHOOSE i \in DOMAIN route :
        /\ route[i] = s
        /\ \A j \in DOMAIN route : route[j] = s => j <= i) - 1]

(* The larger and the smaller of two station orders. *)
Later(m, n)   == IF m >= n THEN m ELSE n
Earlier(m, n) == IF m >= n THEN n ELSE m

(* Two passengers are on the bus at the same time. *)
SegmentsOverlap(a, b) ==
  Later(a.departureOrder, b.departureOrder) < Earlier(a.arrivalOrder, b.arrivalOrder)

(* The segment covers the leg from station n to station n + 1. *)
SegmentCoversLeg(a, n) == a.departureOrder <= n /\ n < a.arrivalOrder

(* Where a passenger may board and get off: the termini always, an
   intermediate stop when it is flagged for it. *)
BoardingStations(bus) == {bus.route[1]} \cup (bus.boarding \cap RouteStations(bus.route))
DropoffStations(bus)  == {bus.route[Len(bus.route)]} \cup (bus.dropoff \cap RouteStations(bus.route))
=============================================================================
