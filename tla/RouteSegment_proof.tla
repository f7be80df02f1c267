------------------------ MODULE RouteSegment_proof ------------------------
(***************************************************************************)
(* What the segment arithmetic of RouteSegment guarantees for every route  *)
(* and every pair of segments.                                             *)
(***************************************************************************)
EXTENDS RouteSegment, TLAPS, WellFoundedInduction

(* A non-empty set of naturals has a least element. *)
LEMMA NatMin ==
  ASSUME NEW T \in SUBSET Nat, T # {}
  PROVE  \E x \in T : \A y \in T : x <= y
<1>1. \E R : IsWellFoundedOn(R, Nat) /\ \A x, y \in Nat : y < x => <<y, x>> \in R
  <2>1. \A x, y \in Nat : y < x => <<y, x>> \in OpToRel(<, Nat)
    BY DEF OpToRel
  <2> WITNESS OpToRel(<, Nat)
  <2> QED BY <2>1, NatLessThanWellFounded, Zenon
<1>2. PICK R : IsWellFoundedOn(R, Nat) /\ \A x, y \in Nat : y < x => <<y, x>> \in R
  BY <1>1
<1>3. PICK x \in T : \A y \in T : ~(<<y, x>> \in R)
  BY <1>2, WFMin
<1>4. \A y \in T : ~(y < x)
  BY <1>2, <1>3
<1> QED BY <1>4

(* A station of a route has a last stop on it, so routeStationOrder has a
   number to give it. *)
LEMMA LastIndex ==
  ASSUME NEW S, NEW route \in Seq(S), NEW s \in RouteStations(route)
  PROVE  \E i \in DOMAIN route : route[i] = s /\ \A j \in DOMAIN route : route[j] = s => j <= i
<1> DEFINE T == {Len(route) - i : i \in {k \in DOMAIN route : route[k] = s}}
<1>1. T \in SUBSET Nat /\ T # {}
  BY DEF RouteStations
<1>2. PICK x \in T : \A y \in T : x <= y
  BY <1>1, NatMin
<1>3. PICK i \in {k \in DOMAIN route : route[k] = s} : x = Len(route) - i
  BY <1>2
<1>4. \A j \in DOMAIN route : route[j] = s => Len(route) - j \in T
  OBVIOUS
<1>5. ASSUME NEW j \in DOMAIN route, route[j] = s PROVE j <= i
  <2>1. Len(route) - i <= Len(route) - j
    BY <1>2, <1>3, <1>4, <1>5
  <2>2. Len(route) \in Nat /\ i \in Nat /\ j \in Nat
    BY <1>3
  <2> QED BY <2>1, <2>2
<1> QED BY <1>3, <1>5

(* Every station of a route gets a natural number. *)
LEMMA StationOrderType ==
  ASSUME NEW S, NEW route \in Seq(S)
  PROVE  RouteStationOrder(route) \in [RouteStations(route) -> Nat]
<1> SUFFICES ASSUME NEW s \in RouteStations(route)
             PROVE  (CHOOSE i \in DOMAIN route : route[i] = s /\ \A j \in DOMAIN route : route[j] = s => j <= i) - 1 \in Nat
  BY DEF RouteStationOrder
<1>1. (CHOOSE i \in DOMAIN route : route[i] = s /\ \A j \in DOMAIN route : route[j] = s => j <= i) \in DOMAIN route
  BY LastIndex
<1> QED BY <1>1

(* Whose segment is asked about first makes no difference: the booking checks
   compare (other, mine), the double-sale checks compare (mine, other). *)
LEMMA OverlapSymmetric ==
  ASSUME NEW a \in Segment, NEW b \in Segment
  PROVE  SegmentsOverlap(a, b) <=> SegmentsOverlap(b, a)
BY DEF Segment, SegmentsOverlap, Later, Earlier

(* Two segments overlap exactly when some leg is covered by both: a seat freed
   at a station is sold again from that very station and no earlier. *)
THEOREM OverlapIsASharedLeg ==
  ASSUME NEW a \in Segment, NEW b \in Segment
  PROVE  SegmentsOverlap(a, b) <=> \E n \in Nat : SegmentCoversLeg(a, n) /\ SegmentCoversLeg(b, n)
<1>1. ASSUME SegmentsOverlap(a, b)
      PROVE  \E n \in Nat : SegmentCoversLeg(a, n) /\ SegmentCoversLeg(b, n)
  <2> DEFINE n == Later(a.departureOrder, b.departureOrder)
  <2>1. n \in Nat /\ SegmentCoversLeg(a, n) /\ SegmentCoversLeg(b, n)
    BY <1>1 DEF Segment, SegmentsOverlap, SegmentCoversLeg, Later, Earlier
  <2> QED BY <2>1
<1>2. ASSUME NEW n \in Nat, SegmentCoversLeg(a, n), SegmentCoversLeg(b, n)
      PROVE  SegmentsOverlap(a, b)
  BY <1>2 DEF Segment, SegmentsOverlap, SegmentCoversLeg, Later, Earlier
<1> QED BY <1>1, <1>2
=============================================================================
