------------------------------- MODULE MCLines --------------------------------
(***************************************************************************)
(* An instance of Lines for TLC: a pair a -> b and b -> a by way of c or d,*)
(* stored as today's code leaves it or as an earlier one did, a ride on    *)
(* either direction, and room for two more lines.                          *)
(***************************************************************************)
EXTENDS Lines, TLC

CONSTANTS l1, l2, l3, l4, r1, r2, a, b, c, d

Both(s) == [station |-> s, boarding |-> TRUE, dropoff |-> TRUE]
BoardingOnly(s) == [station |-> s, boarding |-> TRUE, dropoff |-> FALSE]

Row(from, to, mode, direction, key, stops) ==
    [departure |-> from, arrival |-> to, mode |-> mode, direction |-> direction,
     pairKey |-> key, active |-> TRUE, stops |-> stops]

MCNewLines == {Row(a, b, "BOTH", "OUTBOUND", None, <<Both(c)>>),
               Row(a, b, "SINGLE", "OUTBOUND", None, <<>>),
               Row(b, a, "BOTH", "RETURN", l1, <<Both(d)>>)}

NoPatch == [departure |-> Unset, arrival |-> Unset, mode |-> Unset,
            direction |-> Unset, pairKey |-> Unset, active |-> Unset,
            stops |-> Unset]

\* New stops, a new terminus with or without new stops, a line that leaves or
\* joins a pair.
MCLinePatches ==
    {[NoPatch EXCEPT !.stops = s] :
        s \in {<<>>, <<BoardingOnly(d)>>, <<Both(c), Both(d)>>, <<Both(d), Both(a)>>}}
    \cup {[NoPatch EXCEPT !.departure = d], [NoPatch EXCEPT !.arrival = c],
          [NoPatch EXCEPT !.departure = d, !.stops = <<Both(a), Both(c)>>],
          [NoPatch EXCEPT !.mode = "SINGLE", !.direction = "OUTBOUND", !.pairKey = None],
          [NoPatch EXCEPT !.mode = "BOTH", !.pairKey = l1],
          [NoPatch EXCEPT !.mode = "BOTH", !.pairKey = l1, !.stops = <<Both(d)>>],
          [NoPatch EXCEPT !.active = FALSE]}

\* Every time known; only one stop's; overnight.
MCTimetables == {a :> 1 @@ c :> 3 @@ d :> 4 @@ b :> 6,
                 a :> None @@ c :> 3 @@ d :> None @@ b :> None,
                 a :> 7 @@ c :> None @@ d :> None @@ b :> 2}

Outbound(stops) == Row(a, b, "BOTH", "OUTBOUND", l1, stops)
Inbound(stops) == Row(b, a, "BOTH", "RETURN", l1, stops)

RideOn(l, row, route) ==
    [line |-> l, status |-> "ACTIVE",
     times |-> Filled(route, a :> 1 @@ c :> 3 @@ d :> 4 @@ b :> 6)]

World(row1, row2, ride1) ==
    [line |-> l1 :> row1 @@ l2 :> row2 @@ l3 :> None @@ l4 :> None,
     ride |-> r1 :> ride1 @@ r2 :> None]

\* In step; a stop the other direction never got; two orders no merge can
\* tell apart; a schedule left with the stops of an older route.
MCStored ==
    {World(Outbound(<<Both(c), BoardingOnly(d)>>), Inbound(ReversedStops(<<Both(c), BoardingOnly(d)>>)),
           RideOn(l2, Inbound(<<>>), <<b, d, c, a>>)),
     World(Outbound(<<Both(c), BoardingOnly(d)>>), Inbound(<<Both(c)>>),
           RideOn(l2, Inbound(<<>>), <<b, c, a>>)),
     World(Outbound(<<Both(c), Both(d)>>), Inbound(<<Both(c), Both(d)>>),
           RideOn(l1, Outbound(<<>>), <<a, c, d, b>>)),
     World(Outbound(<<Both(c)>>), Inbound(<<Both(c)>>),
           RideOn(l1, Outbound(<<>>), <<a, d, b>>))}

Symmetry == Permutations({l3, l4})

=============================================================================
