--------------------------- MODULE MCTrafficLedger ---------------------------
(***************************************************************************)
(* TrafficLedger on small instances.                                       *)
(***************************************************************************)
EXTENDS TrafficLedger, TLC

CONSTANTS r1, r2, r3, s1, s2, c1, c2

\* Two rows of one account on one node, and one of another.
TwoAndOne == (r1 :> s1) @@ (r2 :> s1) @@ (r3 :> s2)
OneSeries == [r \in Rows |-> s1]
\* Without a filter, and from the second day on.
AllOrLate == {<<0, MaxClock>>, <<1, MaxClock>>}
NoTotals == {}

Interchangeable == Permutations({r1, r2})
=============================================================================
