------------------------- MODULE MCTrafficCollection -------------------------
(***************************************************************************)
(* TrafficCollection on small instances.                                   *)
(***************************************************************************)
EXTENDS TrafficCollection, TLC

CONSTANTS n1, n2, x1, x2, a1, a2, u1, u2, u3

\* Two units of one account and one of the other.
TwoAndOne == (u1 :> a1) @@ (u2 :> a1) @@ (u3 :> a2)
\* The second account's unit on the second instance.
TwoInstances == (u1 :> x1) @@ (u2 :> x1) @@ (u3 :> x2)
\* An instance for each node at the start.
OneEach == (n1 :> x1) @@ (n2 :> x2)
=============================================================================
