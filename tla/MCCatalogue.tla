----------------------------- MODULE MCCatalogue -----------------------------
(***************************************************************************)
(* Catalogue on a small instance: an account on one of two nodes, a third  *)
(* id, and syncs that name both nodes in either order or a new one.        *)
(***************************************************************************)
EXTENDS Catalogue, TLC

CONSTANTS c1, a1, a2, n1, n2, n3, x, y, z, g, h, s1, s2, q1, q2

TwoNodes ==
    (n1 :> [name |-> x, config |-> g, enabled |-> TRUE])
        @@ (n2 :> [name |-> y, config |-> g, enabled |-> FALSE]) @@ (n3 :> None)
OneAccount ==
    [a \in Accounts |-> IF a = a1 THEN [owner |-> c1, setting |-> s1, nodes |-> {n1}] ELSE None]

Sync(name, enabled) == [name |-> name, config |-> h, enabled |-> enabled]
BothWays ==
    {<<Sync(x, Unset), Sync(y, TRUE)>>, <<Sync(y, Unset), Sync(z, Unset), Sync(x, Unset)>>}

Interchangeable == Permutations(Requests)
=============================================================================
