---------------------------- MODULE MCRuntimeSync ----------------------------
(***************************************************************************)
(* RuntimeSync on small instances.                                         *)
(***************************************************************************)
EXTENDS RuntimeSync, TLC

CONSTANTS n1, n2, x1, x2, a1, a2, s1, i1, i2, c1, c2

Forever == MaxClock + 1
\* Every account starts enabled and bound to every node.
BoundEverywhere ==
    [a \in Accounts |-> [owner |-> c1, ident |-> i1, enabled |-> TRUE,
                         expires |-> Forever, nodes |-> Nodes]]
OnlyForever == {Forever}
SoonOrForever == {2, Forever}

Interchangeable == Permutations(Accounts) \cup Permutations(Nodes)
=============================================================================
