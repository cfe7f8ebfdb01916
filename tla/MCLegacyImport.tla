--------------------------- MODULE MCLegacyImport ----------------------------
(***************************************************************************)
(* LegacyImport on small instances: two imports whose files name the same  *)
(* clients in opposite orders.                                             *)
(***************************************************************************)
EXTENDS LegacyImport

CONSTANTS i1, i2, u1, u2, n1, n2, f1, f2, k1, k2

L(u, k, best) == [uuid |-> u, flow |-> f1, key |-> k, best |-> best]

\* A published file with a client on two nodes, and the configuration of one.
OppositeFiles ==
    [i \in Importers |->
        IF i = i1 THEN <<L(u1, k1, <<n1, n2>>), L(u1, k2, <<n2>>), L(u2, k1, <<n1, n2>>)>>
                  ELSE <<L(u2, k1, <<n1>>), L(u1, k1, <<n1>>), L(u2, k1, <<n1>>)>>]
BothKinds == [i \in Importers |-> IF i = i1 THEN "subscription" ELSE "xray"]
=============================================================================
