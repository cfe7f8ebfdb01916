--------------------------- MODULE MCSubscriptions ---------------------------
(***************************************************************************)
(* Subscriptions on small instances.                                       *)
(***************************************************************************)
EXTENDS Subscriptions, TLC

CONSTANTS c1, t1, t2, l1, l2, e1, e2, w1, m1

\* A row older than the column encrypted_token, or no rows.
OldRow(l) == [owner |-> c1, link |-> l, cipher |-> NoLink, enabled |-> TRUE,
              expires |-> MaxClock + 1, used |-> FALSE]
NoRows == [t \in Tokens |-> NoToken]
OldOrNoRows == {NoRows} \cup {[NoRows EXCEPT ![t] = OldRow(l)] : t \in Tokens, l \in Links}
Interchangeable == Permutations(Editors) \cup Permutations(Tokens) \cup Permutations(Links)
SoonOrForever == {0, MaxClock + 1}
=============================================================================
