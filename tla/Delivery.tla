-------------------------------- MODULE Delivery --------------------------------
(***************************************************************************)
(* Accounting of traffic as delivery at most once, without nodes, rounds,  *)
(* statements and deadlines.  A unit of traffic is counted, then taken,    *)
(* then recorded, in this order; it may be lost at any of the three        *)
(* places, and what is lost stays lost.                                    *)
(***************************************************************************)
CONSTANT Units

VARIABLES
    used,      \* the units that were ever transferred
    counted,   \* those of them in a counter
    taken,     \* those that left a counter and are in nobody's books yet
    recorded   \* those in the books

deliveryVars == <<used, counted, taken, recorded>>

Init == used = {} /\ counted = {} /\ taken = {} /\ recorded = {}

Use(u) ==
    /\ u \notin used
    /\ used' = used \cup {u} /\ counted' = counted \cup {u}
    /\ UNCHANGED <<taken, recorded>>

Take(S) ==
    /\ counted' = counted \ S /\ taken' = taken \cup S
    /\ UNCHANGED <<used, recorded>>

\* What is taken is recorded in part or in full, and no longer held.
Record(S) ==
    /\ taken' = taken \ S
    /\ recorded \subseteq recorded' /\ recorded' \subseteq recorded \cup S
    /\ UNCHANGED <<used, counted>>

Lose ==
    /\ counted' \subseteq counted /\ taken' \subseteq taken /\ recorded' \subseteq recorded
    /\ UNCHANGED used

Next ==
    \/ \E u \in Units : Use(u)
    \/ \E S \in SUBSET counted : Take(S)
    \/ \E S \in SUBSET taken : Record(S)
    \/ Lose

Spec == Init /\ [][Next]_deliveryVars
=============================================================================
