------------------------------ MODULE Reconcile ------------------------------
(***************************************************************************)
(* What runtime synchronisation promises to the users of a node, without   *)
(* its rounds, snapshots and calls.  A node has the users it should serve  *)
(* (want) and those each of its inbounds serves (have).  While nothing has disturbed a node  *)
(* since the syncer last took it up, the only thing that happens to its    *)
(* users is that one of them, served otherwise than wanted, is taken away, *)
(* or one that is wanted and absent is put there as wanted: a user served  *)
(* as wanted keeps being served, and nobody unwanted ever appears.         *)
(***************************************************************************)
CONSTANTS Nodes, Addresses, Accounts, Idents, NoUser

VARIABLES
    want,   \* want[n][a]: the identity user a should have on node n, or NoUser
    have,   \* have[n][x][a]: the one it has in the inbound x of the node
    loose   \* the nodes disturbed since the syncer last took them up

recVars == <<want, have, loose>>

View == [Accounts -> Idents \cup {NoUser}]

Init ==
    /\ want \in [Nodes -> View]
    /\ have = [n \in Nodes |-> [x \in Addresses |-> [a \in Accounts |-> NoUser]]]
    /\ loose = {}

\* The syncer takes up a node.
Begin(n) ==
    /\ loose' = loose \ {n}
    /\ UNCHANGED <<want, have>>

\* One user of one inbound changes, as promised when the node is undisturbed.
Fix(n, x, a) ==
    /\ UNCHANGED <<want, loose>>
    /\ \E v \in Idents \cup {NoUser} :
          /\ have' = [have EXCEPT ![n][x][a] = v]
          /\ \/ n \in loose
             \/ /\ have[n][x][a] # want[n][a]
                /\ v = IF have[n][x][a] = NoUser THEN want[n][a] ELSE NoUser

\* Administrators, time, restarts and late calls change nodes, which get loose.
Disturb ==
    /\ want' \in [Nodes -> View]
    /\ have' \in [Nodes -> [Addresses -> View]]
    /\ loose' \subseteq Nodes
    /\ \A n \in Nodes : \/ n \in loose'
                        \/ /\ n \notin loose
                           /\ want'[n] = want[n] /\ have'[n] = have[n]

Next ==
    \/ \E n \in Nodes : Begin(n) \/ \E x \in Addresses, a \in Accounts : Fix(n, x, a)
    \/ Disturb

Spec == Init /\ [][Next]_recVars
=============================================================================
