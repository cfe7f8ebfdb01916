------------------------------ MODULE SessionLife ------------------------------
(***************************************************************************)
(* What a login session is, without tokens, statements and requests.  A    *)
(* session belongs to one principal and to what was known of that          *)
(* principal (bound) when it began.  It is unused, then open, then over,   *)
(* and never comes back.  It is over at the latest when something changes  *)
(* in what it is bound to, and otherwise ends by itself, or with others of *)
(* its principal.  A session is lapsed when its time has run out and it is *)
(* open only because a refresh that came in time is still being served.    *)
(*                                                                         *)
(* For one principal, the Keeper, what its sessions are bound to may be    *)
(* set back.  A change only suspends those of its sessions that have time  *)
(* left, and one that sets it back opens them again.                       *)
(***************************************************************************)
CONSTANTS Sessions, Principals, Keeper

VARIABLES
    unused,     \* the ids no session and no refresh has used yet
    open,       \* open[p]: the sessions of p that can be continued
    lapsed,     \* those of them whose time has run out
    suspended,  \* the Keeper's that are bound to what it had before
    bound       \* bound[p]: what the sessions of p depend on

lifeVars == <<unused, open, lapsed, suspended, bound>>

Opened == UNION {open[p] : p \in Principals}

Init ==
    /\ unused = Sessions
    /\ open = [p \in Principals |-> {}]
    /\ lapsed = {} /\ suspended = {}

\* A login; what it was checked against may have changed meanwhile, and then its
\* session is over as it begins.
Begin(s) ==
    /\ s \in unused /\ unused' = unused \ {s}
    /\ \/ UNCHANGED open
       \/ \E p \in Principals : open' = [open EXCEPT ![p] = @ \cup {s}]
    /\ UNCHANGED <<lapsed, suspended, bound>>

\* A refresh gives a session new time, and uses an id.
Renew(s, i) ==
    /\ s \in Opened
    /\ i \in unused /\ unused' = unused \ {i}
    /\ lapsed' = lapsed \ {s}
    /\ UNCHANGED <<open, suspended, bound>>

\* Of all principals but p only sessions that have lapsed end.
OthersStay(p) ==
    /\ open' \in [Principals -> SUBSET Sessions]
    /\ \A q \in Principals \ {p} : open'[q] \subseteq open[q] /\ open[q] \ open'[q] \subseteq lapsed
    /\ lapsed' = lapsed \cap Opened'
    /\ UNCHANGED unused

\* Sessions of p end.
End(p) ==
    /\ OthersStay(p) /\ open'[p] \subseteq open[p]
    /\ suspended' \subseteq suspended /\ (p # Keeper => UNCHANGED suspended)
    /\ UNCHANGED bound

\* Something changes in what the sessions of p are bound to: none stays open.
Change(p) ==
    /\ p # Keeper
    /\ OthersStay(p) /\ open'[p] = {}
    /\ \A q \in Principals \ {p} : bound'[q] = bound[q]
    /\ UNCHANGED suspended

\* It changes for the Keeper, to something new or back: what was open is suspended,
\* and only what was suspended can be open.
Reconfigure ==
    /\ OthersStay(Keeper) /\ open'[Keeper] \subseteq suspended
    /\ suspended' = (suspended \cup (open[Keeper] \ lapsed)) \ open'[Keeper]
    /\ \A q \in Principals \ {Keeper} : bound'[q] = bound[q]

\* Time passes: sessions lapse, or are over.
Pass ==
    /\ open' \in [Principals -> SUBSET Sessions]
    /\ \A q \in Principals : open'[q] \subseteq open[q]
    /\ lapsed \cap Opened' \subseteq lapsed' /\ lapsed' \subseteq Opened'
    /\ suspended' \subseteq suspended
    /\ UNCHANGED <<unused, bound>>

Next ==
    \/ \E s \in Sessions : Begin(s) \/ \E i \in Sessions : Renew(s, i)
    \/ \E p \in Principals : End(p) \/ Change(p)
    \/ Reconfigure
    \/ Pass

Spec == Init /\ [][Next]_lifeVars
=============================================================================
