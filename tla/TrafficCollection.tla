--------------------------- MODULE TrafficCollection ---------------------------
(***************************************************************************)
(* The traffic collector (internal/trafficsync): one goroutine per         *)
(* registered node asks the Xray instance the node's row names for the     *)
(* counters of its users, which the question resets, and writes one        *)
(* traffic_usage row for each account the node is bound to.  Between the   *)
(* reset and the row the bytes exist only in the memory of the collector.  *)
(* A row may come to name another instance, or one that another row names. *)
(*                                                                         *)
(* Bytes are Units: what one account transferred through one instance      *)
(* between two moments.  A row is the set of units its delta adds up.      *)
(***************************************************************************)
EXTENDS Integers, FiniteSets

CONSTANTS
    Nodes, Accounts,
    Instances,           \* Xray instances, by the host and port of their API
    InitApi,             \* InitApi[n]: the one the row of n names at the start
    NoRow,               \* no such row
    Units,
    AccountOf, InstanceOf,   \* whose unit u is, and where it was counted
    MaxEvents,           \* bound: rows of the catalogue changed by administrators
    MaxFaults            \* bound: failed calls and statements, deadlines, restarts

NodeRow == [listed: BOOLEAN, api: Instances]
Row == [account: Accounts, node: Nodes, units: SUBSET Units]

ASSUME CollectionAssumption ==
    /\ AccountOf \in [Units -> Accounts] /\ InstanceOf \in [Units -> Instances]
    /\ InitApi \in [Nodes -> Instances] /\ NoRow \notin NodeRow
    /\ MaxEvents \in Nat /\ MaxFaults \in Nat

VARIABLES
    accounts, node, bound,     \* proxy_accounts, proxy_nodes, proxy_account_nodes
    rows,                      \* traffic_usage
    counter,                   \* the units in the counters of the Xray instances
    pc, at, ctx, answer, mine, \* one goroutine per node; at: the instance in its
                               \* copy of the row; mine: boundAccountIDs
    late,     \* instances a query the collector gave up on may still reach
    served,   \* the units that were transferred so far
    events, faults

catalogue == <<accounts, node, bound, events>>
vars == <<accounts, node, bound, rows, counter, pc, at, ctx, answer, mine,
          late, served, events, faults>>

Present == {n \in Nodes : node[n] # NoRow}
Listed(n) == node[n] # NoRow /\ node[n].listed

TypeOK ==
    /\ accounts \subseteq Accounts /\ node \in [Nodes -> NodeRow \cup {NoRow}]
    /\ bound \subseteq accounts \X Present
    /\ rows \subseteq Row
    /\ \A r \in rows : r.account \in accounts /\ r.node \in Present /\ r.units # {}
    /\ counter \subseteq Units
    /\ pc \in [Nodes -> {"idle", "query", "bound", "insert"}]
    /\ at \in [Nodes -> Instances]
    /\ ctx \in [Nodes -> {"live", "expired"}]
    /\ answer \in [Nodes -> SUBSET Units]
    /\ mine \in [Nodes -> SUBSET Accounts]
    /\ late \subseteq Instances /\ served \subseteq Units
    /\ events \in 0 .. MaxEvents /\ faults \in 0 .. MaxFaults

Init ==
    /\ accounts = Accounts
    /\ node = [n \in Nodes |-> [listed |-> TRUE, api |-> InitApi[n]]]
    /\ bound = Accounts \X Nodes
    /\ rows = {} /\ counter = {}
    /\ pc = [n \in Nodes |-> "idle"]
    /\ at = InitApi
    /\ ctx = [n \in Nodes |-> "live"]
    /\ answer = [n \in Nodes |-> {}]
    /\ mine = [n \in Nodes |-> {}]
    /\ late = {} /\ served = {}
    /\ events = 0 /\ faults = 0

(***************************************************************************)
(* The collector.                                                          *)
(***************************************************************************)

\* Mutant: a round does not wait for the goroutines of the one before.
RoundStartUnwaited ==
    /\ \E n \in Nodes : Listed(n)
    /\ pc' = [n \in Nodes |-> IF Listed(n) THEN "query" ELSE "idle"]
    /\ at' = [n \in Nodes |-> IF Listed(n) THEN node[n].api ELSE at[n]]
    /\ ctx' = [n \in Nodes |-> "live"]
    /\ answer' = [n \in Nodes |-> {}]
    /\ UNCHANGED <<catalogue, rows, counter, mine, late, served, faults>>
\* syncAll: a goroutine for each registered node; wg.Wait ends the round.  How
\* many of them run at once (the semaphore) only orders their steps.  A goroutine
\* keeps the struct it was started with.
RoundStart ==
    /\ \A n \in Nodes : pc[n] = "idle"
    /\ \E n \in Nodes : Listed(n)
    /\ pc' = [n \in Nodes |-> IF Listed(n) THEN "query" ELSE "idle"]
    /\ at' = [n \in Nodes |-> IF Listed(n) THEN node[n].api ELSE at[n]]
    /\ UNCHANGED <<catalogue, rows, counter, ctx, answer, mine, late, served, faults>>

\* Mutant: the context of a goroutine is kept for the next round.
FinishKeepsContext(n) ==
    /\ pc' = [pc EXCEPT ![n] = "idle"]
    /\ answer' = [answer EXCEPT ![n] = {}]
    /\ mine' = [mine EXCEPT ![n] = {}]
    /\ UNCHANGED ctx
Finish(n) ==
    /\ pc' = [pc EXCEPT ![n] = "idle"]
    /\ ctx' = [ctx EXCEPT ![n] = "live"]
    /\ answer' = [answer EXCEPT ![n] = {}]
    /\ mine' = [mine EXCEPT ![n] = {}]

Counted(x) == {u \in counter : InstanceOf[u] = x}

\* Mutant: the counters are read without being reset.
QueryKeeps(n) ==
    /\ pc[n] = "query" /\ ctx[n] = "live"
    /\ answer' = [answer EXCEPT ![n] = Counted(at[n])]
    /\ pc' = [pc EXCEPT ![n] = "bound"]
    /\ UNCHANGED <<catalogue, at, rows, counter, ctx, mine, late, served, faults>>
\* QueryTraffic(reset): the answer holds what the counters held, which are zero.
Query(n) ==
    /\ pc[n] = "query" /\ ctx[n] = "live"
    /\ answer' = [answer EXCEPT ![n] = Counted(at[n])]
    /\ counter' = counter \ Counted(at[n])
    /\ pc' = [pc EXCEPT ![n] = "bound"]
    /\ UNCHANGED <<catalogue, at, rows, ctx, mine, late, served, faults>>

\* On an expired context calls and statements fail at once, on a live one by a
\* fault of the network, the instance or the database.
FailsNow(n) ==
    \/ ctx[n] = "expired" /\ UNCHANGED faults
    \/ ctx[n] = "live" /\ faults < MaxFaults /\ faults' = faults + 1

\* QueryTraffic returns an error; the call it made may have reset the counters,
\* may do so later, or never.
QueryFails(n) ==
    /\ pc[n] = "query"
    /\ FailsNow(n)
    /\ \/ UNCHANGED <<counter, late>>
       \/ ctx[n] = "live" /\ counter' = counter \ Counted(at[n]) /\ UNCHANGED late
       \/ ctx[n] = "live" /\ late' = late \cup {at[n]} /\ UNCHANGED counter
    /\ Finish(n)
    /\ UNCHANGED <<catalogue, at, rows, served>>

Answered(n) == {AccountOf[u] : u \in answer[n]}

\* RecordTrafficUsageBatch selects the accounts that are bound to the node; with
\* nothing to ask for it is over.
ReadBound(n) ==
    /\ pc[n] = "bound" /\ ctx[n] = "live"
    /\ IF answer[n] = {}
       THEN Finish(n)
       ELSE /\ mine' = [mine EXCEPT ![n] = {a \in Answered(n) : <<a, n>> \in bound}]
            /\ pc' = [pc EXCEPT ![n] = "insert"]
            /\ UNCHANGED <<ctx, answer>>
    /\ UNCHANGED <<catalogue, at, rows, counter, late, served, faults>>

Usages(n) ==
    {[account |-> a, node |-> n, units |-> {u \in answer[n] : AccountOf[u] = a}] : a \in mine[n]}

\* The foreign keys of traffic_usage.
Referable(n) == mine[n] \subseteq accounts /\ node[n] # NoRow

\* One INSERT for the deltas of bound accounts: all rows or, when an account or the
\* node was deleted since the SELECT, none (foreign keys).
Insert(n) ==
    /\ pc[n] = "insert" /\ ctx[n] = "live"
    /\ rows' = IF Referable(n) THEN rows \cup Usages(n) ELSE rows
    /\ Finish(n)
    /\ UNCHANGED <<catalogue, at, counter, late, served, faults>>

\* A statement of the batch fails; a failed INSERT may have been committed.
RecordFails(n) ==
    /\ pc[n] \in {"bound", "insert"}
    /\ FailsNow(n)
    /\ \/ UNCHANGED rows
       \/ /\ pc[n] = "insert" /\ ctx[n] = "live" /\ Referable(n)
          /\ rows' = rows \cup Usages(n)
    /\ Finish(n)
    /\ UNCHANGED <<catalogue, at, counter, late, served>>

Deadline(n) ==
    /\ pc[n] # "idle" /\ ctx[n] = "live" /\ faults < MaxFaults
    /\ ctx' = [ctx EXCEPT ![n] = "expired"]
    /\ faults' = faults + 1
    /\ UNCHANGED <<catalogue, at, rows, counter, pc, answer, mine, late, served>>

\* The control plane stops with what its collector holds.
Crash ==
    /\ \E n \in Nodes : pc[n] # "idle"
    /\ faults < MaxFaults /\ faults' = faults + 1
    /\ pc' = [n \in Nodes |-> "idle"]
    /\ ctx' = [n \in Nodes |-> "live"]
    /\ answer' = [n \in Nodes |-> {}]
    /\ mine' = [n \in Nodes |-> {}]
    /\ \E ns \in SUBSET {n \in Nodes : pc[n] = "query" /\ ctx[n] = "live"} :
          late' = late \cup {at[n] : n \in ns}
    /\ UNCHANGED <<catalogue, at, rows, counter, served>>

CollectStep(n) ==
    Query(n) \/ QueryFails(n) \/ ReadBound(n) \/ Insert(n) \/ RecordFails(n)

(***************************************************************************)
(* Users, Xray and administrators.                                         *)
(***************************************************************************)
run == <<pc, at, ctx, answer, mine>>

\* A node serves whom its inbound holds, bound to it in the database or not.
Serve(u) ==
    /\ u \notin served
    /\ served' = served \cup {u} /\ counter' = counter \cup {u}
    /\ UNCHANGED <<catalogue, rows, run, late, faults>>

RestartXray(x) ==
    /\ Counted(x) # {}
    /\ faults < MaxFaults /\ faults' = faults + 1
    /\ counter' = counter \ Counted(x)
    /\ UNCHANGED <<catalogue, rows, run, late, served>>

\* The query of an earlier run resets the counters, and nobody takes the answer.
LateArrives(x) ==
    /\ x \in late
    /\ counter' = counter \ Counted(x)
    /\ late' = late \ {x}
    /\ UNCHANGED <<catalogue, rows, run, served, faults>>

LateLost(x) ==
    /\ x \in late
    /\ late' = late \ {x}
    /\ UNCHANGED <<catalogue, rows, counter, run, served, faults>>

Event == events < MaxEvents /\ events' = events + 1

\* UpdateProxyAccount replaces the bindings of an account by existing nodes.
Rebind(a) ==
    /\ Event /\ a \in accounts
    /\ \E ns \in SUBSET Present :
          bound' = {b \in bound : b[1] # a} \cup ({a} \X ns)
    /\ UNCHANGED <<accounts, node, rows, counter, run, late, served, faults>>

\* Mutant: the foreign key of traffic_usage does not cascade.
DeleteAccountOnly(a) ==
    /\ Event /\ a \in accounts
    /\ accounts' = accounts \ {a}
    /\ bound' = {b \in bound : b[1] # a}
    /\ UNCHANGED <<node, rows, counter, run, late, served, faults>>
\* DELETE cascades to the account's bindings and traffic rows.
DeleteAccount(a) ==
    /\ Event /\ a \in accounts
    /\ accounts' = accounts \ {a}
    /\ bound' = {b \in bound : b[1] # a}
    /\ rows' = {r \in rows : r.account # a}
    /\ UNCHANGED <<node, counter, run, late, served, faults>>

\* A PATCH or an upsert of a node: registered or not, and the instance it names.
\* The Save of a row deleted since the PATCH read it inserts it again.
SaveNode(n) ==
    /\ Event
    /\ \E row \in NodeRow : row # node[n] /\ node' = [node EXCEPT ![n] = row]
    /\ UNCHANGED <<accounts, bound, rows, counter, run, late, served, faults>>

\* DELETE /admin/nodes/{id} cascades to the node's bindings and traffic rows.
DeleteNode(n) ==
    /\ Event /\ n \in Present
    /\ node' = [node EXCEPT ![n] = NoRow]
    /\ bound' = {b \in bound : b[2] # n}
    /\ rows' = {r \in rows : r.node # n}
    /\ UNCHANGED <<accounts, counter, run, late, served, faults>>

Environment ==
    \/ \E u \in Units : Serve(u)
    \/ \E a \in Accounts : Rebind(a) \/ DeleteAccount(a)
    \/ \E n \in Nodes : SaveNode(n) \/ DeleteNode(n)
    \/ \E x \in Instances : RestartXray(x) \/ LateArrives(x) \/ LateLost(x)

Next ==
    \/ RoundStart
    \/ \E n \in Nodes : CollectStep(n) \/ Deadline(n)
    \/ Crash
    \/ Environment

Spec == Init /\ [][Next]_vars
\* The ticker fires and goroutines run; nobody else is obliged to act.
Fairness == WF_vars(RoundStart) /\ \A n \in Nodes : WF_vars(CollectStep(n))
FairSpec == Spec /\ Fairness

(***************************************************************************)
(* Properties.                                                             *)
(***************************************************************************)
Recorded == UNION {r.units : r \in rows}
Held == UNION {answer[n] : n \in Nodes}

\* A byte is billed at most once: rows never share traffic, and traffic that was
\* recorded or is held by a goroutine is in no counter and held by no other,
\* whatever was asked again after failures, deadlines and crashes (the reset and
\* the lack of retries, trafficsync/sync.go:130-142).
RecordedOnce ==
    /\ \A r, s \in rows : r # s => r.units \cap s.units = {}
    /\ \A m, n \in Nodes : m # n => answer[m] \cap answer[n] = {}
    /\ Recorded \cap counter = {} /\ Held \cap counter = {} /\ Recorded \cap Held = {}

\* Traffic disappears for these reasons only: a failed call or statement, a crash
\* or a restart; a query given up that resets the counters late, once for each such
\* query; in the goroutine that holds it, a deadline, the account not being bound to
\* the node when the batch looked, or the node or an account of the same batch
\* deleted between the batch's two statements, which takes everybody's deltas with
\* it (traffic.go:42-82); in its row, the deletion of the account or the node.
Somewhere == counter \cup Held \cup Recorded
Dropped(u, n) ==
    /\ u \in answer[n]
    /\ \/ ctx[n] = "expired"
       \/ pc[n] = "insert" /\ AccountOf[u] \notin mine[n]
       \/ pc[n] = "insert" /\ ~Referable(n)
LossExplained ==
    [][\A u \in Somewhere \ Somewhere' :
          \/ faults' # faults
          \/ InstanceOf[u] \in late \ late'
          \/ \E n \in Nodes : Dropped(u, n)
          \/ \E r \in rows :
                u \in r.units /\ (r.account \notin accounts' \/ r.node \notin Present')]_vars

\* Once failures, deadlines, late calls and administrators are spent, the traffic in
\* the counters of an instance gets into the rows, if a registered node names the
\* instance and the account is bound to every node that names it or whose goroutine
\* is about to ask it.
Calm == faults = MaxFaults /\ events = MaxEvents
Asks(n, x) == (Listed(n) /\ node[n].api = x) \/ (pc[n] = "query" /\ at[n] = x)
EventuallyRecorded ==
    \A u \in Units :
        (/\ Calm /\ InstanceOf[u] \notin late /\ u \in counter
         /\ \E n \in Nodes : Listed(n) /\ node[n].api = InstanceOf[u]
         /\ \A n \in Nodes : Asks(n, InstanceOf[u]) => <<AccountOf[u], n>> \in bound)
            ~> u \in Recorded

\* The collector is a delivery at most once: no retry, late answer or crash
\* brings back traffic that was lost, or takes it to the rows twice.
Account == INSTANCE Delivery WITH
    used <- served, counted <- counter, taken <- Held, recorded <- Recorded
AtMostOnce == Account!Spec

\* What was lost appears nowhere again.
LostForGood == [][served \ Somewhere \subseteq served' \ Somewhere']_vars
=============================================================================
