----------------------------- MODULE RuntimeSync -----------------------------
(***************************************************************************)
(* The runtime syncer of the control plane (internal/runtimesync): one     *)
(* goroutine per registered Xray node reads the users the database says    *)
(* the node should serve, lists the users the node does serve, and removes *)
(* and adds users through the Xray gRPC API until the two agree.  Around   *)
(* it: the rows it reads and writes (internal/store), the administrators   *)
(* who change them meanwhile, and the Xray processes, which restart, lose  *)
(* calls, lose answers and receive calls late.                             *)
(*                                                                         *)
(* A user's identity on a node is its UUID and flow, normalised as the     *)
(* code compares them: the first, second, ... such pair of the account, a  *)
(* member of Idents (UUIDs are unique, so that the same member stands for  *)
(* different pairs in different accounts).  The order in which one run     *)
(* handles the users of a set is left open (the code sorts them).          *)
(*                                                                         *)
(* A node's row names the inbound to synchronise by its API host, port and *)
(* tag, an address of Addresses that a PATCH or an upsert may change.  Each *)
(* node has inbounds of its own: two rows that name the same inbound, which *)
(* nothing in the code refuses, are two syncers undoing each other's work, *)
(* and are left out.                                                       *)
(***************************************************************************)
EXTENDS Integers, FiniteSets

CONSTANTS
    Nodes,        \* node rows
    Addresses,    \* the inbounds a node's row may name: API host, port and tag
    InitAddress,  \* the one it names when the process starts
    Accounts,     \* proxy accounts; an account is its runtime email pcp-<id>@...
    Statics,      \* users of config.json, whose emails are not pcp-...
    Idents,       \* (uuid, flow) pairs of an account
    StaticIdent,  \* the identity of a static user
    Customers,
    NoUser,       \* no user with this email in the inbound
    NoRow,        \* no such row, or no request in flight
    Concurrency,  \* Options.Concurrency, the capacity of the semaphore
    ExpiryTimes,  \* values of expires_at; one beyond MaxClock stands for NULL
    InitAccount,  \* the account rows when the process starts
    MaxClock,     \* bound: events that change a row, an instance or the time
    MaxFaults     \* bound: failed calls and statements, deadlines, crashes

Users == Accounts \cup Statics
Times == 0 .. MaxClock
Never == -1
\* enabled: the column, and protocol vless.
AccountRow ==
    [owner: Customers, ident: Idents, enabled: BOOLEAN, expires: ExpiryTimes, nodes: SUBSET Nodes]
CustomerRow == [active: BOOLEAN, expires: ExpiryTimes]
\* listed: enabled, runtime xray and runtime_api_enabled with a complete API
\* configuration (validRuntimeAPIConfig refuses an incomplete one).
\* of is history, no column: the inbound of the run that left lastSync.
NodeRow == [listed: BOOLEAN, api: Addresses, lastSync: Times \cup {Never}, err: BOOLEAN,
            of: Addresses]
Inbound == [Users -> Idents \cup {NoUser}]
View == [Accounts -> Idents \cup {NoUser}]
\* A call that reached the network: value NoUser is RemoveUser, an identity AddUser.
Message == [node: Nodes, at: Addresses, user: Accounts, value: Idents \cup {NoUser}]

ASSUME SyncAssumption ==
    /\ Accounts \cap Statics = {}
    /\ NoUser \notin Idents
    /\ NoRow \notin AccountRow /\ NoRow \notin CustomerRow /\ NoRow \notin NodeRow
    /\ StaticIdent \in Idents /\ InitAddress \in Addresses
    /\ InitAccount \in [Accounts -> AccountRow \cup {NoRow}]
    /\ MaxClock \in Nat /\ MaxFaults \in Nat /\ Concurrency \in Nat
    /\ ExpiryTimes \subseteq Nat /\ (MaxClock + 1) \in ExpiryTimes

VARIABLES
    \* the database
    account, customer, node,
    \* the Xray instances, and calls still in the network
    xray, late,
    \* one goroutine of syncAll per node; at is the address in its copy of the row
    pc, at, now, ctx, snap, del, add,
    \* a PATCH /admin/nodes/{id} between its read and its Save, per node
    patch,
    \* clock counts events; touched[n] is the last one that wrote a row the
    \* target of n is computed from, let one of them expire, or changed the
    \* inbounds of n behind the syncer's back; faults counts failures
    clock, touched, faults

dbVars == <<account, customer, node>>
runVars == <<pc, at, now, ctx, snap, del, add>>
envVars == <<clock, touched>>
vars == <<account, customer, node, xray, late, pc, at, now, ctx, snap, del, add,
          patch, clock, touched, faults>>

Phases == {"idle", "queued", "target", "list", "apply", "mark_ok", "mark_err"}

TypeOK ==
    /\ account \in [Accounts -> AccountRow \cup {NoRow}]
    /\ customer \in [Customers -> CustomerRow \cup {NoRow}]
    /\ node \in [Nodes -> NodeRow \cup {NoRow}]
    /\ xray \in [Nodes -> [Addresses -> Inbound]]
    /\ late \in SUBSET Message
    /\ pc \in [Nodes -> Phases]
    /\ at \in [Nodes -> Addresses]
    /\ now \in [Nodes -> Times]
    /\ ctx \in [Nodes -> {"live", "expired"}]
    /\ snap \in [Nodes -> View]
    /\ del \in [Nodes -> SUBSET Accounts]
    /\ add \in [Nodes -> SUBSET Accounts]
    /\ patch \in [Nodes -> NodeRow \cup {NoRow}]
    /\ clock \in Times
    /\ touched \in [Nodes -> Times]
    /\ faults \in 0 .. MaxFaults

NoUsers == [a \in Accounts |-> NoUser]
\* What an instance serves after a start: the users of its config.json.
BootUsers == [u \in Users |-> IF u \in Statics THEN StaticIdent ELSE NoUser]
\* A row whose runtime-sync columns are empty.
NewRow(l, x) == [listed |-> l, api |-> x, lastSync |-> Never, err |-> FALSE, of |-> x]

Init ==
    /\ account = InitAccount
    /\ customer = [c \in Customers |-> [active |-> TRUE, expires |-> MaxClock + 1]]
    /\ node = [n \in Nodes |-> NewRow(TRUE, InitAddress)]
    /\ xray = [n \in Nodes |-> [x \in Addresses |-> BootUsers]]
    /\ late = {}
    /\ pc = [n \in Nodes |-> "idle"]
    /\ at = [n \in Nodes |-> InitAddress]
    /\ now = [n \in Nodes |-> 0]
    /\ ctx = [n \in Nodes |-> "live"]
    /\ snap = [n \in Nodes |-> NoUsers]
    /\ del = [n \in Nodes |-> {}]
    /\ add = [n \in Nodes |-> {}]
    /\ patch = [n \in Nodes |-> NoRow]
    /\ clock = 0
    /\ touched = [n \in Nodes |-> 0]
    /\ faults = 0

(***************************************************************************)
(* The target of a node and the difference with what it serves.            *)
(***************************************************************************)

\* The WHERE clauses of ListRuntimeTargetUsers; expires_at > now is strict.
Entitled(a, n, t) ==
    /\ account[a] # NoRow
    /\ n \in account[a].nodes
    /\ account[a].enabled
    /\ customer[account[a].owner].active
    /\ account[a].expires > t
    /\ customer[account[a].owner].expires > t

Target(n, t) ==
    [a \in Accounts |-> IF Entitled(a, n, t) THEN account[a].ident ELSE NoUser]

\* managedUsers: the listed users whose email this project generated.
Managed(inbound) == [a \in Accounts |-> inbound[a]]

\* Mutant: the filter on the generated email is forgotten.
ToRemoveUnfiltered(want, inbound) ==
    {u \in Users : inbound[u] # NoUser /\ (u \in Accounts => inbound[u] # want[u])}
\* Mutant: every managed user is removed and added again on any difference.
ToRemoveAll(want, inbound) ==
    {a \in Accounts : Managed(inbound) # want /\ Managed(inbound)[a] # NoUser}
ToRemove(want, inbound) ==
    {a \in Accounts : Managed(inbound)[a] \notin {NoUser, want[a]}}

\* Mutant: users that are already there are added again.
ToAddPresent(want, inbound) == {a \in Accounts : want[a] # NoUser}
ToAdd(want, inbound) ==
    {a \in Accounts : want[a] # NoUser /\ Managed(inbound)[a] # want[a]}

\* AlterInbound: a removal of an absent user and an addition of a present one
\* are refused and change nothing.
Accepted(inbound, user, value) == (value = NoUser) # (inbound[user] = NoUser)
Altered(inbound, user, value) ==
    IF Accepted(inbound, user, value) THEN [inbound EXCEPT ![user] = value] ELSE inbound

(***************************************************************************)
(* The syncer.                                                             *)
(***************************************************************************)
Listed(n) == node[n] # NoRow /\ node[n].listed
Idle(n) == pc[n] = "idle"
\* The inbound the run of n was given.
Given(n) == xray[n][at[n]]
Running(n) == pc[n] \notin {"idle", "queued"}
Goto(n, phase) == pc' = [pc EXCEPT ![n] = phase]
\* SyncNode is done with the maps it computed.
Leave(n, phase) ==
    /\ Goto(n, phase)
    /\ snap' = [snap EXCEPT ![n] = NoUsers]
    /\ del' = [del EXCEPT ![n] = {}]
    /\ add' = [add EXCEPT ![n] = {}]
\* The goroutine ends; now[n] is kept to tell what its mark stood for.
Finish(n) ==
    /\ Goto(n, "idle")
    /\ ctx' = [ctx EXCEPT ![n] = "live"]

\* A tick of Run: syncAll lists the nodes and starts a goroutine for each.  It
\* waits for all of them before Run takes another tick.  The goroutine keeps the
\* struct it was started with, whatever becomes of the row before its turn.
RoundStart ==
    /\ \A n \in Nodes : Idle(n)
    /\ \E n \in Nodes : Listed(n)
    /\ pc' = [n \in Nodes |-> IF Listed(n) THEN "queued" ELSE "idle"]
    /\ at' = [n \in Nodes |-> IF Listed(n) THEN node[n].api ELSE at[n]]
    /\ UNCHANGED <<dbVars, xray, late, now, ctx, snap, del, add, patch, envVars, faults>>

\* Mutant: the semaphore is not taken.
AcquireFreely(n) ==
    /\ pc[n] = "queued"
    /\ Goto(n, "target")
    /\ now' = [now EXCEPT ![n] = clock]
    /\ ctx' = [ctx EXCEPT ![n] = "live"]
    /\ UNCHANGED <<dbVars, xray, late, at, snap, del, add, patch, envVars, faults>>
\* sem <- struct{}{}, then WithTimeout and SyncNode(runCtx, node, time.Now()).
Acquire(n) ==
    /\ pc[n] = "queued"
    /\ Cardinality({m \in Nodes : Running(m)}) < Concurrency
    /\ Goto(n, "target")
    /\ now' = [now EXCEPT ![n] = clock]
    /\ ctx' = [ctx EXCEPT ![n] = "live"]
    /\ UNCHANGED <<dbVars, xray, late, at, snap, del, add, patch, envVars, faults>>

ReadTarget(n) ==
    /\ pc[n] = "target" /\ ctx[n] = "live"
    /\ snap' = [snap EXCEPT ![n] = Target(n, now[n])]
    /\ Goto(n, "list")
    /\ UNCHANGED <<dbVars, xray, late, at, now, ctx, del, add, patch, envVars, faults>>

\* GetInboundUsers, the two maps and their hashes.  Equal hashes leave nothing
\* to remove and nothing to add.
ListUsers(n) ==
    /\ pc[n] = "list" /\ ctx[n] = "live"
    /\ del' = [del EXCEPT ![n] = ToRemove(snap[n], Given(n))]
    /\ add' = [add EXCEPT ![n] = ToAdd(snap[n], Given(n))]
    /\ Goto(n, "apply")
    /\ UNCHANGED <<dbVars, xray, late, at, now, ctx, snap, patch, envVars, faults>>

RemoveUser(n, a) ==
    /\ pc[n] = "apply" /\ ctx[n] = "live"
    /\ a \in del[n]
    /\ xray' = [xray EXCEPT ![n][at[n]] = Altered(@, a, NoUser)]
    /\ IF Accepted(Given(n), a, NoUser)
       THEN /\ del' = [del EXCEPT ![n] = @ \ {a}]
            /\ UNCHANGED <<pc, snap, add>>
       ELSE Leave(n, "mark_err")
    /\ UNCHANGED <<dbVars, late, at, now, ctx, patch, envVars, faults>>

\* Mutant: users are added before the removals are done.
AddUserEarly(n, a) ==
    /\ pc[n] = "apply" /\ ctx[n] = "live"
    /\ a \in add[n]
    /\ xray' = [xray EXCEPT ![n][at[n]] = Altered(@, a, snap[n][a])]
    /\ IF Accepted(Given(n), a, snap[n][a])
       THEN /\ add' = [add EXCEPT ![n] = @ \ {a}]
            /\ UNCHANGED <<pc, snap, del>>
       ELSE Leave(n, "mark_err")
    /\ UNCHANGED <<dbVars, late, at, now, ctx, patch, envVars, faults>>
AddUser(n, a) ==
    /\ pc[n] = "apply" /\ ctx[n] = "live"
    /\ del[n] = {} /\ a \in add[n]
    /\ xray' = [xray EXCEPT ![n][at[n]] = Altered(@, a, snap[n][a])]
    /\ IF Accepted(Given(n), a, snap[n][a])
       THEN /\ add' = [add EXCEPT ![n] = @ \ {a}]
            /\ UNCHANGED <<pc, snap, del>>
       ELSE Leave(n, "mark_err")
    /\ UNCHANGED <<dbVars, late, at, now, ctx, patch, envVars, faults>>

Applied(n) ==
    /\ pc[n] = "apply" /\ del[n] = {} /\ add[n] = {}
    /\ Leave(n, "mark_ok")
    /\ UNCHANGED <<dbVars, xray, late, at, now, ctx, patch, envVars, faults>>

\* A statement or a call on an expired context fails at once; on a live one it
\* fails by a fault of the database, of the network or of the instance.
FailsNow(n) ==
    \/ ctx[n] = "expired" /\ UNCHANGED faults
    \/ ctx[n] = "live" /\ faults < MaxFaults /\ faults' = faults + 1

\* ListRuntimeTargetUsers or ListUsers returns an error.
ReadFails(n) ==
    /\ pc[n] \in {"target", "list"}
    /\ FailsNow(n)
    /\ Leave(n, "mark_err")
    /\ UNCHANGED <<dbVars, xray, late, at, now, ctx, patch, envVars>>

\* The next RemoveUser or AddUser of the run, for user a.
NextCall(n, a) ==
    IF a \in del[n] THEN [node |-> n, at |-> at[n], user |-> a, value |-> NoUser]
                    ELSE [node |-> n, at |-> at[n], user |-> a, value |-> snap[n][a]]

\* RemoveUser or AddUser returns an error: the call was never delivered, was
\* applied with its answer lost, or is still on its way.
CallFails(n, a) ==
    /\ pc[n] = "apply"
    /\ a \in del[n] \/ (del[n] = {} /\ a \in add[n])
    /\ FailsNow(n)
    /\ \/ UNCHANGED <<xray, late>>
       \/ /\ ctx[n] = "live"
          /\ xray' = [xray EXCEPT ![n][at[n]] = Altered(@, a, NextCall(n, a).value)]
          /\ UNCHANGED late
       \/ /\ ctx[n] = "live"
          /\ late' = late \cup {NextCall(n, a)}
          /\ UNCHANGED xray
    /\ Leave(n, "mark_err")
    /\ UNCHANGED <<dbVars, at, now, ctx, patch, envVars>>

\* Mutant: the mark carries the time it is written, not the time of the target.
MarkOkAtWrite(n) ==
    /\ pc[n] = "mark_ok" /\ ctx[n] = "live"
    /\ node' = [node EXCEPT ![n] =
                  IF @ = NoRow THEN NoRow
                  ELSE [@ EXCEPT !.lastSync = clock, !.err = FALSE, !.of = at[n]]]
    /\ Finish(n)
    /\ UNCHANGED <<account, customer, xray, late, at, now, snap, del, add, patch, envVars, faults>>
\* MarkProxyNodeRuntimeSync(now, ""): both columns; no row is ErrNotFound.
MarkOk(n) ==
    /\ pc[n] = "mark_ok" /\ ctx[n] = "live"
    /\ node' = [node EXCEPT ![n] =
                  IF @ = NoRow THEN NoRow
                  ELSE [@ EXCEPT !.lastSync = now[n], !.err = FALSE, !.of = at[n]]]
    /\ Finish(n)
    /\ UNCHANGED <<account, customer, xray, late, at, now, snap, del, add, patch, envVars, faults>>

\* markNodeError: only the error column, on the context of the run.
MarkError(n) ==
    /\ pc[n] = "mark_err" /\ ctx[n] = "live"
    /\ node' = [node EXCEPT ![n] = IF @ = NoRow THEN NoRow ELSE [@ EXCEPT !.err = TRUE]]
    /\ Finish(n)
    /\ UNCHANGED <<account, customer, xray, late, at, now, snap, del, add, patch, envVars, faults>>

\* The mark itself fails: nothing is written and the run is over.
MarkFails(n) ==
    /\ pc[n] \in {"mark_ok", "mark_err"}
    /\ FailsNow(n)
    /\ Finish(n)
    /\ UNCHANGED <<dbVars, xray, late, at, now, snap, del, add, patch, envVars>>

\* The timeout of the node's context passes.
Deadline(n) ==
    /\ Running(n) /\ ctx[n] = "live" /\ faults < MaxFaults
    /\ ctx' = [ctx EXCEPT ![n] = "expired"]
    /\ faults' = faults + 1
    /\ UNCHANGED <<dbVars, xray, late, pc, at, now, snap, del, add, patch, envVars>>

\* The control plane stops and starts again: every goroutine and request is gone.
Crash ==
    /\ faults < MaxFaults
    /\ \E n \in Nodes : ~Idle(n) \/ patch[n] # NoRow
    /\ pc' = [n \in Nodes |-> "idle"]
    /\ ctx' = [n \in Nodes |-> "live"]
    /\ snap' = [n \in Nodes |-> NoUsers]
    /\ del' = [n \in Nodes |-> {}]
    /\ add' = [n \in Nodes |-> {}]
    /\ patch' = [n \in Nodes |-> NoRow]
    /\ faults' = faults + 1
    /\ UNCHANGED <<dbVars, xray, late, at, now, envVars>>

SyncStep(n) ==
    \/ Acquire(n) \/ ReadTarget(n) \/ ListUsers(n)
    \/ \E a \in Users : RemoveUser(n, a) \/ AddUser(n, a) \/ CallFails(n, a)
    \/ Applied(n) \/ ReadFails(n) \/ MarkOk(n) \/ MarkError(n) \/ MarkFails(n)

(***************************************************************************)
(* What changes around the syncer.  Each event takes the clock forward.    *)
(***************************************************************************)
\* The targets that change because time passes.
Expiring == {n \in Nodes : Target(n, clock + 1) # Target(n, clock)}

Event(S) ==
    /\ clock < MaxClock
    /\ clock' = clock + 1
    /\ touched' = [n \in Nodes |-> IF n \in S \cup Expiring THEN clock + 1 ELSE touched[n]]

NodesOf(a) == IF account[a] = NoRow THEN {} ELSE account[a].nodes
AccountsOf(c) == {a \in Accounts : account[a] # NoRow /\ account[a].owner = c}
NodesOfCustomer(c) == UNION {NodesOf(a) : a \in AccountsOf(c)}

\* CreateProxyAccount and UpdateProxyAccount: the row and its bindings in one
\* transaction, the customer and every bound node existing.  A PATCH may give the
\* account to another customer.
SaveAccount(a) ==
    /\ \E row \in AccountRow :
          /\ row # account[a] /\ customer[row.owner] # NoRow
          /\ \A n \in row.nodes : node[n] # NoRow
          /\ Event(NodesOf(a) \cup row.nodes)
          /\ account' = [account EXCEPT ![a] = row]
    /\ UNCHANGED <<customer, node, xray, late, runVars, patch, faults>>

DeleteAccount(a) ==
    /\ Event(NodesOf(a))
    /\ account[a] # NoRow
    /\ account' = [account EXCEPT ![a] = NoRow]
    /\ UNCHANGED <<customer, node, xray, late, runVars, patch, faults>>

SaveCustomer(c) ==
    /\ Event(NodesOfCustomer(c))
    /\ \E row \in CustomerRow : row # customer[c] /\ customer' = [customer EXCEPT ![c] = row]
    /\ UNCHANGED <<account, node, xray, late, runVars, patch, faults>>

\* DELETE /admin/customers/{id}; the accounts and their bindings go with the row.
DeleteCustomer(c) ==
    /\ Event(NodesOfCustomer(c))
    /\ customer[c] # NoRow
    /\ customer' = [customer EXCEPT ![c] = NoRow]
    /\ account' = [a \in Accounts |-> IF a \in AccountsOf(c) THEN NoRow ELSE account[a]]
    /\ UNCHANGED <<node, xray, late, runVars, patch, faults>>

\* POST /admin/nodes or /admin/nodes/sync: the row becomes the request's, whose
\* runtime-sync columns are empty.
UpsertNode(n) ==
    /\ Event({})
    /\ \E l \in BOOLEAN, x \in Addresses : node' = [node EXCEPT ![n] = NewRow(l, x)]
    /\ UNCHANGED <<account, customer, xray, late, runVars, patch, faults>>

\* PATCH /admin/nodes/{id} reads the row...
PatchRead(n) ==
    /\ patch[n] = NoRow /\ node[n] # NoRow
    /\ patch' = [patch EXCEPT ![n] = node[n]]
    /\ UNCHANGED <<dbVars, xray, late, runVars, envVars, faults>>

\* The fields of a PATCH: any column but the runtime-sync ones, the address too.
Patched(row, l, x) == [row EXCEPT !.listed = l, !.api = x]

\* ...and saves all its columns, the runtime-sync ones as it read them: the stamp
\* of a run on the old address stays with a new one.  The Save of a row deleted
\* since UpdateProxyNode looked for it inserts it again.
PatchSave(n) ==
    /\ Event({})
    /\ patch[n] # NoRow
    /\ \E l \in BOOLEAN, x \in Addresses :
          node' = [node EXCEPT ![n] = Patched(patch[n], l, x)]
    /\ patch' = [patch EXCEPT ![n] = NoRow]
    /\ UNCHANGED <<account, customer, xray, late, runVars, faults>>

\* The request is refused, or finds the row gone.
PatchGivesUp(n) ==
    /\ patch[n] # NoRow
    /\ patch' = [patch EXCEPT ![n] = NoRow]
    /\ UNCHANGED <<dbVars, xray, late, runVars, envVars, faults>>

\* DELETE /admin/nodes/{id}; the bindings go with the row.
DeleteNode(n) ==
    /\ Event({n})
    /\ node[n] # NoRow
    /\ node' = [node EXCEPT ![n] = NoRow]
    /\ account' = [a \in Accounts |->
                     IF account[a] = NoRow THEN NoRow
                     ELSE [account[a] EXCEPT !.nodes = @ \ {n}]]
    /\ UNCHANGED <<customer, xray, late, runVars, patch, faults>>

\* Time passes, and accounts or customers may expire.
Tick ==
    /\ Event({})
    /\ UNCHANGED <<dbVars, xray, late, runVars, patch, faults>>

RestartXray(n, x) ==
    /\ Event({n})
    /\ xray[n][x] # BootUsers
    /\ xray' = [xray EXCEPT ![n][x] = BootUsers]
    /\ UNCHANGED <<dbVars, late, runVars, patch, faults>>

\* A call given up by the syncer reaches the instance after all, or never does.
LateArrives(m) ==
    /\ Event({m.node})
    /\ m \in late
    /\ late' = late \ {m}
    /\ xray' = [xray EXCEPT ![m.node][m.at] = Altered(@, m.user, m.value)]
    /\ UNCHANGED <<dbVars, runVars, patch, faults>>
LateLost(m) ==
    /\ m \in late
    /\ late' = late \ {m}
    /\ UNCHANGED <<dbVars, xray, runVars, patch, envVars, faults>>

PatchStep(n) == PatchSave(n) \/ PatchGivesUp(n)
LateStep == \E m \in late : LateArrives(m) \/ LateLost(m)

Environment ==
    \/ \E a \in Accounts : SaveAccount(a) \/ DeleteAccount(a)
    \/ \E c \in Customers : SaveCustomer(c) \/ DeleteCustomer(c)
    \/ \E n \in Nodes : \/ UpsertNode(n) \/ PatchRead(n) \/ PatchStep(n)
                        \/ DeleteNode(n)
                        \/ \E x \in Addresses : RestartXray(n, x)
    \/ Tick
    \/ LateStep

Next ==
    \/ RoundStart
    \/ \E n \in Nodes : SyncStep(n) \/ Deadline(n)
    \/ Crash
    \/ Environment

Spec == Init /\ [][Next]_vars

\* The ticker of Run fires and goroutines run; a request that has read a row
\* ends, and a call in the network arrives or is lost.  Administrators, time and
\* faults are not fair.
Fairness ==
    /\ WF_vars(RoundStart)
    /\ \A n \in Nodes : WF_vars(SyncStep(n)) /\ WF_vars(PatchStep(n))
    /\ WF_vars(LateStep)
FairSpec == Spec /\ Fairness

(***************************************************************************)
(* Properties.                                                             *)
(***************************************************************************)
Quiet(n) == touched[n] <= now[n]

\* What last_runtime_sync_at can be read as: if nothing the target depends on has
\* been written or has expired since that time, and the inbounds were left alone,
\* the inbound its run was given serves exactly the target, whatever run, failed
\* run, PATCH or upsert has happened since (SyncNode passes the time it took before
\* reading the target, not the time of the mark).  That inbound is the one the row
\* names unless a PATCH has changed the address since the round listed the row:
\* syncAll keeps the struct it listed, and no write of an address clears the stamp.
SyncedSince ==
    \A n \in Nodes :
        (node[n] # NoRow /\ node[n].lastSync >= touched[n])
            => Managed(xray[n][node[n].of]) = Target(n, clock)

\* Users of config.json are served at all times, whatever the syncer, a late
\* call or a restart does: managedUsers keeps their emails out of the diff.
StaticUntouched ==
    \A n \in Nodes, x \in Addresses, s \in Statics : xray[n][x][s] = StaticIdent

\* At most Concurrency nodes are being synchronised, across rounds and crashes.
WithinConcurrency == Cardinality({n \in Nodes : Running(n)}) <= Concurrency

\* A run whose target and instance nobody touched since it began is never
\* refused a removal or an addition: removals come first, and neither repeats
\* what is done, so that its only failures are those of the network.
NoRefusal ==
    [][\A n \in Nodes :
          (pc[n] = "apply" /\ pc'[n] = "mark_err" /\ faults' = faults /\ ctx[n] = "live")
              => ~Quiet(n)]_vars

\* Once administrators, time and faults leave a registered node alone, the inbound
\* its row names comes to serve the target for good, with a mark of its own and
\* without an error, whatever was left behind by failed runs, late calls, stale
\* PATCHes, restarts and runs on an address the row no longer has.
EventuallySynced ==
    \A n \in Nodes :
        <>[](Listed(n) => /\ Managed(xray[n][node[n].api]) = Target(n, clock)
                          /\ node[n].lastSync >= touched[n] /\ node[n].of = node[n].api
                          /\ ~node[n].err)

(***************************************************************************)
(* Why SyncedSince holds: what a run knows in each phase while its node is *)
(* quiet, and what every copy of a row's last_runtime_sync_at stands for.  *)
(***************************************************************************)
Converged(n, x) == Managed(xray[n][x]) = Target(n, clock)

\* Users still to remove are served and wrong; users to add and not to remove are
\* absent; all others are served as the target says.
Progress(n) ==
    \A a \in Accounts :
        /\ a \in del[n] => Given(n)[a] # NoUser /\ Given(n)[a] # snap[n][a]
        /\ a \in add[n] => snap[n][a] # NoUser
        /\ a \in add[n] \ del[n] => Given(n)[a] = NoUser
        /\ a \in del[n] \ add[n] => snap[n][a] = NoUser
        /\ a \notin del[n] \cup add[n] => Given(n)[a] = snap[n][a]

RunKnows(n) ==
    Quiet(n) =>
        /\ pc[n] = "target" => Target(n, now[n]) = Target(n, clock)
        /\ pc[n] \in {"list", "apply"} => snap[n] = Target(n, clock)
        /\ pc[n] = "apply" => Progress(n)
        /\ pc[n] = "mark_ok" => Converged(n, at[n])

StampMeans(n, row) ==
    row # NoRow => /\ row.lastSync <= now[n]
                   /\ row.lastSync >= touched[n] => Converged(n, row.of)

\* The inductive invariant: the rows in the table and the copies PATCH requests
\* hold carry stamps no later than the last run began, each meaning convergence
\* of its inbound if nothing happened since, and every run knows what its phase says.
SyncInv ==
    /\ \A n \in Nodes : now[n] <= clock /\ touched[n] <= clock
    /\ \A n \in Nodes : RunKnows(n)
    /\ \A n \in Nodes : StampMeans(n, node[n]) /\ StampMeans(n, patch[n])

\* The syncer implements Reconcile: while nothing touches a node, no step of a
\* run interrupts a user who is served as the target says, serves one the target
\* does not have, or changes more than one user (sync.go:167-191).
R == INSTANCE Reconcile WITH
        want <- [n \in Nodes |-> Target(n, clock)],
        have <- [n \in Nodes |-> [x \in Addresses |-> Managed(xray[n][x])]],
        loose <- {n \in Nodes : touched[n] > now[n]}
Reconciles == R!Spec

\* The users of an inbound of n who are served otherwise than the target says, and
\* those of them who are served at all.
Wrong(n, x) == {a \in Accounts : Managed(xray[n][x])[a] # Target(n, clock)[a]}
Served(n, x) == {a \in Wrong(n, x) : Managed(xray[n][x])[a] # NoUser}
Left(n, x) == Cardinality(Wrong(n, x)) + Cardinality(Served(n, x))

\* Every user a run moves on a node nothing touches leaves less to do: the calls
\* of undisturbed runs come to an end, after at most two for each user and inbound.
Settles ==
    [][\A n \in Nodes, x \in Addresses :
          (Quiet(n) /\ Quiet(n)' /\ Managed(xray[n][x])' # Managed(xray[n][x]))
              => Target(n, clock)' = Target(n, clock) /\ Left(n, x)' < Left(n, x)]_vars
=============================================================================
