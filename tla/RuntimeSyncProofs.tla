-------------------------- MODULE RuntimeSyncProofs --------------------------
(***************************************************************************)
(* Proofs about RuntimeSync for every set of nodes, accounts and           *)
(* identities and every bound: type correctness, the meaning of            *)
(* last_runtime_sync_at, the safety of static users, and that the syncer   *)
(* implements Reconcile.                                                   *)
(***************************************************************************)
EXTENDS RuntimeSync, FiniteSetTheorems, TLAPS

LEMMA InitTypeOK == Init => TypeOK
<1> SUFFICES ASSUME Init PROVE TypeOK
  OBVIOUS
<1>1. BootUsers \in Inbound
  BY SyncAssumption DEF BootUsers, Inbound, Users
<1>2. NoUsers \in View
  BY DEF NoUsers, View
<1>3. customer \in [Customers -> CustomerRow \cup {NoRow}]
  BY SyncAssumption DEF Init, CustomerRow
<1>4. node \in [Nodes -> NodeRow \cup {NoRow}]
  BY SyncAssumption DEF Init, NewRow, NodeRow
<1>5. account \in [Accounts -> AccountRow \cup {NoRow}]
  BY SyncAssumption DEF Init
<1>6. /\ xray \in [Nodes -> [Addresses -> Inbound]] /\ snap \in [Nodes -> View]
      /\ late \in SUBSET Message
  BY <1>1, <1>2 DEF Init
<1>7. /\ pc \in [Nodes -> Phases] /\ ctx \in [Nodes -> {"live", "expired"}]
      /\ del \in [Nodes -> SUBSET Accounts] /\ add \in [Nodes -> SUBSET Accounts]
      /\ patch \in [Nodes -> NodeRow \cup {NoRow}] /\ at \in [Nodes -> Addresses]
  BY SyncAssumption DEF Init, Phases
<1>8. /\ clock \in Times /\ faults \in 0 .. MaxFaults
      /\ now \in [Nodes -> Times] /\ touched \in [Nodes -> Times]
  BY SyncAssumption DEF Init, Times
<1> QED
  BY <1>3, <1>4, <1>5, <1>6, <1>7, <1>8 DEF TypeOK

\* What the target and the instance deliver has the right type.
LEMMA TargetType ==
    ASSUME TypeOK, NEW n, NEW t
    PROVE  Target(n, t) \in View
<1>1. ASSUME NEW a \in Accounts, Entitled(a, n, t)
      PROVE  account[a].ident \in Idents
  BY <1>1 DEF TypeOK, Entitled, AccountRow
<1> QED
  BY <1>1 DEF Target, View

LEMMA AlteredType ==
    ASSUME NEW inbound \in Inbound, NEW u \in Users, NEW v \in Idents \cup {NoUser}
    PROVE  Altered(inbound, u, v) \in Inbound
BY DEF Altered, Inbound

LEMMA ManagedType ==
    ASSUME NEW inbound \in Inbound
    PROVE  Managed(inbound) \in View
BY DEF Managed, Inbound, View, Users

LEMMA EventType ==
    ASSUME TypeOK, NEW S, Event(S)
    PROVE  /\ clock' \in Times
           /\ touched' \in [Nodes -> Times]
           /\ clock' = clock + 1
BY SyncAssumption DEF Event, TypeOK, Times

LEMMA NextCallType ==
    ASSUME TypeOK, NEW n \in Nodes, NEW a \in Accounts
    PROVE  NextCall(n, a) \in Message
BY DEF NextCall, Message, TypeOK, View

\* The calls of a run are about managed users: nothing else is in del and add.
LEMMA ManagedCall ==
    ASSUME TypeOK, NEW n \in Nodes, NEW a \in Users,
           RemoveUser(n, a) \/ AddUser(n, a) \/ CallFails(n, a)
    PROVE  a \in Accounts
BY DEF RemoveUser, AddUser, CallFails, TypeOK

\* What becomes of the inbounds when a call alters or a restart empties one.
Put(n, x, e) == [xray EXCEPT ![n][x] = e]
LEMMA InboundAltered ==
    ASSUME TypeOK, NEW n \in Nodes, NEW x \in Addresses, NEW e, xray' = Put(n, x, e)
    PROVE  /\ xray'[n][x] = e
           /\ \A y \in Addresses \ {x} : xray'[n][y] = xray[n][y]
           /\ \A m \in Nodes \ {n} : xray'[m] = xray[m]
           /\ e \in Inbound => xray' \in [Nodes -> [Addresses -> Inbound]]
           /\ e = xray[n][x] => xray' = xray
<1>1. xray \in [Nodes -> [Addresses -> Inbound]]
  BY DEF TypeOK
<1>2. xray' = [xray EXCEPT ![n] = [xray[n] EXCEPT ![x] = e]]
  BY DEF Put
<1>3. xray[n] \in [Addresses -> Inbound]
  BY <1>1
<1>4. e = xray[n][x] => [xray[n] EXCEPT ![x] = e] = xray[n]
  BY <1>3
<1> QED
  BY <1>1, <1>2, <1>3, <1>4

LEMMA GivenType ==
    ASSUME TypeOK, NEW n \in Nodes
    PROVE  /\ at[n] \in Addresses /\ Given(n) = xray[n][at[n]] /\ Given(n) \in Inbound
BY DEF TypeOK, Given

\* The rows that upserts, PATCHes and marks write.
LEMMA NewRowType ==
    ASSUME NEW l \in BOOLEAN, NEW x \in Addresses
    PROVE  NewRow(l, x) \in NodeRow /\ NewRow(l, x).lastSync = Never
BY DEF NewRow, NodeRow

LEMMA PatchedType ==
    ASSUME NEW row \in NodeRow, NEW l \in BOOLEAN, NEW x \in Addresses
    PROVE  /\ Patched(row, l, x) \in NodeRow
           /\ Patched(row, l, x).lastSync = row.lastSync /\ Patched(row, l, x).of = row.of
<1>1. Patched(row, l, x) \in NodeRow
  BY DEF Patched, NodeRow
<1>2. Patched(row, l, x).lastSync = row.lastSync
  BY DEF Patched, NodeRow
<1>3. Patched(row, l, x).of = row.of
  BY DEF Patched, NodeRow
<1> QED
  BY <1>1, <1>2, <1>3

Marked(row, t, x) == [row EXCEPT !.lastSync = t, !.err = FALSE, !.of = x]
Failed(row) == [row EXCEPT !.err = TRUE]
LEMMA MarkedType ==
    ASSUME NEW row \in NodeRow, NEW t \in Times, NEW x \in Addresses
    PROVE  /\ Marked(row, t, x) \in NodeRow
           /\ Marked(row, t, x).lastSync = t /\ Marked(row, t, x).of = x
BY DEF Marked, NodeRow

LEMMA FailedType ==
    ASSUME NEW row \in NodeRow
    PROVE  /\ Failed(row) \in NodeRow
           /\ Failed(row).lastSync = row.lastSync /\ Failed(row).of = row.of
BY DEF Failed, NodeRow

LEMMA UnboundType ==
    ASSUME NEW row \in AccountRow, NEW n
    PROVE  [row EXCEPT !.nodes = @ \ {n}] \in AccountRow
BY DEF AccountRow

\* Every step keeps the types.
LEMMA SyncStepTypeOK ==
    ASSUME TypeOK, NEW n \in Nodes, SyncStep(n)
    PROVE  TypeOK'
<1> USE DEF dbVars, envVars, Goto, Leave, Finish
<1>u. NoUsers \in View
  BY DEF NoUsers, View
<1>1. CASE Acquire(n)
  BY <1>1 DEF Acquire, TypeOK, Phases
<1>2. CASE ReadTarget(n)
  BY <1>2, TargetType DEF ReadTarget, TypeOK, Phases
<1>3. CASE ListUsers(n)
  BY <1>3 DEF ListUsers, ToRemove, ToAdd, TypeOK, Phases
<1>4. ASSUME NEW a \in Accounts, RemoveUser(n, a)
      PROVE  TypeOK'
  <2>1. Altered(Given(n), a, NoUser) \in Inbound
    BY GivenType, AlteredType DEF Users
  <2>2. xray' = Put(n, at[n], Altered(Given(n), a, NoUser))
    BY <1>4 DEF RemoveUser, Put, Given
  <2>3. xray' \in [Nodes -> [Addresses -> Inbound]]
    BY <2>1, <2>2, GivenType, InboundAltered
  <2>4. /\ pc' \in [Nodes -> Phases] /\ snap' \in [Nodes -> View]
        /\ del' \in [Nodes -> SUBSET Accounts] /\ add' \in [Nodes -> SUBSET Accounts]
    <3>1. \/ UNCHANGED <<pc, snap, add>> /\ del' = [del EXCEPT ![n] = @ \ {a}]
          \/ /\ pc' = [pc EXCEPT ![n] = "mark_err"] /\ snap' = [snap EXCEPT ![n] = NoUsers]
             /\ del' = [del EXCEPT ![n] = {}] /\ add' = [add EXCEPT ![n] = {}]
      BY <1>4 DEF RemoveUser
    <3>2. pc \in [Nodes -> Phases] /\ snap \in [Nodes -> View]
      BY DEF TypeOK
    <3>3. del \in [Nodes -> SUBSET Accounts] /\ add \in [Nodes -> SUBSET Accounts]
      BY DEF TypeOK
    <3>4. pc' \in [Nodes -> Phases]
      BY <3>1, <3>2 DEF Phases
    <3>5. snap' \in [Nodes -> View]
      BY <3>1, <3>2, <1>u
    <3>6. del' \in [Nodes -> SUBSET Accounts] /\ add' \in [Nodes -> SUBSET Accounts]
      BY <3>1, <3>3
    <3> QED BY <3>4, <3>5, <3>6
  <2>5. UNCHANGED <<dbVars, late, at, now, ctx, patch, envVars, faults>>
    BY <1>4 DEF RemoveUser
  <2> QED
    BY <2>3, <2>4, <2>5 DEF TypeOK
<1>5. ASSUME NEW a \in Accounts, AddUser(n, a)
      PROVE  TypeOK'
  <2>1. snap[n][a] \in Idents \cup {NoUser}
    BY DEF TypeOK, View
  <2>2. Altered(Given(n), a, snap[n][a]) \in Inbound
    BY GivenType, AlteredType, <2>1 DEF Users
  <2>3. xray' = Put(n, at[n], Altered(Given(n), a, snap[n][a]))
    BY <1>5 DEF AddUser, Put, Given
  <2>4. xray' \in [Nodes -> [Addresses -> Inbound]]
    BY <2>2, <2>3, GivenType, InboundAltered
  <2>5. /\ pc' \in [Nodes -> Phases] /\ snap' \in [Nodes -> View]
        /\ del' \in [Nodes -> SUBSET Accounts] /\ add' \in [Nodes -> SUBSET Accounts]
    <3>1. \/ UNCHANGED <<pc, snap, del>> /\ add' = [add EXCEPT ![n] = @ \ {a}]
          \/ /\ pc' = [pc EXCEPT ![n] = "mark_err"] /\ snap' = [snap EXCEPT ![n] = NoUsers]
             /\ del' = [del EXCEPT ![n] = {}] /\ add' = [add EXCEPT ![n] = {}]
      BY <1>5 DEF AddUser
    <3>2. pc \in [Nodes -> Phases] /\ snap \in [Nodes -> View]
      BY DEF TypeOK
    <3>3. del \in [Nodes -> SUBSET Accounts] /\ add \in [Nodes -> SUBSET Accounts]
      BY DEF TypeOK
    <3>4. pc' \in [Nodes -> Phases]
      BY <3>1, <3>2 DEF Phases
    <3>5. snap' \in [Nodes -> View]
      BY <3>1, <3>2, <1>u
    <3>6. del' \in [Nodes -> SUBSET Accounts] /\ add' \in [Nodes -> SUBSET Accounts]
      BY <3>1, <3>3
    <3> QED BY <3>4, <3>5, <3>6
  <2>6. UNCHANGED <<dbVars, late, at, now, ctx, patch, envVars, faults>>
    BY <1>5 DEF AddUser
  <2> QED
    BY <2>4, <2>5, <2>6 DEF TypeOK
<1>6. ASSUME NEW a \in Accounts, CallFails(n, a)
      PROVE  TypeOK'
  <2>1. NextCall(n, a) \in Message /\ NextCall(n, a).value \in Idents \cup {NoUser}
    BY NextCallType DEF Message
  <2>2. Altered(Given(n), a, NextCall(n, a).value) \in Inbound
    BY GivenType, AlteredType, <2>1 DEF Users
  <2>3. faults' \in 0 .. MaxFaults
    BY <1>6, SyncAssumption DEF CallFails, FailsNow, TypeOK
  <2>c. \/ xray' = xray
        \/ xray' = Put(n, at[n], Altered(Given(n), a, NextCall(n, a).value))
    BY <1>6 DEF CallFails, Put, Given
  <2>x. xray' \in [Nodes -> [Addresses -> Inbound]]
    BY <2>c, <2>2, GivenType, InboundAltered DEF TypeOK
  <2>4. xray' \in [Nodes -> [Addresses -> Inbound]] /\ late' \in SUBSET Message
    BY <1>6, <2>1, <2>x DEF CallFails, TypeOK
  <2> QED
    BY <1>6, <1>u, <2>3, <2>4 DEF CallFails, TypeOK, Phases
<1>7. CASE Applied(n)
  BY <1>7, <1>u DEF Applied, TypeOK, Phases
<1>8. CASE ReadFails(n)
  BY <1>8, <1>u, SyncAssumption DEF ReadFails, FailsNow, TypeOK, Phases
<1>9. CASE MarkOk(n)
  <2>r. node' = [node EXCEPT ![n] = IF node[n] = NoRow THEN NoRow
                                    ELSE Marked(node[n], now[n], at[n])]
    BY <1>9 DEF MarkOk, Marked
  <2>1. node' \in [Nodes -> NodeRow \cup {NoRow}]
    BY <2>r, MarkedType DEF TypeOK
  <2> QED
    BY <1>9, <2>1 DEF MarkOk, TypeOK, Phases
<1>10. CASE MarkError(n)
  <2>r. node' = [node EXCEPT ![n] = IF node[n] = NoRow THEN NoRow ELSE Failed(node[n])]
    BY <1>10 DEF MarkError, Failed
  <2>1. node' \in [Nodes -> NodeRow \cup {NoRow}]
    BY <2>r, FailedType DEF TypeOK
  <2> QED
    BY <1>10, <2>1 DEF MarkError, TypeOK, Phases
<1>11. CASE MarkFails(n)
  BY <1>11, SyncAssumption DEF MarkFails, FailsNow, TypeOK, Phases
<1> QED
  BY <1>1, <1>2, <1>3, <1>4, <1>5, <1>6, <1>7, <1>8, <1>9, <1>10, <1>11, ManagedCall
  DEF SyncStep

LEMMA EnvironmentTypeOK ==
    ASSUME TypeOK, Environment
    PROVE  TypeOK'
<1> USE DEF dbVars, runVars, envVars
<1>1. ASSUME NEW a \in Accounts, SaveAccount(a)
      PROVE  TypeOK'
  <2>1. account' \in [Accounts -> AccountRow \cup {NoRow}]
    BY <1>1 DEF SaveAccount, TypeOK
  <2>2. clock' \in Times /\ touched' \in [Nodes -> Times]
    BY <1>1, EventType DEF SaveAccount
  <2> QED
    BY <1>1, <2>1, <2>2 DEF SaveAccount, TypeOK
<1>2. ASSUME NEW a \in Accounts, DeleteAccount(a)
      PROVE  TypeOK'
  <2>1. clock' \in Times /\ touched' \in [Nodes -> Times]
    BY <1>2, EventType DEF DeleteAccount
  <2> QED
    BY <1>2, <2>1 DEF DeleteAccount, TypeOK
<1>3. ASSUME NEW c \in Customers, SaveCustomer(c)
      PROVE  TypeOK'
  <2>1. clock' \in Times /\ touched' \in [Nodes -> Times]
    BY <1>3, EventType DEF SaveCustomer
  <2> QED
    BY <1>3, <2>1 DEF SaveCustomer, TypeOK
<1>d. ASSUME NEW c \in Customers, DeleteCustomer(c)
      PROVE  TypeOK'
  <2>1. clock' \in Times /\ touched' \in [Nodes -> Times]
    BY <1>d, EventType DEF DeleteCustomer
  <2>2. account' \in [Accounts -> AccountRow \cup {NoRow}]
    BY <1>d DEF DeleteCustomer, TypeOK
  <2> QED
    BY <1>d, <2>1, <2>2 DEF DeleteCustomer, TypeOK
<1>4. ASSUME NEW n \in Nodes, UpsertNode(n)
      PROVE  TypeOK'
  <2>1. clock' \in Times /\ touched' \in [Nodes -> Times]
    BY <1>4, EventType DEF UpsertNode
  <2>2. node' \in [Nodes -> NodeRow \cup {NoRow}]
    BY <1>4, NewRowType DEF UpsertNode, TypeOK
  <2> QED
    BY <1>4, <2>1, <2>2 DEF UpsertNode, TypeOK
<1>5. ASSUME NEW n \in Nodes, PatchRead(n)
      PROVE  TypeOK'
  BY <1>5 DEF PatchRead, TypeOK
<1>6. ASSUME NEW n \in Nodes, PatchSave(n)
      PROVE  TypeOK'
  <2>1. clock' \in Times /\ touched' \in [Nodes -> Times]
    BY <1>6, EventType DEF PatchSave
  <2>2. patch[n] \in NodeRow
    BY <1>6 DEF PatchSave, TypeOK
  <2>3. node' \in [Nodes -> NodeRow \cup {NoRow}]
    BY <1>6, <2>2, PatchedType DEF PatchSave, TypeOK
  <2> QED
    BY <1>6, <2>1, <2>3 DEF PatchSave, TypeOK
<1>7. ASSUME NEW n \in Nodes, PatchGivesUp(n)
      PROVE  TypeOK'
  BY <1>7 DEF PatchGivesUp, TypeOK
<1>8. ASSUME NEW n \in Nodes, DeleteNode(n)
      PROVE  TypeOK'
  <2>1. clock' \in Times /\ touched' \in [Nodes -> Times]
    BY <1>8, EventType DEF DeleteNode
  <2>2. account' \in [Accounts -> AccountRow \cup {NoRow}]
    BY <1>8, UnboundType DEF DeleteNode, TypeOK
  <2>3. node' \in [Nodes -> NodeRow \cup {NoRow}]
    BY <1>8 DEF DeleteNode, TypeOK
  <2> QED
    BY <1>8, <2>1, <2>2, <2>3 DEF DeleteNode, TypeOK
<1>9. ASSUME NEW n \in Nodes, NEW x \in Addresses, RestartXray(n, x)
      PROVE  TypeOK'
  <2>1. clock' \in Times /\ touched' \in [Nodes -> Times]
    BY <1>9, EventType DEF RestartXray
  <2>2. BootUsers \in Inbound
    BY SyncAssumption DEF BootUsers, Inbound, Users
  <2>3. xray' \in [Nodes -> [Addresses -> Inbound]]
    BY <1>9, <2>2, InboundAltered DEF RestartXray, Put
  <2> QED
    BY <1>9, <2>1, <2>3 DEF RestartXray, TypeOK
<1>10. CASE Tick
  <2>1. clock' \in Times /\ touched' \in [Nodes -> Times]
    BY <1>10, EventType DEF Tick
  <2> QED
    BY <1>10, <2>1 DEF Tick, TypeOK
<1>11. ASSUME NEW m \in late, LateArrives(m)
       PROVE  TypeOK'
  <2>1. clock' \in Times /\ touched' \in [Nodes -> Times]
    BY <1>11, EventType DEF LateArrives
  <2>2. m \in Message
    BY DEF TypeOK
  <2>3. Altered(xray[m.node][m.at], m.user, m.value) \in Inbound
    BY <2>2, AlteredType DEF TypeOK, Message, Users
  <2>4. m.node \in Nodes /\ m.at \in Addresses
    BY <2>2 DEF Message
  <2>5. xray' = Put(m.node, m.at, Altered(xray[m.node][m.at], m.user, m.value))
    BY <1>11 DEF LateArrives, Put
  <2>6. xray' \in [Nodes -> [Addresses -> Inbound]]
    BY <2>3, <2>4, <2>5, InboundAltered
  <2> QED
    BY <1>11, <2>1, <2>6 DEF LateArrives, TypeOK
<1>12. ASSUME NEW m \in late, LateLost(m)
       PROVE  TypeOK'
  BY <1>12 DEF LateLost, TypeOK
<1> QED
  BY <1>1, <1>2, <1>3, <1>d, <1>4, <1>5, <1>6, <1>7, <1>8, <1>9, <1>10, <1>11, <1>12
     DEF Environment, PatchStep, LateStep

LEMMA NextTypeOK == TypeOK /\ [Next]_vars => TypeOK'
<1> SUFFICES ASSUME TypeOK, [Next]_vars PROVE TypeOK'
  OBVIOUS
<1> USE DEF dbVars, runVars, envVars
<1>u. NoUsers \in View
  BY DEF NoUsers, View
<1>1. CASE RoundStart
  <2>1. at' \in [Nodes -> Addresses]
    BY <1>1 DEF RoundStart, TypeOK, Listed, NodeRow
  <2> QED
    BY <1>1, <2>1 DEF RoundStart, TypeOK, Phases
<1>2. ASSUME NEW n \in Nodes, SyncStep(n)
      PROVE  TypeOK'
  BY <1>2, SyncStepTypeOK
<1>3. ASSUME NEW n \in Nodes, Deadline(n)
      PROVE  TypeOK'
  BY <1>3, SyncAssumption DEF Deadline, TypeOK
<1>4. CASE Crash
  BY <1>4, <1>u, SyncAssumption DEF Crash, TypeOK, Phases
<1>5. CASE Environment
  BY <1>5, EnvironmentTypeOK
<1>6. CASE UNCHANGED vars
  BY <1>6 DEF vars, TypeOK
<1> QED
  BY <1>1, <1>2, <1>3, <1>4, <1>5, <1>6 DEF Next

\* Every reachable state has the declared types: the rows, the instances, the
\* runs and the bounded counters (all actions of RuntimeSync).
THEOREM TypeCorrect == Spec => []TypeOK
BY InitTypeOK, NextTypeOK, PTL DEF Spec
-----------------------------------------------------------------------------
(***************************************************************************)
(* The inductive invariant.                                                *)
(***************************************************************************)

\* A step writes no row the target of n is computed from.
RowsKept(n) ==
    \A a \in Accounts :
        \/ /\ n \in NodesOf(a) /\ n \in NodesOf(a)'
           /\ account'[a].ident = account[a].ident
           /\ account'[a].enabled = account[a].enabled
           /\ account'[a].expires = account[a].expires
           /\ customer'[account'[a].owner] = customer[account[a].owner]
        \/ n \notin NodesOf(a) /\ n \notin NodesOf(a)'

\* A stamp in a row written by a step: copied from the table or from a PATCH, with
\* the inbound it is about.
Copied(n, row) ==
    \/ row = NoRow
    \/ row.lastSync = Never
    \/ node[n] # NoRow /\ row.lastSync = node[n].lastSync /\ row.of = node[n].of
    \/ patch[n] # NoRow /\ row.lastSync = patch[n].lastSync /\ row.of = patch[n].of

LEMMA InitSyncInv == Init => SyncInv
<1> SUFFICES ASSUME Init, NEW n \in Nodes
             PROVE  /\ now[n] <= clock /\ touched[n] <= clock
                    /\ RunKnows(n)
                    /\ StampMeans(n, node[n]) /\ StampMeans(n, patch[n])
  BY DEF SyncInv
<1>1. now[n] = 0 /\ touched[n] = 0 /\ clock = 0 /\ pc[n] = "idle" /\ patch[n] = NoRow
  BY DEF Init
<1>2. node[n].lastSync = -1
  BY DEF Init, NewRow, Never
<1> QED
  BY <1>1, <1>2 DEF RunKnows, StampMeans

\* An event keeps what is known of a node whose rows and inbounds it leaves alone.
LEMMA EventKeepsTarget ==
    ASSUME TypeOK, NEW S, Event(S), NEW n \in Nodes, n \notin S \cup Expiring, RowsKept(n),
           now' = now
    PROVE  /\ Target(n, clock)' = Target(n, clock)
           /\ Target(n, now[n])' = Target(n, now[n])
           /\ touched'[n] = touched[n]
<1>1. clock' = clock + 1 /\ touched'[n] = touched[n]
  BY DEF Event, TypeOK
<1>2. Target(n, clock + 1) = Target(n, clock)
  BY DEF Expiring
<1>3. Target(n, clock)' = Target(n, clock + 1)
  <2>1. ASSUME NEW a \in Accounts
        PROVE  /\ Entitled(a, n, clock)' <=> Entitled(a, n, clock + 1)
               /\ Entitled(a, n, clock)' => account'[a].ident = account[a].ident
    BY <1>1 DEF RowsKept, Entitled, NodesOf
  <2> QED
    BY <2>1 DEF Target
<1>4. Target(n, now[n])' = Target(n, now[n])
  <2>1. ASSUME NEW a \in Accounts
        PROVE  /\ Entitled(a, n, now[n])' <=> Entitled(a, n, now[n])
               /\ Entitled(a, n, now[n])' => account'[a].ident = account[a].ident
    BY DEF RowsKept, Entitled, NodesOf
  <2> QED
    BY <2>1 DEF Target
<1> QED
  BY <1>1, <1>2, <1>3, <1>4

LEMMA EventInv ==
    ASSUME TypeOK, SyncInv, NEW S, Event(S), UNCHANGED runVars,
           \A n \in Nodes : n \in S \/ (RowsKept(n) /\ xray'[n] = xray[n]),
           \A n \in Nodes : Copied(n, node'[n]) /\ Copied(n, patch'[n])
    PROVE  SyncInv'
<1> SUFFICES ASSUME NEW n \in Nodes
             PROVE  /\ now'[n] <= clock' /\ touched'[n] <= clock'
                    /\ RunKnows(n)'
                    /\ StampMeans(n, node[n])' /\ StampMeans(n, patch[n])'
  BY DEF SyncInv
<1>1. /\ clock \in Int /\ now[n] \in Int /\ touched[n] \in Int
      /\ now[n] >= 0 /\ touched[n] >= 0
      /\ node[n] # NoRow => node[n].lastSync \in Int
      /\ patch[n] # NoRow => patch[n].lastSync \in Int
  BY SyncAssumption DEF TypeOK, Times, NodeRow, Never
<1>2. /\ now' = now /\ pc' = pc /\ snap' = snap /\ del' = del /\ add' = add /\ at' = at
      /\ clock' = clock + 1
  BY DEF Event, runVars
<1>3. /\ now[n] <= clock /\ touched[n] <= clock
      /\ RunKnows(n) /\ StampMeans(n, node[n]) /\ StampMeans(n, patch[n])
  BY DEF SyncInv
<1>4. /\ node'[n] # NoRow => node'[n].lastSync \in Int /\ node'[n].lastSync <= now[n]
      /\ patch'[n] # NoRow => patch'[n].lastSync \in Int /\ patch'[n].lastSync <= now[n]
  BY <1>1, <1>3 DEF Copied, StampMeans, Never
<1>5. CASE n \in S \cup Expiring
  <2>1. touched'[n] = clock + 1
    BY <1>5 DEF Event
  <2>2. ~Quiet(n)'
    BY <2>1, <1>1, <1>2, <1>3 DEF Quiet
  <2> QED
    BY <2>1, <2>2, <1>1, <1>2, <1>3, <1>4 DEF RunKnows, StampMeans
<1>6. CASE n \notin S \cup Expiring
  <2>1. /\ Target(n, clock)' = Target(n, clock)
        /\ Target(n, now[n])' = Target(n, now[n])
        /\ touched'[n] = touched[n]
    BY <1>2, <1>6, EventKeepsTarget
  <2>2. xray'[n] = xray[n]
    BY <1>6
  <2>3. \A x : Converged(n, x)' <=> Converged(n, x)
    BY <2>1, <2>2 DEF Converged, Managed
  <2>4. Progress(n)' <=> Progress(n)
    BY <2>2, <1>2 DEF Progress, Given
  <2>5. RunKnows(n)'
    BY <1>2, <1>3, <2>1, <2>3, <2>4 DEF RunKnows, Quiet
  <2>6. ASSUME NEW row, Copied(n, row), row # NoRow, row.lastSync >= touched[n]
        PROVE  Converged(n, row.of)
    BY <2>6, <1>1, <1>3 DEF Copied, StampMeans, Never
  <2>7. StampMeans(n, node[n])' /\ StampMeans(n, patch[n])'
    BY <1>2, <1>4, <2>1, <2>3, <2>6 DEF StampMeans
  <2> QED
    BY <1>1, <1>2, <1>3, <2>1, <2>5, <2>7
<1> QED
  BY <1>5, <1>6

\* The nodes whose rows each event leaves alone.
LEMMA SaveKeeps ==
    ASSUME TypeOK, NEW a \in Accounts, SaveAccount(a), NEW row \in AccountRow,
           account' = [account EXCEPT ![a] = row],
           NEW n \in Nodes, n \notin NodesOf(a) \cup row.nodes
    PROVE  RowsKept(n)
<1>1. n \notin NodesOf(a) /\ n \notin NodesOf(a)'
  BY DEF NodesOf, TypeOK
<1> QED
  BY <1>1 DEF SaveAccount, RowsKept, TypeOK, NodesOf

LEMMA DeleteKeeps ==
    ASSUME TypeOK, NEW a \in Accounts, DeleteAccount(a), NEW n \in Nodes, n \notin NodesOf(a)
    PROVE  RowsKept(n)
<1>1. n \notin NodesOf(a)'
  BY DEF NodesOf, TypeOK, DeleteAccount
<1> QED
  BY <1>1 DEF DeleteAccount, RowsKept, TypeOK, NodesOf

LEMMA CustomerKeeps ==
    ASSUME TypeOK, NEW c \in Customers, SaveCustomer(c) \/ DeleteCustomer(c),
           NEW n \in Nodes, n \notin NodesOfCustomer(c)
    PROVE  RowsKept(n)
<1>1. ASSUME NEW a \in AccountsOf(c)
      PROVE  n \notin NodesOf(a) /\ n \notin NodesOf(a)'
  <2>1. n \notin NodesOf(a) /\ a \in Accounts
    BY DEF NodesOfCustomer, AccountsOf
  <2>2. account'[a] = account[a] \/ account'[a] = NoRow
    BY <2>1 DEF SaveCustomer, DeleteCustomer
  <2> QED
    BY <2>1, <2>2 DEF NodesOf
<1>2. ASSUME NEW a \in Accounts, a \notin AccountsOf(c), n \in NodesOf(a)
      PROVE  /\ account'[a] = account[a]
             /\ customer'[account[a].owner] = customer[account[a].owner]
  <2>1. account[a] \in AccountRow /\ account[a].owner # c
    BY <1>2 DEF NodesOf, AccountsOf, TypeOK
  <2>2. account[a].owner \in Customers
    BY <2>1 DEF AccountRow
  <2> QED
    BY <1>2, <2>1, <2>2 DEF SaveCustomer, DeleteCustomer, TypeOK
<1>3. ASSUME NEW a \in Accounts, a \notin AccountsOf(c)
      PROVE  NodesOf(a)' = NodesOf(a)
  BY <1>3 DEF SaveCustomer, DeleteCustomer, NodesOf
<1> QED
  BY <1>1, <1>2, <1>3 DEF RowsKept

LEMMA NodeKeeps ==
    ASSUME TypeOK, NEW n \in Nodes, DeleteNode(n), NEW m \in Nodes, m \notin {n}
    PROVE  RowsKept(m)
<1>1. ASSUME NEW a \in Accounts, account[a] # NoRow
      PROVE  /\ account'[a] = [account[a] EXCEPT !.nodes = @ \ {n}]
             /\ account[a] \in AccountRow /\ account'[a] \in AccountRow
  BY <1>1, UnboundType DEF DeleteNode, TypeOK
<1>2. ASSUME NEW a \in Accounts, account[a] # NoRow
      PROVE  /\ account'[a].ident = account[a].ident
             /\ account'[a].enabled = account[a].enabled
             /\ account'[a].expires = account[a].expires
             /\ account'[a].owner = account[a].owner
             /\ account'[a] # NoRow
             /\ m \in account'[a].nodes <=> m \in account[a].nodes
  <2>1. account'[a] # NoRow
    BY <1>1, <1>2, SyncAssumption
  <2>2. PICK r \in AccountRow : account[a] = r /\ account'[a] = [r EXCEPT !.nodes = @ \ {n}]
    BY <1>1, <1>2
  <2>3. /\ account'[a].ident = r.ident /\ account'[a].enabled = r.enabled
        /\ account'[a].expires = r.expires /\ account'[a].owner = r.owner
        /\ account'[a].nodes = r.nodes \ {n}
    BY <2>2 DEF AccountRow
  <2> QED
    BY <2>1, <2>2, <2>3
<1>3. ASSUME NEW a \in Accounts, account[a] = NoRow
      PROVE  account'[a] = NoRow
  BY <1>3 DEF DeleteNode
<1>4. customer' = customer
  BY DEF DeleteNode
<1>5. ASSUME NEW a \in Accounts
      PROVE  \/ /\ m \in NodesOf(a) /\ m \in NodesOf(a)'
                /\ account'[a].ident = account[a].ident
                /\ account'[a].enabled = account[a].enabled
                /\ account'[a].expires = account[a].expires
                /\ account'[a].owner = account[a].owner
             \/ m \notin NodesOf(a) /\ m \notin NodesOf(a)'
  <2>1. CASE account[a] = NoRow
    BY <2>1, <1>3 DEF NodesOf
  <2>2. CASE account[a] # NoRow
    BY <2>2, <1>2 DEF NodesOf
  <2> QED
    BY <2>1, <2>2
<1> QED
  BY <1>4, <1>5 DEF RowsKept

LEMMA EnvironmentInv ==
    ASSUME TypeOK, SyncInv, Environment
    PROVE  SyncInv'
<1> USE DEF dbVars, runVars
<1>c. \A n \in Nodes : Copied(n, node[n]) /\ Copied(n, patch[n])
  BY DEF Copied
<1>1. ASSUME NEW a \in Accounts, SaveAccount(a)
      PROVE  SyncInv'
  <2>1. PICK row \in AccountRow :
           /\ account' = [account EXCEPT ![a] = row]
           /\ Event(NodesOf(a) \cup row.nodes)
    BY <1>1 DEF SaveAccount
  <2>2. \A n \in Nodes : n \in NodesOf(a) \cup row.nodes \/ RowsKept(n)
    BY <1>1, <2>1, SaveKeeps
  <2> QED
    BY <1>1, <1>c, <2>1, <2>2, EventInv DEF SaveAccount
<1>2. ASSUME NEW a \in Accounts, DeleteAccount(a)
      PROVE  SyncInv'
  <2>2. \A n \in Nodes : n \in NodesOf(a) \/ RowsKept(n)
    BY <1>2, DeleteKeeps
  <2> QED
    BY <1>2, <1>c, <2>2, EventInv DEF DeleteAccount
<1>3. ASSUME NEW c \in Customers, SaveCustomer(c)
      PROVE  SyncInv'
  <2>1. \A n \in Nodes : n \in NodesOfCustomer(c) \/ RowsKept(n)
    BY <1>3, CustomerKeeps
  <2> QED
    BY <1>3, <1>c, <2>1, EventInv DEF SaveCustomer
<1>d. ASSUME NEW c \in Customers, DeleteCustomer(c)
      PROVE  SyncInv'
  <2>1. \A n \in Nodes : n \in NodesOfCustomer(c) \/ RowsKept(n)
    BY <1>d, CustomerKeeps
  <2> QED
    BY <1>d, <1>c, <2>1, EventInv DEF DeleteCustomer
<1>k. ASSUME UNCHANGED <<account, customer>>
      PROVE  \A n \in Nodes : RowsKept(n)
  BY <1>k DEF RowsKept, NodesOf
<1>4. ASSUME NEW n \in Nodes, UpsertNode(n)
      PROVE  SyncInv'
  <2>1. \A m \in Nodes : Copied(m, node'[m])
    BY <1>4, <1>c, NewRowType DEF UpsertNode, TypeOK, Copied
  <2> QED
    BY <1>4, <1>c, <1>k, <2>1, EventInv DEF UpsertNode
<1>5. ASSUME NEW n \in Nodes, PatchRead(n)
      PROVE  SyncInv'
  <2>1. \A m \in Nodes : patch'[m] = patch[m] \/ patch'[m] = node[m]
    BY <1>5 DEF PatchRead, TypeOK
  <2> QED
    BY <1>5, <2>1 DEF PatchRead, SyncInv, envVars, RunKnows, StampMeans, Converged,
                      Progress, Given, Quiet, Target, Entitled, Managed
<1>6. ASSUME NEW n \in Nodes, PatchSave(n)
      PROVE  SyncInv'
  <2>1. patch[n] \in NodeRow
    BY <1>6 DEF PatchSave, TypeOK
  <2>2. \A m \in Nodes : Copied(m, node'[m])
    BY <1>6, <1>c, <2>1, PatchedType DEF PatchSave, TypeOK, Copied
  <2>3. \A m \in Nodes : Copied(m, patch'[m])
    BY <1>6, <1>c DEF PatchSave, TypeOK, Copied
  <2> QED
    BY <1>6, <1>k, <2>2, <2>3, EventInv DEF PatchSave
<1>7. ASSUME NEW n \in Nodes, PatchGivesUp(n)
      PROVE  SyncInv'
  <2>1. \A m \in Nodes : patch'[m] = patch[m] \/ patch'[m] = NoRow
    BY <1>7 DEF PatchGivesUp, TypeOK
  <2> QED
    BY <1>7, <2>1 DEF PatchGivesUp, SyncInv, envVars, RunKnows, StampMeans, Converged,
                      Progress, Given, Quiet, Target, Entitled, Managed
<1>8. ASSUME NEW n \in Nodes, DeleteNode(n)
      PROVE  SyncInv'
  <2>1. \A m \in Nodes : m \in {n} \/ RowsKept(m)
    BY <1>8, NodeKeeps
  <2>2. \A m \in Nodes : Copied(m, node'[m])
    BY <1>8, <1>c DEF DeleteNode, TypeOK, Copied
  <2> QED
    BY <1>8, <1>c, <2>1, <2>2, EventInv DEF DeleteNode
<1>9. ASSUME NEW n \in Nodes, NEW x \in Addresses, RestartXray(n, x)
      PROVE  SyncInv'
  <2>1. \A m \in Nodes : m \in {n} \/ xray'[m] = xray[m]
    BY <1>9, InboundAltered DEF RestartXray, Put
  <2> QED
    BY <1>9, <1>c, <1>k, <2>1, EventInv DEF RestartXray
<1>10. CASE Tick
  BY <1>10, <1>c, <1>k, EventInv DEF Tick
<1>11. ASSUME NEW m \in late, LateArrives(m)
       PROVE  SyncInv'
  <2>0. m.node \in Nodes /\ m.at \in Addresses
    BY DEF TypeOK, Message
  <2>1. \A n \in Nodes : n \in {m.node} \/ xray'[n] = xray[n]
    BY <1>11, <2>0, InboundAltered DEF LateArrives, Put
  <2> QED
    BY <1>11, <1>c, <1>k, <2>1, EventInv DEF LateArrives
<1>12. ASSUME NEW m \in late, LateLost(m)
       PROVE  SyncInv'
  BY <1>12 DEF LateLost, SyncInv, envVars, RunKnows, StampMeans, Converged,
               Progress, Given, Quiet, Target, Entitled, Managed
<1> QED
  BY <1>1, <1>2, <1>3, <1>d, <1>4, <1>5, <1>6, <1>7, <1>8, <1>9, <1>10, <1>11, <1>12
     DEF Environment, PatchStep, LateStep

\* A step of one run leaves what other runs know alone.
LEMMA RunInv ==
    ASSUME TypeOK, SyncInv, NEW n \in Nodes,
           UNCHANGED <<account, customer, clock, touched, patch, at>>,
           \A m \in Nodes \ {n} :
               /\ xray'[m] = xray[m] /\ pc'[m] = pc[m] /\ now'[m] = now[m]
               /\ snap'[m] = snap[m] /\ del'[m] = del[m] /\ add'[m] = add[m]
               /\ node'[m] = node[m],
           now'[n] = now[n] \/ now'[n] = clock,
           RunKnows(n)', StampMeans(n, node[n])', StampMeans(n, patch[n])'
    PROVE  SyncInv'
<1> SUFFICES ASSUME NEW m \in Nodes
             PROVE  /\ now'[m] <= clock' /\ touched'[m] <= clock'
                    /\ RunKnows(m)'
                    /\ StampMeans(m, node[m])' /\ StampMeans(m, patch[m])'
  BY DEF SyncInv
<1>1. CASE m = n
  BY <1>1 DEF SyncInv, TypeOK, Times
<1>2. CASE m # n
  <2>1. /\ \A x : Converged(m, x)' <=> Converged(m, x)
        /\ Progress(m)' <=> Progress(m)
        /\ Target(m, clock)' = Target(m, clock)
        /\ Target(m, now[m])' = Target(m, now[m])
        /\ Quiet(m)' <=> Quiet(m)
    BY <1>2 DEF Converged, Progress, Given, Target, Entitled, Managed, Quiet
  <2> QED
    BY <1>2, <2>1 DEF SyncInv, RunKnows, StampMeans
<1> QED
  BY <1>1, <1>2

\* A run that applies has nothing to do when its inbound has converged and its node
\* is quiet.
LEMMA ConvergedIdle ==
    ASSUME TypeOK, SyncInv, NEW n \in Nodes, pc[n] = "apply", Quiet(n), Converged(n, at[n])
    PROVE  del[n] = {} /\ add[n] = {}
<1>1. snap[n] = Managed(Given(n)) /\ Progress(n)
  BY DEF SyncInv, RunKnows, Converged, Given
<1>2. \A a \in Accounts : Given(n)[a] = snap[n][a]
  BY <1>1 DEF Managed
<1>3. del[n] \subseteq Accounts /\ add[n] \subseteq Accounts
  BY DEF TypeOK
<1>4. del[n] = {}
  BY <1>1, <1>2, <1>3 DEF Progress
<1> QED
  BY <1>1, <1>2, <1>3, <1>4 DEF Progress

\* What is true of a stamp stays true when a run alters the inbound the stamp is
\* about: it does so only if the node was touched since the stamp.
LEMMA StampSurvives ==
    ASSUME TypeOK, SyncInv, NEW n \in Nodes, pc[n] = "apply",
           del[n] # {} \/ add[n] # {}, NEW row, row \in {node[n], patch[n]}, row # NoRow,
           row.of = at[n]
    PROVE  row.lastSync <= now[n] /\ ~(row.lastSync >= touched[n])
<1>1. StampMeans(n, row)
  BY DEF SyncInv
<1>2. row.lastSync \in Int /\ now[n] \in Int /\ touched[n] \in Int
  BY SyncAssumption DEF TypeOK, NodeRow, Times, Never
<1>3. SUFFICES ASSUME row.lastSync >= touched[n] PROVE FALSE
  BY <1>1 DEF StampMeans
<1>4. Converged(n, at[n]) /\ Quiet(n)
  BY <1>1, <1>2, <1>3 DEF StampMeans, Quiet
<1> QED
  BY <1>4, ConvergedIdle

LEMMA AlterInv ==
    ASSUME TypeOK, SyncInv, NEW n \in Nodes, pc[n] = "apply", del[n] # {} \/ add[n] # {},
           UNCHANGED <<account, customer, clock, touched, patch, node, now, at>>,
           \A x \in Addresses \ {at[n]} : xray'[n][x] = xray[n][x],
           \A m \in Nodes \ {n} :
               /\ xray'[m] = xray[m] /\ pc'[m] = pc[m]
               /\ snap'[m] = snap[m] /\ del'[m] = del[m] /\ add'[m] = add[m],
           RunKnows(n)'
    PROVE  SyncInv'
<1>1. ASSUME NEW row, row \in {node[n], patch[n]}, row # NoRow
      PROVE  /\ row.lastSync <= now[n]
             /\ row.lastSync >= touched[n] => Converged(n, row.of)'
  <2>1. StampMeans(n, row) /\ row.of \in Addresses
    BY <1>1 DEF SyncInv, TypeOK, NodeRow
  <2>2. CASE row.of = at[n]
    BY <1>1, <2>2, StampSurvives
  <2>3. CASE row.of # at[n]
    <3>1. Converged(n, row.of)' <=> Converged(n, row.of)
      <4>1. PICK x \in Addresses : x = row.of
        BY <2>1
      <4>2. xray'[n][x] = xray[n][x]
        BY <2>3, <4>1
      <4>3. Converged(n, x)' <=> Converged(n, x)
        BY <4>2 DEF Converged, Managed, Target, Entitled
      <4> QED BY <4>1, <4>3
    <3> QED BY <1>1, <2>1, <3>1 DEF StampMeans
  <2> QED BY <2>2, <2>3
<1>2. /\ StampMeans(n, node[n])'
      /\ StampMeans(n, patch[n])'
  BY <1>1 DEF StampMeans
<1> QED
  BY <1>2, RunInv

LEMMA SyncStepInv ==
    ASSUME TypeOK, SyncInv, NEW n \in Nodes, SyncStep(n)
    PROVE  SyncInv'
<1> USE DEF dbVars, envVars, Goto, Leave, Finish
<1>0. /\ now[n] <= clock /\ touched[n] <= clock /\ RunKnows(n)
      /\ StampMeans(n, node[n]) /\ StampMeans(n, patch[n])
      /\ clock \in Int /\ now[n] \in Int /\ touched[n] \in Int
  BY DEF SyncInv, TypeOK, Times
<1>1. CASE Acquire(n)
  <2>1. /\ pc'[n] = "target" /\ now'[n] = clock
        /\ UNCHANGED <<account, customer, clock, touched, at, patch, node, xray, snap, del, add>>
        /\ \A m \in Nodes \ {n} : pc'[m] = pc[m] /\ now'[m] = now[m]
    BY <1>1 DEF Acquire, TypeOK
  <2>2. Target(n, now[n])' = Target(n, clock)'
    BY <2>1 DEF Target, Entitled
  <2>3. RunKnows(n)'
    BY <2>1, <2>2 DEF RunKnows
  <2>4. \A x : Converged(n, x)' <=> Converged(n, x)
    BY <2>1 DEF Converged, Target, Entitled, Managed
  <2>5. ASSUME NEW row, row \in {node[n], patch[n]}, row # NoRow
        PROVE  /\ row.lastSync <= clock
               /\ row.lastSync >= touched[n] => Converged(n, row.of)
    <3>1. row.lastSync \in Int
      BY <2>5, SyncAssumption DEF TypeOK, NodeRow, Times, Never
    <3> QED
      BY <3>1, <2>5, <1>0 DEF StampMeans
  <2>6. StampMeans(n, node[n])' /\ StampMeans(n, patch[n])'
    BY <2>1, <2>4, <2>5 DEF StampMeans
  <2> QED
    BY <2>1, <2>3, <2>6, RunInv
<1>s. ASSUME UNCHANGED <<account, customer, clock, touched, at, patch, xray>>, node'[n] = node[n],
             now'[n] = now[n]
      PROVE  StampMeans(n, node[n])' /\ StampMeans(n, patch[n])'
  <2>1. \A x : Converged(n, x)' <=> Converged(n, x)
    BY <1>s DEF Converged, Target, Entitled, Managed
  <2> QED
    BY <1>s, <1>0, <2>1 DEF StampMeans
<1>2. CASE ReadTarget(n)
  <2>1. /\ pc[n] = "target" /\ pc'[n] = "list" /\ snap'[n] = Target(n, now[n])
        /\ UNCHANGED <<account, customer, clock, touched, at, patch, node, xray, now, del, add>>
        /\ \A m \in Nodes \ {n} : pc'[m] = pc[m] /\ snap'[m] = snap[m]
    BY <1>2 DEF ReadTarget, TypeOK
  <2>2. Target(n, clock)' = Target(n, clock)
    BY <2>1 DEF Target, Entitled
  <2>3. RunKnows(n)'
    BY <1>0, <2>1, <2>2 DEF RunKnows, Quiet
  <2> QED
    BY <1>s, <2>1, <2>3, RunInv
<1>3. CASE ListUsers(n)
  <2>1. /\ pc[n] = "list" /\ pc'[n] = "apply"
        /\ del'[n] = ToRemove(snap[n], Given(n)) /\ add'[n] = ToAdd(snap[n], Given(n))
        /\ UNCHANGED <<account, customer, clock, touched, at, patch, node, xray, now, snap>>
        /\ \A m \in Nodes \ {n} : pc'[m] = pc[m] /\ del'[m] = del[m] /\ add'[m] = add[m]
    BY <1>3 DEF ListUsers, TypeOK
  <2>2. Target(n, clock)' = Target(n, clock)
    BY <2>1 DEF Target, Entitled
  <2>3. Progress(n)'
    BY <2>1 DEF Progress, Given, ToRemove, ToAdd, Managed
  <2>4. RunKnows(n)'
    BY <1>0, <2>1, <2>2, <2>3 DEF RunKnows, Quiet
  <2> QED
    BY <1>s, <2>1, <2>4, RunInv
<1>4. ASSUME NEW a \in Accounts, RemoveUser(n, a)
      PROVE  SyncInv'
  <2>1. /\ pc[n] = "apply" /\ a \in del[n]
        /\ UNCHANGED <<account, customer, clock, touched, at, patch, node, now>>
        /\ xray' = Put(n, at[n], Altered(Given(n), a, NoUser))
    BY <1>4 DEF RemoveUser, Put, Given
  <2>x. /\ xray'[n][at[n]] = Altered(Given(n), a, NoUser)
        /\ \A x \in Addresses \ {at[n]} : xray'[n][x] = xray[n][x]
        /\ \A m \in Nodes \ {n} : xray'[m] = xray[m]
    BY <2>1, GivenType, InboundAltered
  <2>2. \A m \in Nodes \ {n} :
           /\ xray'[m] = xray[m] /\ pc'[m] = pc[m]
           /\ snap'[m] = snap[m] /\ del'[m] = del[m] /\ add'[m] = add[m]
    BY <1>4, <2>x DEF RemoveUser, TypeOK
  <2>3. CASE Accepted(Given(n), a, NoUser)
    <3>1. /\ pc'[n] = "apply" /\ snap'[n] = snap[n] /\ add'[n] = add[n]
          /\ del'[n] = del[n] \ {a}
          /\ xray'[n][at[n]] = [Given(n) EXCEPT ![a] = NoUser]
      BY <1>4, <2>x, <2>3 DEF RemoveUser, TypeOK, Altered
    <3>2. Target(n, clock)' = Target(n, clock)
      BY <2>1 DEF Target, Entitled
    <3>3. Given(n) \in Inbound /\ a \in Users
      BY GivenType DEF Users
    <3>4. \A b \in Accounts : Given(n)'[b] = IF b = a THEN NoUser ELSE Given(n)[b]
      BY <2>1, <3>1, <3>3 DEF Given, Inbound, Users
    <3>5. ASSUME Progress(n) PROVE Progress(n)'
      BY <2>1, <3>1, <3>4, <3>5 DEF Progress
    <3>6. RunKnows(n)'
      BY <1>0, <2>1, <3>1, <3>2, <3>5 DEF RunKnows, Quiet
    <3> QED
      BY <2>1, <2>2, <2>x, <3>6, AlterInv
  <2>4. CASE ~Accepted(Given(n), a, NoUser)
    <3>1. pc'[n] = "mark_err"
      BY <1>4, <2>4 DEF RemoveUser, TypeOK
    <3>2. RunKnows(n)'
      BY <3>1 DEF RunKnows
    <3> QED
      BY <2>1, <2>2, <2>x, <3>2, AlterInv
  <2> QED
    BY <2>3, <2>4
<1>5. ASSUME NEW a \in Accounts, AddUser(n, a)
      PROVE  SyncInv'
  <2>1. /\ pc[n] = "apply" /\ del[n] = {} /\ a \in add[n]
        /\ UNCHANGED <<account, customer, clock, touched, at, patch, node, now>>
        /\ xray' = Put(n, at[n], Altered(Given(n), a, snap[n][a]))
    BY <1>5 DEF AddUser, Put, Given
  <2>x. /\ xray'[n][at[n]] = Altered(Given(n), a, snap[n][a])
        /\ \A x \in Addresses \ {at[n]} : xray'[n][x] = xray[n][x]
        /\ \A m \in Nodes \ {n} : xray'[m] = xray[m]
    BY <2>1, GivenType, InboundAltered
  <2>2. \A m \in Nodes \ {n} :
           /\ xray'[m] = xray[m] /\ pc'[m] = pc[m]
           /\ snap'[m] = snap[m] /\ del'[m] = del[m] /\ add'[m] = add[m]
    BY <1>5, <2>x DEF AddUser, TypeOK
  <2>3. CASE Accepted(Given(n), a, snap[n][a])
    <3>1. /\ pc'[n] = "apply" /\ snap'[n] = snap[n] /\ del'[n] = del[n]
          /\ add'[n] = add[n] \ {a}
          /\ xray'[n][at[n]] = [Given(n) EXCEPT ![a] = snap[n][a]]
      BY <1>5, <2>x, <2>3 DEF AddUser, TypeOK, Altered
    <3>2. Target(n, clock)' = Target(n, clock)
      BY <2>1 DEF Target, Entitled
    <3>3. Given(n) \in Inbound /\ a \in Users
      BY GivenType DEF Users
    <3>4. \A b \in Accounts : Given(n)'[b] = IF b = a THEN snap[n][a] ELSE Given(n)[b]
      BY <2>1, <3>1, <3>3 DEF Given, Inbound, Users
    <3>5. ASSUME Progress(n) PROVE Progress(n)'
      BY <2>1, <3>1, <3>4, <3>5 DEF Progress
    <3>6. RunKnows(n)'
      BY <1>0, <2>1, <3>1, <3>2, <3>5 DEF RunKnows, Quiet
    <3> QED
      BY <2>1, <2>2, <2>x, <3>6, AlterInv
  <2>4. CASE ~Accepted(Given(n), a, snap[n][a])
    <3>1. pc'[n] = "mark_err"
      BY <1>5, <2>4 DEF AddUser, TypeOK
    <3>2. RunKnows(n)'
      BY <3>1 DEF RunKnows
    <3> QED
      BY <2>1, <2>2, <2>x, <3>2, AlterInv
  <2> QED
    BY <2>3, <2>4
<1>6. ASSUME NEW a \in Accounts, CallFails(n, a)
      PROVE  SyncInv'
  <2>c. \/ xray' = xray
        \/ xray' = Put(n, at[n], Altered(Given(n), a, NextCall(n, a).value))
    BY <1>6 DEF CallFails, Put, Given
  <2>x. /\ \A x \in Addresses \ {at[n]} : xray'[n][x] = xray[n][x]
        /\ \A m \in Nodes \ {n} : xray'[m] = xray[m]
    BY <2>c, GivenType, InboundAltered
  <2>1. /\ pc[n] = "apply" /\ (del[n] # {} \/ add[n] # {})
        /\ pc'[n] = "mark_err"
        /\ UNCHANGED <<account, customer, clock, touched, at, patch, node, now>>
        /\ \A m \in Nodes \ {n} :
              /\ xray'[m] = xray[m] /\ pc'[m] = pc[m]
              /\ snap'[m] = snap[m] /\ del'[m] = del[m] /\ add'[m] = add[m]
    BY <1>6, <2>x DEF CallFails, TypeOK
  <2>2. RunKnows(n)'
    BY <2>1 DEF RunKnows
  <2> QED
    BY <2>1, <2>2, <2>x, AlterInv
<1>7. CASE Applied(n)
  <2>1. /\ pc[n] = "apply" /\ del[n] = {} /\ add[n] = {} /\ pc'[n] = "mark_ok"
        /\ UNCHANGED <<account, customer, clock, touched, at, patch, node, xray, now>>
        /\ \A m \in Nodes \ {n} : /\ pc'[m] = pc[m] /\ snap'[m] = snap[m]
                                  /\ del'[m] = del[m] /\ add'[m] = add[m]
    BY <1>7 DEF Applied, TypeOK
  <2>2. ASSUME Progress(n), snap[n] = Target(n, clock)
        PROVE  Converged(n, at[n])
    <3>1. \A a \in Accounts : Given(n)[a] = snap[n][a]
      BY <2>1, <2>2 DEF Progress
    <3>2. snap[n] = [a \in Accounts |-> snap[n][a]]
      BY DEF TypeOK, View
    <3>3. Managed(Given(n)) = snap[n]
      BY <3>1, <3>2 DEF Managed
    <3> QED
      BY <2>2, <3>3 DEF Converged, Given
  <2>3. \A x : Converged(n, x)' <=> Converged(n, x)
    BY <2>1 DEF Converged, Target, Entitled, Managed
  <2>4. RunKnows(n)'
    BY <1>0, <2>1, <2>2, <2>3 DEF RunKnows, Quiet
  <2> QED
    BY <1>s, <2>1, <2>4, RunInv
<1>8. CASE ReadFails(n)
  <2>1. /\ pc'[n] = "mark_err"
        /\ UNCHANGED <<account, customer, clock, touched, at, patch, node, xray, now>>
        /\ \A m \in Nodes \ {n} : /\ pc'[m] = pc[m] /\ snap'[m] = snap[m]
                                  /\ del'[m] = del[m] /\ add'[m] = add[m]
    BY <1>8 DEF ReadFails, TypeOK
  <2>2. RunKnows(n)'
    BY <2>1 DEF RunKnows
  <2> QED
    BY <1>s, <2>1, <2>2, RunInv
<1>9. CASE MarkOk(n)
  <2>1. /\ pc[n] = "mark_ok" /\ pc'[n] = "idle"
        /\ UNCHANGED <<account, customer, clock, touched, at, patch, xray, now, snap, del, add>>
        /\ \A m \in Nodes \ {n} : pc'[m] = pc[m] /\ node'[m] = node[m]
        /\ node[n] = NoRow => node'[n] = NoRow
        /\ node[n] # NoRow => node'[n].lastSync = now[n] /\ node'[n].of = at[n]
    BY <1>9 DEF MarkOk, TypeOK, NodeRow
  <2>2. \A x : Converged(n, x)' <=> Converged(n, x)
    BY <2>1 DEF Converged, Target, Entitled, Managed
  <2>3. RunKnows(n)'
    BY <2>1 DEF RunKnows
  <2>4. StampMeans(n, patch[n])'
    BY <1>0, <2>1, <2>2 DEF StampMeans
  <2>5. StampMeans(n, node[n])'
    BY <1>0, <2>1, <2>2 DEF StampMeans, RunKnows, Quiet
  <2> QED
    BY <2>1, <2>3, <2>4, <2>5, RunInv
<1>10. CASE MarkError(n)
  <2>1. /\ pc'[n] = "idle"
        /\ UNCHANGED <<account, customer, clock, touched, at, patch, xray, now, snap, del, add>>
        /\ \A m \in Nodes \ {n} : pc'[m] = pc[m] /\ node'[m] = node[m]
        /\ node[n] = NoRow => node'[n] = NoRow
        /\ node[n] # NoRow => node'[n].lastSync = node[n].lastSync
                                         /\ node'[n].of = node[n].of
    BY <1>10 DEF MarkError, TypeOK, NodeRow
  <2>2. \A x : Converged(n, x)' <=> Converged(n, x)
    BY <2>1 DEF Converged, Target, Entitled, Managed
  <2>3. RunKnows(n)'
    BY <2>1 DEF RunKnows
  <2>4. StampMeans(n, node[n])' /\ StampMeans(n, patch[n])'
    BY <1>0, <2>1, <2>2 DEF StampMeans
  <2> QED
    BY <2>1, <2>3, <2>4, RunInv
<1>11. CASE MarkFails(n)
  <2>1. /\ pc'[n] = "idle"
        /\ UNCHANGED <<account, customer, clock, touched, at, patch, node, xray, now, snap, del, add>>
        /\ \A m \in Nodes \ {n} : pc'[m] = pc[m]
    BY <1>11 DEF MarkFails, TypeOK
  <2>2. RunKnows(n)'
    BY <2>1 DEF RunKnows
  <2> QED
    BY <1>s, <2>1, <2>2, RunInv
<1> QED
  BY <1>1, <1>2, <1>3, <1>4, <1>5, <1>6, <1>7, <1>8, <1>9, <1>10, <1>11, ManagedCall
  DEF SyncStep

LEMMA NextSyncInv == TypeOK /\ SyncInv /\ [Next]_vars => SyncInv'
<1> SUFFICES ASSUME TypeOK, SyncInv, [Next]_vars PROVE SyncInv'
  OBVIOUS
<1> USE DEF dbVars, envVars
<1>k. ASSUME UNCHANGED <<account, customer, node, xray, now, clock, touched>>,
             \A n \in Nodes : patch'[n] = patch[n] \/ patch'[n] = NoRow,
             \A n \in Nodes : \/ pc'[n] \in {"idle", "queued"}
                             \/ /\ pc'[n] = pc[n] /\ at'[n] = at[n] /\ snap'[n] = snap[n]
                                /\ del'[n] = del[n] /\ add'[n] = add[n]
      PROVE  SyncInv'
  <2> SUFFICES ASSUME NEW n \in Nodes
               PROVE  /\ now'[n] <= clock' /\ touched'[n] <= clock'
                      /\ RunKnows(n)'
                      /\ StampMeans(n, node[n])' /\ StampMeans(n, patch[n])'
    BY DEF SyncInv
  <2>1. /\ \A x : Converged(n, x)' <=> Converged(n, x)
        /\ Target(n, clock)' = Target(n, clock)
        /\ Target(n, now[n])' = Target(n, now[n])
        /\ Quiet(n)' <=> Quiet(n)
    BY <1>k DEF Converged, Target, Entitled, Managed, Quiet
  <2>2. RunKnows(n)'
    <3>1. CASE pc'[n] \in {"idle", "queued"}
      BY <3>1 DEF RunKnows
    <3>2. CASE pc'[n] \notin {"idle", "queued"}
      <4>1. Progress(n)' <=> Progress(n)
        BY <1>k, <3>2 DEF Progress, Given
      <4> QED
        BY <1>k, <2>1, <3>2, <4>1 DEF SyncInv, RunKnows
    <3> QED
      BY <3>1, <3>2
  <2>3. StampMeans(n, node[n])' /\ StampMeans(n, patch[n])'
    BY <1>k, <2>1 DEF SyncInv, StampMeans
  <2> QED
    BY <1>k, <2>2, <2>3 DEF SyncInv
<1>1. CASE RoundStart
  BY <1>1, <1>k DEF RoundStart, TypeOK
<1>2. ASSUME NEW n \in Nodes, SyncStep(n)
      PROVE  SyncInv'
  BY <1>2, SyncStepInv
<1>3. ASSUME NEW n \in Nodes, Deadline(n)
      PROVE  SyncInv'
  BY <1>3, <1>k DEF Deadline
<1>4. CASE Crash
  BY <1>4, <1>k DEF Crash, TypeOK
<1>5. CASE Environment
  BY <1>5, EnvironmentInv
<1>6. CASE UNCHANGED vars
  BY <1>6, <1>k DEF vars
<1> QED
  BY <1>1, <1>2, <1>3, <1>4, <1>5, <1>6 DEF Next

\* SyncInv holds in every reachable state.
THEOREM InvariantHolds == Spec => [](TypeOK /\ SyncInv)
BY InitTypeOK, InitSyncInv, NextTypeOK, NextSyncInv, PTL DEF Spec

\* last_runtime_sync_at tells the truth of the inbound its run was given: if nothing
\* touched the node since the time in the column, it serves exactly the target
\* (syncAll, SyncNode, MarkProxyNodeRuntimeSync, and the whole-row Saves of
\* updateNode and upsertProxyNodeByNameTx, which may change the address meanwhile).
THEOREM SyncedSinceHolds == Spec => []SyncedSince
<1>1. SyncInv => SyncedSince
  BY DEF SyncInv, StampMeans, Converged, SyncedSince
<1> QED
  BY <1>1, InvariantHolds, PTL
-----------------------------------------------------------------------------
(***************************************************************************)
(* Static users, and the refinement.                                       *)
(***************************************************************************)

\* Every step changes an inbound at most at one account, or restarts it.
LEMMA InboundStep ==
    ASSUME TypeOK, [Next]_vars, NEW n \in Nodes, NEW x \in Addresses
    PROVE  \/ xray'[n][x] = xray[n][x]
           \/ xray'[n][x] = BootUsers
           \/ \E a \in Accounts, v \in Idents \cup {NoUser} :
                 xray'[n][x] = Altered(xray[n][x], a, v)
<1> USE DEF dbVars, runVars, envVars
<1>1. CASE RoundStart
  BY <1>1 DEF RoundStart
<1>2. ASSUME NEW m \in Nodes, SyncStep(m)
      PROVE  \/ xray'[n][x] = xray[n][x]
             \/ \E a \in Accounts, v \in Idents \cup {NoUser} :
                   xray'[n][x] = Altered(xray[n][x], a, v)
  <2>1. ASSUME NEW a \in Accounts, RemoveUser(m, a)
        PROVE  \/ xray'[n][x] = xray[n][x]
               \/ xray'[n][x] = Altered(xray[n][x], a, NoUser)
    <3>1. xray' = Put(m, at[m], Altered(xray[m][at[m]], a, NoUser))
      BY <2>1 DEF RemoveUser, Put
    <3> QED BY <3>1, GivenType, InboundAltered
  <2>2. ASSUME NEW a \in Accounts, AddUser(m, a)
        PROVE  \/ xray'[n][x] = xray[n][x]
               \/ xray'[n][x] = Altered(xray[n][x], a, snap[m][a])
    <3>1. xray' = Put(m, at[m], Altered(xray[m][at[m]], a, snap[m][a]))
      BY <2>2 DEF AddUser, Put
    <3> QED BY <3>1, GivenType, InboundAltered
  <2>3. ASSUME NEW a \in Accounts, CallFails(m, a)
        PROVE  \/ xray'[n][x] = xray[n][x]
               \/ xray'[n][x] = Altered(xray[n][x], a, NextCall(m, a).value)
    <3>1. \/ xray' = xray
          \/ xray' = Put(m, at[m], Altered(xray[m][at[m]], a, NextCall(m, a).value))
      BY <2>3 DEF CallFails, Put
    <3> QED BY <3>1, GivenType, InboundAltered
  <2>4. ASSUME NEW a \in Accounts
        PROVE  /\ snap[m][a] \in Idents \cup {NoUser}
               /\ NextCall(m, a).value \in Idents \cup {NoUser}
    BY NextCallType DEF TypeOK, View, Message
  <2>5. \/ xray' = xray
        \/ \E a \in Accounts : RemoveUser(m, a) \/ AddUser(m, a) \/ CallFails(m, a)
    BY <1>2, ManagedCall DEF SyncStep, Acquire, ReadTarget, ListUsers, Applied, ReadFails,
                             MarkOk, MarkError, MarkFails
  <2> QED
    BY <2>1, <2>2, <2>3, <2>4, <2>5
<1>3. ASSUME NEW m \in Nodes, Deadline(m)
      PROVE  xray'[n][x] = xray[n][x]
  BY <1>3 DEF Deadline
<1>4. CASE Crash
  BY <1>4 DEF Crash
<1>5. CASE Environment
  <2>1. ASSUME NEW m \in late, LateArrives(m)
        PROVE  \/ xray'[n][x] = xray[n][x]
               \/ \E a \in Accounts, v \in Idents \cup {NoUser} :
                     xray'[n][x] = Altered(xray[n][x], a, v)
    <3>1. m \in Message
      BY DEF TypeOK
    <3>2. /\ m.node \in Nodes /\ m.at \in Addresses /\ m.user \in Accounts
          /\ m.value \in Idents \cup {NoUser}
      BY <3>1 DEF Message
    <3>3. xray' = Put(m.node, m.at, Altered(xray[m.node][m.at], m.user, m.value))
      BY <2>1 DEF LateArrives, Put
    <3>4. \/ xray'[n][x] = xray[n][x]
          \/ xray'[n][x] = Altered(xray[n][x], m.user, m.value)
      BY <3>2, <3>3, InboundAltered
    <3> QED BY <3>2, <3>4
  <2>2. ASSUME NEW m \in Nodes, NEW y \in Addresses, RestartXray(m, y)
        PROVE  xray'[n][x] = xray[n][x] \/ xray'[n][x] = BootUsers
    BY <2>2, InboundAltered DEF RestartXray, Put
  <2>3. \/ xray' = xray
        \/ \E m \in late : LateArrives(m)
        \/ \E m \in Nodes, y \in Addresses : RestartXray(m, y)
    BY <1>5 DEF Environment, PatchStep, LateStep, SaveAccount, DeleteAccount, SaveCustomer,
                DeleteCustomer, UpsertNode, PatchRead, PatchSave, PatchGivesUp, DeleteNode, Tick, LateLost
  <2> QED
    BY <2>1, <2>2, <2>3
<1>6. CASE UNCHANGED vars
  BY <1>6 DEF vars
<1> QED
  BY <1>1, <1>2, <1>3, <1>4, <1>5, <1>6 DEF Next

\* Users of config.json are served as configured in every reachable state: the
\* syncer never touches an email it did not generate (managedUsers).
THEOREM StaticUntouchedHolds == Spec => []StaticUntouched
<1>1. Init => StaticUntouched
  BY DEF Init, StaticUntouched, BootUsers, Users
<1>2. TypeOK /\ StaticUntouched /\ [Next]_vars => StaticUntouched'
  <2> SUFFICES ASSUME TypeOK, StaticUntouched, [Next]_vars, NEW n \in Nodes,
                      NEW x \in Addresses, NEW s \in Statics
               PROVE  xray'[n][x][s] = StaticIdent
    BY DEF StaticUntouched
  <2>1. xray[n][x] \in Inbound /\ s \in Users /\ s \notin Accounts /\ xray[n][x][s] = StaticIdent
    BY SyncAssumption DEF TypeOK, Users, StaticUntouched
  <2>2. CASE xray'[n][x] = xray[n][x]
    BY <2>1, <2>2
  <2>3. CASE xray'[n][x] = BootUsers
    BY <2>1, <2>3 DEF BootUsers
  <2>4. ASSUME NEW a \in Accounts, NEW v, xray'[n][x] = Altered(xray[n][x], a, v)
        PROVE  xray'[n][x][s] = xray[n][x][s]
    BY <2>1, <2>4 DEF Altered, Inbound
  <2> QED
    BY <2>1, <2>2, <2>3, <2>4, InboundStep
<1> QED
  BY <1>1, <1>2, TypeCorrect, PTL DEF Spec

\* The mapped variables.
Want == [n \in Nodes |-> Target(n, clock)]
Have == [n \in Nodes |-> [x \in Addresses |-> Managed(xray[n][x])]]
Loose == {n \in Nodes : touched[n] > now[n]}

LEMMA MappedInit == Init => R!Init
<1> SUFFICES ASSUME Init PROVE R!Init
  OBVIOUS
<1>1. Want \in [Nodes -> [Accounts -> Idents \cup {NoUser}]]
  BY InitTypeOK, TargetType DEF Want, View
<1>2. Have = [n \in Nodes |-> [x \in Addresses |-> [a \in Accounts |-> NoUser]]]
  BY SyncAssumption DEF Init, Have, Managed, BootUsers, Users
<1>3. Loose = {}
  BY DEF Init, Loose
<1> QED
  BY <1>1, <1>2, <1>3 DEF R!Init, R!View, Want, Have, Loose

LEMMA MappedStutter ==
    ASSUME UNCHANGED <<account, customer, clock, touched, xray, now>>
    PROVE  UNCHANGED <<Want, Have, Loose>>
BY DEF Want, Have, Loose, Target, Entitled, Managed

\* An event disturbs the nodes it touches and no other.
LEMMA MappedEvent ==
    ASSUME TypeOK, TypeOK', SyncInv, NEW S, Event(S), now' = now,
           \A n \in Nodes : n \in S \/ (RowsKept(n) /\ xray'[n] = xray[n])
    PROVE  R!Next
<1>1. /\ Want' \in [Nodes -> [Accounts -> Idents \cup {NoUser}]]
      /\ Have' \in [Nodes -> [Addresses -> [Accounts -> Idents \cup {NoUser}]]]
      /\ Loose' \subseteq Nodes
  <2>1. \A n \in Nodes : Target(n, clock)' \in [Accounts -> Idents \cup {NoUser}]
    <3>1. ASSUME NEW n \in Nodes, NEW a \in Accounts, Entitled(a, n, clock)'
          PROVE  account'[a].ident \in Idents
      BY <3>1 DEF TypeOK, Entitled, AccountRow
    <3> QED
      BY <3>1 DEF Target
  <2>2. \A n \in Nodes, x \in Addresses :
           Managed(xray[n][x])' \in [Accounts -> Idents \cup {NoUser}]
    BY DEF TypeOK, Inbound, Managed, Users
  <2> QED
    BY <2>1, <2>2 DEF Want, Have, Loose
<1>2. ASSUME NEW n \in Nodes
      PROVE  \/ n \in Loose'
             \/ /\ n \notin Loose
                /\ Want'[n] = Want[n] /\ Have'[n] = Have[n]
  <2>1. CASE n \in S \cup Expiring
    <3>1. touched'[n] = clock + 1 /\ now'[n] <= clock /\ clock \in Int /\ now'[n] \in Int
      BY <2>1 DEF Event, SyncInv, TypeOK, Times
    <3> QED
      BY <3>1 DEF Loose
  <2>2. CASE n \notin S \cup Expiring
    <3>1. Target(n, clock)' = Target(n, clock) /\ touched'[n] = touched[n]
      BY <2>2, EventKeepsTarget
    <3>2. xray'[n] = xray[n]
      BY <2>2
    <3> QED
      BY <3>1, <3>2 DEF Want, Have, Loose, Managed
  <2> QED
    BY <2>1, <2>2
<1>3. R!Disturb
  BY <1>1, <1>2 DEF R!Disturb, R!View, Want, Have, Loose
<1> QED
  BY <1>3 DEF R!Next

\* A call of a run, answered or not, fixes one user or changes nothing.
LEMMA MappedCall ==
    ASSUME TypeOK, SyncInv, NEW n \in Nodes, NEW a \in Accounts, pc[n] = "apply",
           UNCHANGED <<account, customer, clock, touched, now>>,
           NEW v \in Idents \cup {NoUser},
           \/ a \in del[n] /\ v = NoUser
           \/ a \in add[n] \ del[n] /\ v = snap[n][a],
           xray' = Put(n, at[n], Altered(Given(n), a, v))
    PROVE  R!Next \/ UNCHANGED R!recVars
<1>g. /\ at[n] \in Addresses /\ Given(n) = xray[n][at[n]] /\ Given(n) \in Inbound
  BY GivenType
<1>1. CASE ~Accepted(Given(n), a, v)
  <2>1. xray' = xray
    BY <1>1, <1>g, InboundAltered DEF Altered
  <2> QED
    BY <2>1, MappedStutter DEF R!recVars, Want, Have, Loose
<1>2. CASE Accepted(Given(n), a, v)
  <2>1. /\ a \in Users
        /\ xray'[n][at[n]] = [Given(n) EXCEPT ![a] = v]
        /\ \A x \in Addresses \ {at[n]} : xray'[n][x] = xray[n][x]
        /\ \A m \in Nodes \ {n} : xray'[m] = xray[m]
    BY <1>2, <1>g, InboundAltered DEF Altered, Users
  <2>2. Managed(xray'[n][at[n]]) = [Managed(Given(n)) EXCEPT ![a] = v]
    BY <1>g, <2>1 DEF Managed, Inbound, Users
  <2>3. Have' = [Have EXCEPT ![n][at[n]][a] = v]
    <3>1. \A m \in Nodes \ {n} : Have'[m] = Have[m]
      BY <2>1 DEF Have
    <3>2. Have'[n] = [Have[n] EXCEPT ![at[n]] = [Have[n][at[n]] EXCEPT ![a] = v]]
      <4>1. Have[n] = [x \in Addresses |-> Managed(xray[n][x])]
        BY DEF Have
      <4>2. Have'[n] = [x \in Addresses |-> Managed(xray'[n][x])]
        BY DEF Have
      <4>3. \A x \in Addresses \ {at[n]} : Managed(xray'[n][x]) = Managed(xray[n][x])
        BY <2>1
      <4>4. Have[n][at[n]] = Managed(Given(n))
        BY <4>1, <1>g
      <4>5. PICK f, g, w : f = Have[n] /\ g = Have'[n] /\ w = [Managed(Given(n)) EXCEPT ![a] = v]
        OBVIOUS
      <4>6. g[at[n]] = w
        BY <4>2, <4>5, <2>2, <1>g
      <4>7. \A x \in Addresses \ {at[n]} : g[x] = f[x]
        BY <4>1, <4>2, <4>3, <4>5
      <4>8. /\ f = [x \in Addresses |-> f[x]] /\ g = [x \in Addresses |-> g[x]]
        BY <4>1, <4>2, <4>5
      <4>9. g = [f EXCEPT ![at[n]] = w]
        BY <4>6, <4>7, <4>8, <1>g
      <4>10. w = [Have[n][at[n]] EXCEPT ![a] = v]
        BY <4>4, <4>5
      <4> QED
        BY <4>5, <4>9, <4>10
    <3>3. /\ Have = [m \in Nodes |-> Have[m]] /\ Have' = [m \in Nodes |-> Have'[m]]
      BY DEF Have
    <3> QED
      BY <3>1, <3>2, <3>3
  <2>4. Want' = Want /\ Loose' = Loose
    BY DEF Want, Loose, Target, Entitled
  <2>5. ASSUME n \notin Loose
        PROVE  /\ Have[n][at[n]][a] # Want[n][a]
               /\ v = IF Have[n][at[n]][a] = NoUser THEN Want[n][a] ELSE NoUser
    <3>1. Quiet(n)
      BY <2>5 DEF Loose, Quiet, TypeOK, Times
    <3>2. snap[n] = Target(n, clock) /\ Progress(n)
      BY <3>1 DEF SyncInv, RunKnows
    <3>3. Want[n][a] = snap[n][a] /\ Have[n][at[n]][a] = Given(n)[a]
      BY <1>g, <3>2 DEF Want, Have, Managed
    <3> QED
      BY <1>2, <3>2, <3>3 DEF Progress, Accepted
  <2>6. R!Fix(n, at[n], a)
    BY <2>3, <2>4, <2>5 DEF R!Fix, Want, Have, Loose
  <2> QED
    BY <1>g, <2>6 DEF R!Next
<1> QED
  BY <1>1, <1>2

LEMMA MappedSyncStep ==
    ASSUME TypeOK, SyncInv, NEW n \in Nodes, SyncStep(n)
    PROVE  R!Next \/ UNCHANGED R!recVars
<1> USE DEF dbVars, envVars, Goto, Leave, Finish
<1>s. ASSUME UNCHANGED <<account, customer, clock, touched, xray, now>>
      PROVE  UNCHANGED R!recVars
  BY <1>s, MappedStutter DEF R!recVars, Want, Have, Loose
<1>1. CASE Acquire(n)
  <2>1. /\ Want' = Want /\ Have' = Have
    BY <1>1 DEF Acquire, Want, Have, Target, Entitled, Managed
  <2>2. now' = [now EXCEPT ![n] = clock] /\ touched' = touched
    BY <1>1 DEF Acquire
  <2>3. ~(touched[n] > clock)
    BY DEF SyncInv, TypeOK, Times
  <2>4. Loose' = Loose \ {n}
    BY <2>2, <2>3 DEF Loose, TypeOK
  <2>5. R!Begin(n)
    BY <2>1, <2>4 DEF R!Begin, Want, Have, Loose
  <2> QED
    BY <2>5 DEF R!Next
<1>2. ASSUME NEW a \in Accounts, RemoveUser(n, a)
      PROVE  R!Next \/ UNCHANGED R!recVars
  <2>1. /\ pc[n] = "apply" /\ a \in del[n]
        /\ UNCHANGED <<account, customer, clock, touched, now>>
        /\ xray' = Put(n, at[n], Altered(Given(n), a, NoUser))
    BY <1>2 DEF RemoveUser, Put, Given
  <2> QED
    BY <2>1, MappedCall
<1>3. ASSUME NEW a \in Accounts, AddUser(n, a)
      PROVE  R!Next \/ UNCHANGED R!recVars
  <2>1. /\ pc[n] = "apply" /\ a \in add[n] \ del[n]
        /\ UNCHANGED <<account, customer, clock, touched, now>>
        /\ xray' = Put(n, at[n], Altered(Given(n), a, snap[n][a]))
        /\ snap[n][a] \in Idents \cup {NoUser}
    BY <1>3 DEF AddUser, Put, Given, TypeOK, View
  <2> QED
    BY <2>1, MappedCall
<1>4. ASSUME NEW a \in Accounts, CallFails(n, a)
      PROVE  R!Next \/ UNCHANGED R!recVars
  <2>1. /\ pc[n] = "apply"
        /\ UNCHANGED <<account, customer, clock, touched, now>>
        /\ a \in del[n] \/ (del[n] = {} /\ a \in add[n])
        /\ \/ xray' = xray
           \/ xray' = Put(n, at[n], Altered(Given(n), a, NextCall(n, a).value))
    BY <1>4 DEF CallFails, Put, Given
  <2>2. CASE xray' = xray
    BY <2>1, <2>2, <1>s
  <2>3. CASE a \in del[n] /\ xray' = Put(n, at[n], Altered(Given(n), a, NextCall(n, a).value))
    <3>1. NextCall(n, a).value = NoUser
      BY <2>3 DEF NextCall
    <3> QED
      BY <2>1, <2>3, <3>1, MappedCall
  <2>4. CASE a \notin del[n] /\ xray' = Put(n, at[n], Altered(Given(n), a, NextCall(n, a).value))
    <3>1. NextCall(n, a).value = snap[n][a] /\ snap[n][a] \in Idents \cup {NoUser}
      BY <2>4 DEF NextCall, TypeOK, View
    <3>2. a \in add[n] \ del[n]
      BY <2>1, <2>4
    <3> QED
      BY <2>1, <2>4, <3>1, <3>2, MappedCall
  <2> QED
    BY <2>1, <2>2, <2>3, <2>4
<1>5. CASE \/ ReadTarget(n) \/ ListUsers(n) \/ Applied(n) \/ ReadFails(n)
           \/ MarkOk(n) \/ MarkError(n) \/ MarkFails(n)
  BY <1>5, <1>s DEF ReadTarget, ListUsers, Applied, ReadFails, MarkOk, MarkError, MarkFails
<1> QED
  BY <1>1, <1>2, <1>3, <1>4, <1>5, ManagedCall DEF SyncStep

LEMMA MappedEnvironment ==
    ASSUME TypeOK, TypeOK', SyncInv, Environment
    PROVE  R!Next \/ UNCHANGED R!recVars
<1> USE DEF dbVars, runVars, envVars
<1>k. ASSUME UNCHANGED <<account, customer>>
      PROVE  \A n \in Nodes : RowsKept(n)
  BY <1>k DEF RowsKept, NodesOf
<1>s. ASSUME UNCHANGED <<account, customer, clock, touched, xray, now>>
      PROVE  UNCHANGED R!recVars
  BY <1>s, MappedStutter DEF R!recVars, Want, Have, Loose
<1>1. ASSUME NEW a \in Accounts, SaveAccount(a)
      PROVE  R!Next
  <2>1. PICK row \in AccountRow :
           /\ account' = [account EXCEPT ![a] = row]
           /\ Event(NodesOf(a) \cup row.nodes)
    BY <1>1 DEF SaveAccount
  <2>2. \A n \in Nodes : n \in NodesOf(a) \cup row.nodes \/ RowsKept(n)
    BY <1>1, <2>1, SaveKeeps
  <2> QED
    BY <1>1, <2>1, <2>2, MappedEvent DEF SaveAccount
<1>2. ASSUME NEW a \in Accounts, DeleteAccount(a)
      PROVE  R!Next
  <2>1. \A n \in Nodes : n \in NodesOf(a) \/ RowsKept(n)
    BY <1>2, DeleteKeeps
  <2> QED
    BY <1>2, <2>1, MappedEvent DEF DeleteAccount
<1>3. ASSUME NEW c \in Customers, SaveCustomer(c)
      PROVE  R!Next
  <2>1. \A n \in Nodes : n \in NodesOfCustomer(c) \/ RowsKept(n)
    BY <1>3, CustomerKeeps
  <2> QED
    BY <1>3, <2>1, MappedEvent DEF SaveCustomer
<1>d. ASSUME NEW c \in Customers, DeleteCustomer(c)
      PROVE  R!Next
  <2>1. \A n \in Nodes : n \in NodesOfCustomer(c) \/ RowsKept(n)
    BY <1>d, CustomerKeeps
  <2> QED
    BY <1>d, <2>1, MappedEvent DEF DeleteCustomer
<1>4. ASSUME NEW n \in Nodes, UpsertNode(n) \/ PatchSave(n)
      PROVE  R!Next
  BY <1>4, <1>k, MappedEvent DEF UpsertNode, PatchSave
<1>5. ASSUME NEW n \in Nodes, PatchRead(n) \/ PatchGivesUp(n)
      PROVE  UNCHANGED R!recVars
  BY <1>5, <1>s DEF PatchRead, PatchGivesUp
<1>6. ASSUME NEW n \in Nodes, DeleteNode(n)
      PROVE  R!Next
  <2>1. \A m \in Nodes : m \in {n} \/ RowsKept(m)
    BY <1>6, NodeKeeps
  <2> QED
    BY <1>6, <2>1, MappedEvent DEF DeleteNode
<1>7. ASSUME NEW n \in Nodes, NEW x \in Addresses, RestartXray(n, x)
      PROVE  R!Next
  <2>1. \A m \in Nodes \ {n} : xray'[m] = xray[m]
    BY <1>7, InboundAltered DEF RestartXray, Put
  <2> QED
    BY <1>7, <1>k, <2>1, MappedEvent DEF RestartXray
<1>8. CASE Tick
  BY <1>8, <1>k, MappedEvent DEF Tick
<1>9. ASSUME NEW m \in late, LateArrives(m)
      PROVE  R!Next
  <2>0. m.node \in Nodes /\ m.at \in Addresses
    BY DEF TypeOK, Message
  <2>1. \A n \in Nodes \ {m.node} : xray'[n] = xray[n]
    BY <1>9, <2>0, InboundAltered DEF LateArrives, Put
  <2> QED
    BY <1>9, <1>k, <2>1, MappedEvent DEF LateArrives
<1>10. ASSUME NEW m \in late, LateLost(m)
       PROVE  UNCHANGED R!recVars
  BY <1>10, <1>s DEF LateLost
<1> QED
  BY <1>1, <1>2, <1>3, <1>d, <1>4, <1>5, <1>6, <1>7, <1>8, <1>9, <1>10
     DEF Environment, PatchStep, LateStep

LEMMA MappedNext ==
    ASSUME TypeOK, TypeOK', SyncInv, [Next]_vars
    PROVE  [R!Next]_(R!recVars)
<1>s. ASSUME UNCHANGED <<account, customer, clock, touched, xray, now>>
      PROVE  UNCHANGED R!recVars
  BY <1>s, MappedStutter DEF R!recVars, Want, Have, Loose
<1>1. ASSUME NEW n \in Nodes, SyncStep(n)
      PROVE  R!Next \/ UNCHANGED R!recVars
  BY <1>1, MappedSyncStep
<1>2. CASE Environment
  BY <1>2, MappedEnvironment
<1>3. CASE RoundStart \/ Crash \/ (\E n \in Nodes : Deadline(n)) \/ UNCHANGED vars
  BY <1>3, <1>s DEF RoundStart, Crash, Deadline, vars, dbVars, envVars
<1> QED
  BY <1>1, <1>2, <1>3 DEF Next

\* The syncer implements Reconcile for all nodes, accounts and bounds: between
\* two disturbances of a node every call of a run (sync.go:167-191) either
\* changes nothing or moves one wrongly served user towards the target.
THEOREM ReconcilesHolds == Spec => Reconciles
<1>1. Init => R!Init
  BY MappedInit
<1>2. TypeOK /\ TypeOK' /\ SyncInv /\ [Next]_vars => [R!Next]_(R!recVars)
  BY MappedNext
<1> QED
  BY <1>1, <1>2, InvariantHolds, PTL DEF Spec, Reconciles, R!Spec

(***************************************************************************)
(* Undisturbed runs come to an end.                                        *)
(***************************************************************************)

\* One addition or removal of a wrongly served user leaves less to do.
LEMMA FixSettles ==
    ASSUME IsFiniteSet(Accounts), NEW h, NEW g, NEW w, NEW a \in Accounts, h[a] # w[a],
           g[a] = (IF h[a] = NoUser THEN w[a] ELSE NoUser),
           \A b \in Accounts \ {a} : g[b] = h[b]
    PROVE  Cardinality({b \in Accounts : g[b] # w[b]})
             + Cardinality({b \in {c \in Accounts : g[c] # w[c]} : g[b] # NoUser})
           < Cardinality({b \in Accounts : h[b] # w[b]})
               + Cardinality({b \in {c \in Accounts : h[c] # w[c]} : h[b] # NoUser})
<1> DEFINE W == {b \in Accounts : h[b] # w[b]}
           Z == {b \in Accounts : g[b] # w[b]}
           S == {b \in W : h[b] # NoUser}
           T == {b \in Z : g[b] # NoUser}
<1>1. /\ W \subseteq Accounts /\ S \subseteq Accounts /\ a \in W
      /\ h[a] = NoUser => Z = W \ {a} /\ T = S
      /\ h[a] # NoUser => a \in S /\ (Z = W \/ Z = W \ {a}) /\ T = S \ {a}
  <2>1. Z = IF g[a] = w[a] THEN W \ {a} ELSE W
    OBVIOUS
  <2> QED BY <2>1
<1>2. SUFFICES Cardinality(Z) + Cardinality(T) < Cardinality(W) + Cardinality(S)
  OBVIOUS
<1> HIDE DEF W, Z, S, T
<1>3. IsFiniteSet(W) /\ IsFiniteSet(S)
  BY <1>1, FS_Subset
<1>4. PICK i \in Nat, j \in Nat : i = Cardinality(W) /\ j = Cardinality(S)
  BY <1>3, FS_CardinalityType
<1>5. Cardinality(W \ {a}) = i - 1
  BY <1>1, <1>3, <1>4, FS_RemoveElement
<1>6. CASE h[a] = NoUser
  <2>1. Cardinality(Z) = i - 1 /\ Cardinality(T) = j
    BY <1>1, <1>4, <1>5, <1>6
  <2> QED BY <1>4, <2>1
<1>7. CASE h[a] # NoUser
  <2>1. Cardinality(S \ {a}) = j - 1
    BY <1>1, <1>3, <1>4, <1>7, FS_RemoveElement
  <2>2. Cardinality(T) = j - 1 /\ (Cardinality(Z) = i \/ Cardinality(Z) = i - 1)
    BY <1>1, <1>4, <1>5, <1>7, <2>1
  <2> QED BY <1>4, <2>2
<1> QED BY <1>6, <1>7

\* On a node that nothing has disturbed, what changes is one user served wrongly.
LEMMA SettlesStep ==
    ASSUME IsFiniteSet(Accounts), TypeOK, TypeOK', [R!Next]_(R!recVars),
           NEW n \in Nodes, NEW x \in Addresses, n \notin Loose, n \notin Loose',
           Have'[n][x] # Have[n][x]
    PROVE  Want'[n] = Want[n] /\ Left(n, x)' < Left(n, x)
<1>1. Have \in [Nodes -> [Addresses -> [Accounts -> Idents \cup {NoUser}]]]
  BY ManagedType DEF Have, View, TypeOK
<1>2. PICK m \in Nodes, y \in Addresses, a \in Accounts : R!Fix(m, y, a)
  <2>1. ASSUME NEW m \in Nodes, R!Begin(m) PROVE FALSE
    BY <2>1 DEF R!Begin, Want, Have, Loose
  <2>2. ~R!Disturb
    BY DEF R!Disturb, Want, Have, Loose
  <2>3. Have' # Have
    OBVIOUS
  <2>4. ~UNCHANGED R!recVars
    BY <2>3 DEF R!recVars, Want, Have, Loose
  <2> QED BY <2>1, <2>2, <2>4 DEF R!Next
<1>3. PICK v \in Idents \cup {NoUser} :
        /\ Have' = [Have EXCEPT ![m][y][a] = v]
        /\ m \in Loose \/ (/\ Have[m][y][a] # Want[m][a]
                           /\ v = IF Have[m][y][a] = NoUser THEN Want[m][a] ELSE NoUser)
  BY <1>2 DEF R!Fix, Want, Have, Loose
<1>4. Want' = Want
  BY <1>2 DEF R!Fix, Want
<1>5. m = n /\ y = x
  BY <1>1, <1>3
<1>6. PICK h, g, w : h = Have[n][x] /\ g = Have'[n][x] /\ w = Want[n]
  OBVIOUS
<1>7. /\ h[a] # w[a] /\ g[a] = (IF h[a] = NoUser THEN w[a] ELSE NoUser)
      /\ \A b \in Accounts \ {a} : g[b] = h[b]
  BY <1>1, <1>3, <1>5, <1>6
<1>8. h = Managed(xray[n][x]) /\ w = Target(n, clock)
  BY <1>6 DEF Have, Want
<1>9. g = Managed(xray[n][x])' /\ w = Target(n, clock)'
  BY <1>4, <1>6 DEF Have, Want
<1>10. Left(n, x) = Cardinality({b \in Accounts : h[b] # w[b]})
                  + Cardinality({b \in {c \in Accounts : h[c] # w[c]} : h[b] # NoUser})
  BY <1>8 DEF Left, Wrong, Served
<1>11. Left(n, x)' = Cardinality({b \in Accounts : g[b] # w[b]})
                   + Cardinality({b \in {c \in Accounts : g[c] # w[c]} : g[b] # NoUser})
  BY <1>9 DEF Left, Wrong, Served
<1> QED BY <1>4, <1>7, <1>10, <1>11, FixSettles

\* The calls of undisturbed runs come to an end: what remains of the convergence
\* of a node is that its runs are made (EventuallySynced).
THEOREM SettlesHolds == ASSUME IsFiniteSet(Accounts) PROVE Spec => Settles
<1> DEFINE Done == \A n \in Nodes, x \in Addresses :
                      (Quiet(n) /\ Quiet(n)' /\ Managed(xray[n][x])' # Managed(xray[n][x]))
                          => Target(n, clock)' = Target(n, clock) /\ Left(n, x)' < Left(n, x)
<1>1. TypeOK /\ TypeOK' /\ SyncInv /\ [Next]_vars => Done
  <2> SUFFICES ASSUME TypeOK, TypeOK', SyncInv, [Next]_vars, NEW n \in Nodes,
                      NEW x \in Addresses, Quiet(n), Quiet(n)',
                      Managed(xray[n][x])' # Managed(xray[n][x])
               PROVE  Target(n, clock)' = Target(n, clock) /\ Left(n, x)' < Left(n, x)
    OBVIOUS
  <2>1. n \notin Loose
    BY DEF Quiet, Loose, TypeOK, Times
  <2>2. n \notin Loose'
    BY DEF Quiet, Loose, TypeOK, Times
  <2>3. Have'[n][x] # Have[n][x]
    BY DEF Have
  <2>4. Want'[n] = Want[n] /\ Left(n, x)' < Left(n, x)
    BY <2>1, <2>2, <2>3, MappedNext, SettlesStep
  <2> QED BY <2>4 DEF Want
<1>2. Settles <=> [][Done]_vars
  BY PTL DEF Settles
<1> HIDE DEF Done
<1> QED BY <1>1, <1>2, InvariantHolds, PTL DEF Spec

(***************************************************************************)
(* The semaphore.                                                          *)
(***************************************************************************)

\* Only Acquire takes a node up; every other step goes on with one or ends it.
LEMMA OnlyAcquireRuns ==
    ASSUME TypeOK, [Next]_vars, NEW m \in Nodes, ~Running(m), Running(m)'
    PROVE  Acquire(m)
<1>f. DOMAIN pc = Nodes
  BY DEF TypeOK
<1>1. ASSUME NEW n \in Nodes, SyncStep(n)
      PROVE  Acquire(m)
  <2>1. ASSUME NEW phase, Goto(n, phase), m # n PROVE FALSE
    BY <2>1, <1>f DEF Goto, Running
  <2>2. m = n
    <3>1. CASE \E a \in Users : RemoveUser(n, a) \/ AddUser(n, a) \/ CallFails(n, a)
      BY <3>1, <2>1 DEF RemoveUser, AddUser, CallFails, Leave, Running
    <3>2. CASE Acquire(n) \/ ReadTarget(n) \/ ListUsers(n) \/ Applied(n) \/ ReadFails(n)
      BY <3>2, <2>1 DEF Acquire, ReadTarget, ListUsers, Applied, ReadFails, Leave
    <3>3. CASE MarkOk(n) \/ MarkError(n) \/ MarkFails(n)
      BY <3>3, <2>1 DEF MarkOk, MarkError, MarkFails, Finish
    <3> QED BY <1>1, <3>1, <3>2, <3>3 DEF SyncStep
  <2>3. pc[n] \in {"idle", "queued"}
    BY <2>2 DEF Running
  <2> QED
    BY <1>1, <2>2, <2>3 DEF SyncStep, ReadTarget, ListUsers, RemoveUser, AddUser, CallFails,
       Applied, ReadFails, MarkOk, MarkError, MarkFails
<1>2. CASE RoundStart \/ Crash
  BY <1>2 DEF RoundStart, Crash, Running
<1>3. CASE Environment \/ (\E n \in Nodes : Deadline(n)) \/ UNCHANGED vars
  <2>1. UNCHANGED pc
    BY <1>3 DEF Environment, SaveAccount, DeleteAccount, SaveCustomer, DeleteCustomer,
       UpsertNode, PatchRead, PatchStep, PatchSave, PatchGivesUp, DeleteNode, RestartXray,
       Tick, LateStep, LateArrives, LateLost, Deadline, vars, runVars
  <2> QED BY <2>1 DEF Running
<1> QED BY <1>1, <1>2, <1>3 DEF Next

\* At most Concurrency nodes are taken up at once, across rounds and crashes
\* (the semaphore of syncAll, sync.go:95-113); the nodes are finitely many.
THEOREM WithinConcurrencyHolds ==
    ASSUME IsFiniteSet(Nodes) PROVE Spec => []WithinConcurrency
<1> DEFINE Busy == {m \in Nodes : Running(m)}
<1>f. /\ IsFiniteSet(Busy) /\ Cardinality(Busy) \in Nat
      /\ IsFiniteSet(Busy') /\ Cardinality(Busy') \in Nat
  BY FS_Subset, FS_CardinalityType
<1>n. Concurrency \in Nat
  BY SyncAssumption
<1>1. Init => WithinConcurrency
  <2> SUFFICES ASSUME Init PROVE Cardinality(Busy) <= Concurrency
    BY DEF WithinConcurrency
  <2>1. Busy = {}
    BY DEF Init, Running
  <2> QED BY <2>1, <1>n, FS_EmptySet
<1>2. TypeOK /\ WithinConcurrency /\ [Next]_vars => WithinConcurrency'
  <2> SUFFICES ASSUME TypeOK, WithinConcurrency, [Next]_vars
               PROVE  Cardinality(Busy') <= Concurrency
    BY DEF WithinConcurrency
  <2>1. Cardinality(Busy) <= Concurrency
    BY DEF WithinConcurrency
  <2>2. CASE Busy' \subseteq Busy
    <3>1. Cardinality(Busy') <= Cardinality(Busy)
      BY <2>2, <1>f, FS_Subset
    <3> QED BY <3>1, <2>1, <1>f, <1>n
  <2>3. ASSUME NEW n \in Nodes, Acquire(n)
        PROVE  Cardinality(Busy') <= Concurrency
    <3>1. Busy' \subseteq Busy \cup {n}
      BY <2>3, OnlyAcquireRuns DEF Acquire, Goto, Running, TypeOK
    <3>2. Cardinality(Busy) < Concurrency
      BY <2>3 DEF Acquire
    <3>3. /\ IsFiniteSet(Busy \cup {n})
          /\ Cardinality(Busy \cup {n}) <= Cardinality(Busy) + 1
      BY <1>f, FS_AddElement
    <3>4. Cardinality(Busy') <= Cardinality(Busy \cup {n})
      BY <3>1, <3>3, FS_Subset
    <3>5. Cardinality(Busy \cup {n}) \in Nat
      BY <3>3, FS_CardinalityType
    <3> HIDE DEF Busy
    <3> QED BY <3>2, <3>3, <3>4, <3>5, <1>f, <1>n
  <2>4. Busy' \subseteq Busy \/ \E n \in Nodes : Acquire(n)
    BY OnlyAcquireRuns
  <2> QED BY <2>2, <2>3, <2>4
<1> QED BY <1>1, <1>2, TypeCorrect, PTL DEF Spec

(***************************************************************************)
(* Refusals.                                                               *)
(***************************************************************************)

\* A run that nothing has disturbed is never refused a call (sync.go:167-191):
\* what it still has to remove is there and what it has to add is absent.
THEOREM NoRefusalHolds == Spec => NoRefusal
<1> DEFINE Refused(n) == /\ pc[n] = "apply" /\ pc'[n] = "mark_err"
                         /\ faults' = faults /\ ctx[n] = "live"
<1>1. ASSUME TypeOK, SyncInv, [Next]_vars, NEW n \in Nodes, Refused(n)
      PROVE  ~Quiet(n)
  <2> SUFFICES ASSUME Quiet(n) PROVE FALSE
    OBVIOUS
  <2>1. Progress(n)
    BY <1>1 DEF SyncInv, RunKnows
  <2>2. DOMAIN pc = Nodes
    BY <1>1 DEF TypeOK
  <2>3. ASSUME NEW a \in Accounts, RemoveUser(n, a) PROVE FALSE
    <3>1. Accepted(Given(n), a, NoUser)
      BY <2>1, <2>3 DEF RemoveUser, Progress, Accepted
    <3> QED BY <1>1, <2>3, <3>1 DEF RemoveUser
  <2>4. ASSUME NEW a \in Accounts, AddUser(n, a) PROVE FALSE
    <3>1. Accepted(Given(n), a, snap[n][a])
      BY <2>1, <2>4 DEF AddUser, Progress, Accepted
    <3> QED BY <1>1, <2>4, <3>1 DEF AddUser
  <2>5. ASSUME NEW a \in Users, CallFails(n, a) PROVE FALSE
    BY <1>1, <2>5 DEF CallFails, FailsNow, TypeOK
  <2>6. ASSUME NEW m \in Nodes, SyncStep(m) PROVE FALSE
    <3>1. ASSUME NEW phase, Goto(m, phase), m # n PROVE FALSE
      BY <1>1, <2>2, <3>1 DEF Goto
    <3>2. m = n
      <4>1. CASE \E a \in Users : RemoveUser(m, a) \/ AddUser(m, a) \/ CallFails(m, a)
        BY <1>1, <4>1, <3>1 DEF RemoveUser, AddUser, CallFails, Leave
      <4>2. CASE Acquire(m) \/ ReadTarget(m) \/ ListUsers(m) \/ Applied(m) \/ ReadFails(m)
        BY <4>2, <3>1 DEF Acquire, ReadTarget, ListUsers, Applied, ReadFails, Leave
      <4>3. CASE MarkOk(m) \/ MarkError(m) \/ MarkFails(m)
        BY <4>3, <3>1 DEF MarkOk, MarkError, MarkFails, Finish
      <4> QED BY <2>6, <4>1, <4>2, <4>3 DEF SyncStep
    <3>3. ~Applied(n)
      BY <1>1, <2>2 DEF Applied, Leave, Goto
    <3>4. ASSUME NEW a \in Users, RemoveUser(n, a) \/ AddUser(n, a) PROVE FALSE
      BY <1>1, <3>4, <2>3, <2>4, ManagedCall DEF RemoveUser, AddUser
    <3> QED
      BY <1>1, <2>5, <2>6, <3>2, <3>3, <3>4 DEF SyncStep, Acquire, ReadTarget, ListUsers, ReadFails,
         MarkOk, MarkError, MarkFails
  <2>7. CASE RoundStart \/ Crash
    BY <1>1, <2>7 DEF RoundStart, Crash
  <2>8. CASE Environment \/ (\E m \in Nodes : Deadline(m)) \/ UNCHANGED vars
    <3>1. UNCHANGED pc
      BY <2>8 DEF Environment, SaveAccount, DeleteAccount, SaveCustomer, DeleteCustomer,
         UpsertNode, PatchRead, PatchStep, PatchSave, PatchGivesUp, DeleteNode, RestartXray,
         Tick, LateStep, LateArrives, LateLost, Deadline, vars, runVars
    <3> QED BY <1>1, <3>1
  <2> QED BY <1>1, <2>6, <2>7, <2>8 DEF Next
<1> DEFINE NoneRefused ==
      \A n \in Nodes :
         (pc[n] = "apply" /\ pc'[n] = "mark_err" /\ faults' = faults /\ ctx[n] = "live")
             => ~Quiet(n)
<1>2. TypeOK /\ SyncInv /\ [Next]_vars => NoneRefused
  BY <1>1
<1> QED BY <1>2, InvariantHolds, PTL DEF Spec, NoRefusal
=============================================================================
