------------------------------ MODULE Catalogue ------------------------------
(***************************************************************************)
(* Administrators and deployments change the catalogue at the same time:   *)
(* PATCH of accounts and nodes, POST /admin/nodes/sync, creation, deletion *)
(* (internal/httpapi/server.go, internal/store/store.go).                  *)
(*                                                                         *)
(* A PATCH reads the whole row, changes what its body names and saves all  *)
(* of it; a sync upserts its nodes one by one in one transaction at READ   *)
(* COMMITTED, whose rows stay locked until it commits.  gorm's Save        *)
(* inserts a row that is gone, and its Replace saves the nodes it is given *)
(* before the bindings, with ON CONFLICT DO NOTHING.  The statements of    *)
(* one request are steps of their own, except that an account is read      *)
(* together with its bindings and written, in one transaction, together    *)
(* with them.                                                              *)
(***************************************************************************)
EXTENDS Naturals, Sequences

CONSTANTS
    Customers, Accounts, Nodes,   \* ids
    Names,         \* of nodes, unique
    Configs,       \* the other columns of a node
    Settings,      \* the other columns of an account
    Requests,      \* those that may overlap
    Bodies,        \* of POST /admin/nodes/sync
    InitNodes, InitAccounts,      \* the tables to start from
    Unset,         \* enabled is not in the body
    None,          \* the id was never used, or nothing
    Gone,          \* the row was deleted
    Muddled,       \* history: a save has met a change it had not read
    MaxRequests,   \* bound: requests in all
    MaxFaults      \* bound: failed statements and stopped processes

NodeRow == [name: Names, config: Configs, enabled: BOOLEAN]
AccountRow == [owner: Customers, setting: Settings, nodes: SUBSET Nodes]
Columns == {"owner", "setting", "nodes"}
Item == [name: Names, config: Configs, enabled: BOOLEAN \cup {Unset}]

ASSUME CatalogueAssumption ==
    /\ InitNodes \in [Nodes -> NodeRow \cup {None}]
    /\ \A m, n \in Nodes : InitNodes[m] # None /\ InitNodes[n] # None =>
          (m # n => InitNodes[m].name # InitNodes[n].name)
    /\ InitAccounts \in [Accounts -> AccountRow \cup {None}]
    /\ \A a \in Accounts : InitAccounts[a] # None =>
          \A n \in InitAccounts[a].nodes : InitNodes[n] # None
    /\ Unset \notin BOOLEAN
    /\ \A x \in {None, Gone, Muddled} :
          x \notin NodeRow \cup AccountRow \cup Nodes \cup Accounts
    /\ None # Gone /\ None # Muddled /\ Gone # Muddled
    /\ \A body \in Bodies : body \in Seq(Item) /\ body # <<>>
          /\ \A i, j \in DOMAIN body : body[i].name = body[j].name => i = j
    /\ MaxRequests \in Nat /\ MaxFaults \in Nat

VARIABLES
    customers,   \* those that exist
    node,        \* proxy_nodes
    account,     \* proxy_accounts, with proxy_account_nodes
    request,     \* the requests between their statements
    asked,       \* history: what the requests so far make of each account
    begun, faults

vars == <<customers, node, account, request, asked, begun, faults>>

Exists(row) == row \notin {None, Gone}

\* One record serves all requests; writes are the rows of an open transaction.
Idle ==
    [pc |-> "idle", id |-> None, old |-> None, row |-> None, named |-> {},
     loaded |-> [n \in Nodes |-> None], body |-> <<>>, at |-> 1, found |-> None,
     was |-> Unset, moved |-> {}, writes |-> [n \in Nodes |-> None]]

Request ==
    [pc: {"idle", "patch", "save", "insert", "node", "look", "write", "commit"},
     id: Accounts \cup Nodes \cup {None}, old: AccountRow \cup {None},
     row: AccountRow \cup {None}, named: SUBSET Columns,
     loaded: [Nodes -> NodeRow \cup {None}], body: Bodies \cup {<<>>}, at: Nat \ {0},
     found: Nodes \cup {None}, was: BOOLEAN \cup {Unset}, moved: SUBSET Nodes, writes: [Nodes -> NodeRow \cup {None}]]

\* Types, references and the unique name.
TypeOK ==
    /\ customers \subseteq Customers
    /\ node \in [Nodes -> NodeRow \cup {None, Gone}]
    /\ account \in [Accounts -> AccountRow \cup {None, Gone}]
    /\ \A m, n \in Nodes :
          (m # n /\ Exists(node[m]) /\ Exists(node[n])) => node[m].name # node[n].name
    /\ \A a \in Accounts : Exists(account[a]) =>
          /\ account[a].owner \in customers
          /\ \A n \in account[a].nodes : Exists(node[n])
    /\ request \in [Requests -> Request]
    /\ asked \in [Accounts -> AccountRow \cup {None, Gone, Muddled}]
    /\ begun \in 0 .. MaxRequests /\ faults \in 0 .. MaxFaults

Init ==
    /\ customers = Customers
    /\ node = InitNodes
    /\ account = InitAccounts
    /\ asked = InitAccounts
    /\ request = [r \in Requests |-> Idle]
    /\ begun = 0 /\ faults = 0

Begin == begun < MaxRequests /\ begun' = begun + 1
Goto(r, state) == request' = [request EXCEPT ![r] = state]

\* Mutant: the transaction is not rolled back.
EndLeaky(r) == request' = [request EXCEPT ![r] = [Idle EXCEPT !.writes = request[r].writes]]

\* The request is answered; an open transaction is rolled back.
End(r) == Goto(r, Idle)

(***************************************************************************)
(* Locks.                                                                  *)
(***************************************************************************)

Written(r) == {n \in Nodes : request[r].writes[n] # None}

\* A statement of r on node n, or with this name, waits for the transaction of q.
Waits(r, n, name, q) ==
    /\ q # r
    /\ \/ n \in Written(q)
       \/ \E m \in Written(q) : \/ request[q].writes[m].name = name
                                \/ Exists(node[m]) /\ node[m].name = name
Settled(r, n, name) == \A q \in Requests : ~Waits(r, n, name, q)

\* The rows as the transaction of r sees them.
Seen(r) == [n \in Nodes |-> IF n \in Written(r) THEN request[r].writes[n] ELSE node[n]]
FreeName(rows, n, name) == \A m \in Nodes \ {n} : Exists(rows[m]) => rows[m].name # name

(***************************************************************************)
(* Accounts.                                                               *)
(***************************************************************************)

\* updateProxyAccount reads the row; fillNodeIDs lists its nodes.
PatchRead(r, a) ==
    /\ request[r].pc = "idle" /\ Begin
    /\ Exists(account[a])
    /\ Goto(r, [Idle EXCEPT !.pc = "patch", !.id = a, !.old = account[a]])
    /\ UNCHANGED <<customers, node, account, asked, faults>>

\* Mutant: node_ids are not read with the account.
PatchedUnfilled(old, named, row) ==
    [c \in Columns |->
        IF c \in named THEN row[c] ELSE IF c = "nodes" THEN {} ELSE old[c]]

\* What the body names, and the rest as it was read.  (To name a column with the
\* value it has is the same as not to name it.)
Patched(old, named, row) == [c \in Columns |-> IF c \in named THEN row[c] ELSE old[c]]

\* loadNodesByIDs finds every node, or the request is refused.
Loadable(row) == \A n \in row.nodes : Exists(node[n])
Loaded(row) == [n \in Nodes |-> IF n \in row.nodes THEN node[n] ELSE None]

\* UpdateProxyAccount looks for the account and its nodes, also when the body does
\* not name node_ids.
PatchLoad(r) ==
    LET q == request[r]
    IN /\ q.pc = "patch"
       /\ \E body \in AccountRow :
             LET named == {c \in Columns : body[c] # q.old[c]}
                 row == Patched(q.old, named, body)
             IN IF Exists(account[q.id]) /\ Loadable(row)
                THEN Goto(r, [q EXCEPT !.pc = "save", !.row = row, !.named = named,
                                       !.loaded = Loaded(row)])
                ELSE End(r)
       /\ UNCHANGED <<customers, node, account, asked, begun, faults>>

\* CreateProxyAccount: the customer and the nodes are there; the id is new.
CreateLoad(r, a) ==
    /\ request[r].pc = "idle" /\ Begin
    /\ account[a] = None /\ \A q \in Requests : request[q].id # a
    /\ \E row \in AccountRow :
          /\ row.owner \in customers /\ Loadable(row)
          /\ Goto(r, [Idle EXCEPT !.pc = "insert", !.id = a, !.row = row,
                                  !.loaded = Loaded(row)])
    /\ UNCHANGED <<customers, node, account, asked, faults>>

Missing(q) == {n \in q.row.nodes : ~Exists(node[n])}

\* Replace inserts the nodes that are gone by now, unless their name is taken.
Replaceable(r) ==
    \A n \in Missing(request[r]) : FreeName(node, n, request[r].loaded[n].name)
Replace(q) ==
    node' = [n \in Nodes |-> IF n \in Missing(q) THEN q.loaded[n] ELSE node[n]]
ReplaceSettled(r) ==
    \A n \in Missing(request[r]) : Settled(r, n, request[r].loaded[n].name)

\* The transaction that writes the account and its bindings; without the customer
\* or a node the foreign keys fail it.
WriteAccount(r) ==
    LET q == request[r]
    IN /\ ReplaceSettled(r)
       /\ IF q.row.owner \in customers /\ Replaceable(r)
          THEN account' = [account EXCEPT ![q.id] = q.row] /\ Replace(q)
          ELSE UNCHANGED <<account, node>>
       /\ End(r)

\* UpdateProxyAccount saves every column; a row deleted since it was looked for is
\* inserted again.
PatchSave(r) ==
    LET q == request[r]
    IN /\ q.pc = "save"
       /\ WriteAccount(r)
       /\ asked' = IF account' = account THEN asked
                   ELSE [asked EXCEPT ![q.id] =
                           IF account[q.id] # q.old \/ @ = Muddled THEN Muddled
                           ELSE [c \in Columns |-> IF c \in q.named THEN q.row[c] ELSE @[c]]]
       /\ UNCHANGED <<customers, begun, faults>>

CreateInsert(r) ==
    /\ request[r].pc = "insert"
    /\ WriteAccount(r)
    /\ asked' = [asked EXCEPT ![request[r].id] = account'[request[r].id]]
    /\ UNCHANGED <<customers, begun, faults>>

DeleteAccount(a) ==
    /\ Begin /\ Exists(account[a])
    /\ account' = [account EXCEPT ![a] = Gone]
    /\ asked' = [asked EXCEPT ![a] = Gone]
    /\ UNCHANGED <<customers, node, request, faults>>

\* The accounts of a customer go with it.
DeleteCustomer(c) ==
    LET deleted == {a \in Accounts : Exists(account[a]) /\ account[a].owner = c}
    IN /\ Begin /\ c \in customers
       /\ customers' = customers \ {c}
       /\ account' = [a \in Accounts |-> IF a \in deleted THEN Gone ELSE account[a]]
       /\ asked' = [a \in Accounts |-> IF a \in deleted THEN Gone ELSE asked[a]]
       /\ UNCHANGED <<node, request, faults>>

(***************************************************************************)
(* Nodes.                                                                  *)
(***************************************************************************)

\* POST /admin/nodes: one INSERT, refused when the name is taken; the id is new.
CreateNode(n) ==
    /\ Begin /\ node[n] = None /\ \A r \in Requests : n \notin Written(r)
    /\ \E row \in NodeRow :
          /\ \A r \in Requests : \A m \in Written(r) :
                request[r].writes[m].name # row.name
          /\ FreeName(node, n, row.name)
          /\ node' = [node EXCEPT ![n] = row]
    /\ UNCHANGED <<customers, account, request, asked, faults>>

\* Mutant: the foreign keys of proxy_account_nodes do not cascade.
DeleteNodeOnly(n) ==
    /\ Begin /\ Exists(node[n])
    /\ \A r \in Requests : n \notin Written(r)
    /\ node' = [node EXCEPT ![n] = Gone]
    /\ UNCHANGED <<customers, account, request, asked, faults>>

\* DELETE /admin/nodes/{id} waits for a transaction that has written the row; the
\* bindings go with it.
DeleteNode(n) ==
    LET Unbound(rows) == [a \in Accounts |->
            IF rows[a] \in AccountRow THEN [rows[a] EXCEPT !.nodes = @ \ {n}] ELSE rows[a]]
    IN /\ Begin /\ Exists(node[n])
       /\ \A r \in Requests : n \notin Written(r)
       /\ node' = [node EXCEPT ![n] = Gone]
       /\ account' = Unbound(account)
       /\ asked' = Unbound(asked)
       /\ UNCHANGED <<customers, request, faults>>

\* updateNode reads the row...
NodeRead(r, n) ==
    /\ request[r].pc = "idle" /\ Begin
    /\ Exists(node[n])
    /\ Goto(r, [Idle EXCEPT !.pc = "node", !.id = n])
    /\ UNCHANGED <<customers, node, account, asked, faults>>

\* ...and saves all of it: what applyNodePatch changed, which may be any column, and
\* the others as they were read.  UpdateProxyNode refuses a row that was deleted
\* before it looked, and inserts one deleted since.
NodeSave(r) ==
    LET q == request[r]
    IN /\ q.pc = "node"
       /\ \E row \in NodeRow :
             /\ Settled(r, q.id, row.name)
             /\ \/ /\ FreeName(node, q.id, row.name)
                   /\ node' = [node EXCEPT ![q.id] = row]
                \/ /\ ~Exists(node[q.id]) \/ ~FreeName(node, q.id, row.name)
                   /\ UNCHANGED node
       /\ End(r)
       /\ UNCHANGED <<customers, account, asked, begun, faults>>

(***************************************************************************)
(* POST /admin/nodes/sync.                                                 *)
(***************************************************************************)

SyncNodes(r) ==
    /\ request[r].pc = "idle" /\ Begin
    /\ \E body \in Bodies : Goto(r, [Idle EXCEPT !.pc = "look", !.body = body])
    /\ UNCHANGED <<customers, node, account, asked, faults>>

TheItem(q) == q.body[q.at]

\* upsertProxyNodeByNameTx looks for the name, without a lock...
Look(r) ==
    LET q == request[r]
        named == {n \in Nodes : Exists(Seen(r)[n]) /\ Seen(r)[n].name = TheItem(q).name}
    IN /\ q.pc = "look"
       /\ \/ /\ named = {}
             /\ Goto(r, [q EXCEPT !.pc = "write", !.found = None, !.was = Unset])
          \/ \E n \in named :
                Goto(r, [q EXCEPT !.pc = "write", !.found = n, !.was = Seen(r)[n].enabled])
       /\ UNCHANGED <<customers, node, account, asked, begun, faults>>

\* Mutant: an omitted enabled is taken for false.
EnabledUnpreserved(item, was) == IF item.enabled = Unset THEN FALSE ELSE item.enabled

\* preserveEnabled: the value that was read, or TRUE for a new node.
Enabled(item, was) ==
    IF item.enabled # Unset THEN item.enabled ELSE IF was # Unset THEN was ELSE TRUE

Upserted(q) ==
    LET item == TheItem(q)
    IN [name |-> item.name, config |-> item.config, enabled |-> Enabled(item, q.was)]

Targets(r) ==
    IF request[r].found # None THEN {request[r].found}
    ELSE {n \in Nodes : Seen(r)[n] = None /\ \A q \in Requests : n \notin Written(q)}

AfterWrite(r, n, q) ==
    [q EXCEPT !.pc = IF q.at < Len(q.body) THEN "look" ELSE "commit",
              !.at = @ + 1, !.found = None, !.was = Unset,
              !.moved = IF q.was # Unset /\ Exists(node[n]) /\ node[n].enabled # q.was
                        THEN @ \cup {n} ELSE @]

\* Mutant: each node is upserted in a transaction of its own.
WriteAlone(r) ==
    LET q == request[r]
    IN /\ q.pc = "write"
       /\ \E n \in Targets(r) :
             /\ FreeName(node, n, TheItem(q).name)
             /\ node' = [node EXCEPT ![n] = Upserted(q)]
             /\ Goto(r, AfterWrite(r, n, q))
       /\ UNCHANGED <<customers, account, asked, begun, faults>>

\* ...then creates the node, or saves the one found, inserting it again if it is
\* gone, once no open transaction holds the row or the name.
Write(r) ==
    LET q == request[r]
    IN /\ q.pc = "write"
       /\ \E n \in Targets(r) :
             /\ Settled(r, n, TheItem(q).name)
             /\ FreeName(Seen(r), n, TheItem(q).name)
             /\ Goto(r, [AfterWrite(r, n, q) EXCEPT !.writes[n] = Upserted(q)])
       /\ UNCHANGED <<customers, node, account, asked, begun, faults>>

\* The name went to another node meanwhile: the whole batch is rolled back.  (Or
\* the bound on ids is reached.)
WriteRefused(r) ==
    /\ request[r].pc = "write"
    /\ \/ \E n \in Targets(r) :
             /\ Settled(r, n, TheItem(request[r]).name)
             /\ ~FreeName(Seen(r), n, TheItem(request[r]).name)
       \/ Targets(r) = {}
    /\ End(r)
    /\ UNCHANGED <<customers, node, account, asked, begun, faults>>

Commit(r) ==
    /\ request[r].pc = "commit"
    /\ node' = Seen(r)
    /\ End(r)
    /\ UNCHANGED <<customers, account, asked, begun, faults>>

WaitsFor(r, q) ==
    /\ request[r].pc = "write"
    /\ \E n \in Targets(r) : Waits(r, n, TheItem(request[r]).name, q)

\* PostgreSQL ends one of the transactions that wait for each other.
Deadlock(r) ==
    /\ \E S \in SUBSET Requests : r \in S /\ \A p \in S : \E q \in S : WaitsFor(p, q)
    /\ End(r)
    /\ UNCHANGED <<customers, node, account, asked, begun, faults>>

\* A statement fails, a body is refused, or the client goes away.
Fail(r) ==
    /\ request[r].pc # "idle" /\ faults < MaxFaults
    /\ faults' = faults + 1
    /\ End(r)
    /\ UNCHANGED <<customers, node, account, asked, begun>>

Step(r) ==
    \/ PatchLoad(r) \/ PatchSave(r) \/ CreateInsert(r) \/ NodeSave(r)
    \/ Look(r) \/ Write(r) \/ WriteRefused(r) \/ Commit(r) \/ Deadlock(r)

Next ==
    \/ \E r \in Requests :
          \/ \E a \in Accounts : PatchRead(r, a) \/ CreateLoad(r, a)
          \/ \E n \in Nodes : NodeRead(r, n)
          \/ SyncNodes(r) \/ Step(r) \/ Fail(r)
    \/ \E a \in Accounts : DeleteAccount(a)
    \/ \E c \in Customers : DeleteCustomer(c)
    \/ \E n \in Nodes : CreateNode(n) \/ DeleteNode(n)

Spec == Init /\ [][Next]_vars

\* A request that is being served is carried on.
Fairness == \A r \in Requests : WF_vars(Step(r))
FairSpec == Spec /\ Fairness

(***************************************************************************)
(* Properties.                                                             *)
(***************************************************************************)

\* An account is what its requests asked for, one after the other, each changing
\* what its body named and nothing else, as long as no PATCH saved it over a
\* change it had not read: also when nodes are deleted between the statements of
\* a request, or requests fail (updateProxyAccount, UpdateProxyAccount).
AsRequested == \A a \in Accounts : asked[a] \in {Muddled, account[a]}

Committing(r) == request[r].pc = "commit" /\ request'[r].pc = "idle" /\ faults' = faults

\* A sync that succeeds leaves every node of its body there with the name and the
\* columns it gave, all at once, whatever is created, renamed or deleted between
\* its statements (README.md:135-137).
SyncComplete ==
    [][\A r \in Requests : Committing(r) =>
          \A i \in DOMAIN request[r].body :
             LET item == request[r].body[i]
             IN \E n \in Nodes :
                   /\ node'[n] \in NodeRow
                   /\ node'[n].name = item.name /\ node'[n].config = item.config
                   /\ item.enabled \in {Unset, node'[n].enabled}]_vars

\* README.md:163: "If `enabled` is omitted, existing nodes keep their current
\* enabled state".  They do, unless another request changes it between the two
\* statements of the upsert: from the second on the row is locked.
EnabledKept ==
    [][\A r \in Requests : Committing(r) =>
          \A i \in DOMAIN request[r].body, n \in Written(r) \ request[r].moved :
             /\ request[r].body[i].enabled = Unset
             /\ request[r].writes[n].name = request[r].body[i].name
             /\ Exists(node[n])
             => node'[n].enabled = node[n].enabled]_vars

\* Every request is answered, also when two syncs name the same nodes in opposite
\* orders and wait for each other.
RequestsEnd == \A r \in Requests : request[r].pc # "idle" ~> request[r].pc = "idle"
=============================================================================
