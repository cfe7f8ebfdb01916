----------------------------- MODULE LegacyImport -----------------------------
(***************************************************************************)
(* The imports of an older installation (internal/store/legacy_import.go,  *)
(* internal/cli/import.go): the clients of an Xray configuration, or the   *)
(* links of a published subscription file, become accounts of one legacy   *)
(* customer, bound to the nodes they name.  An import is a transaction at  *)
(* READ COMMITTED, one action per statement; several may run at once and   *)
(* next to administrators.                                                 *)
(*                                                                         *)
(* A statement that meets a row another import has inserted and not yet    *)
(* committed waits for it: the action is disabled.  What an import has     *)
(* written stays in its own record until it commits.  An administrator's   *)
(* request is one atomic change; one that deletes waits for the row locks  *)
(* that foreign keys have taken.                                           *)
(***************************************************************************)
EXTENDS Naturals, Sequences

CONSTANTS
    Importers,   \* import commands, each with its file
    File,        \* the links of each, in order
    Kind,        \* "xray" or "subscription" for each
    Uuids, Flows, Nodes,
    Keys,        \* host, port, transport, security and path of a link
    InitNodes,   \* the nodes registered at the start
    MaxChanges,  \* bound: administrative changes
    MaxFaults    \* bound: imports that stop

\* best: the nodes that the link matches, in the order of their score.
Link == [uuid: Uuids, flow: Flows, key: Keys, best: Seq(Nodes)]

ASSUME LegacyImportAssumption ==
    /\ File \in [Importers -> Seq(Link)]
    /\ Kind \in [Importers -> {"xray", "subscription"}]
    /\ \A i \in Importers : Kind[i] = "xray" =>
          \A k \in DOMAIN File[i] : /\ Len(File[i][k].best) = 1
                                    /\ File[i][k].best = File[i][1].best
                                    /\ File[i][k].key = File[i][1].key
    /\ Uuids # {} /\ InitNodes \subseteq Nodes
    /\ MaxChanges \in Nat /\ MaxFaults \in Nat

VARIABLES
    customer,   \* the row with the legacy email; ids count such rows
    tokens,     \* how many subscription tokens it has
    account,    \* proxy_accounts by uuid; ids count the rows with that uuid
    bound,      \* proxy_account_nodes
    nodes,      \* proxy_nodes
    tx,         \* each import's transaction
    imported,   \* history: committed, and no administrator has changed anything since it began
    changes, faults

tables == <<customer, tokens, account, bound, nodes>>
vars == <<tables, tx, imported, changes, faults>>

Other == 0   \* the id that stands for every other customer

NoTx == [pc |-> "idle"]
Open(i) == tx[i].pc # "idle"
\* fresh: the rows it has inserted; touched: what administrators changed meanwhile.
Tx == [pc: {"customer", "count", "token", "nodes", "find", "account", "bind"},
       at: Nat, owner: Nat, newOwner: BOOLEAN, newToken: BOOLEAN, nodes: SUBSET Nodes,
       held: Nat, fresh: SUBSET [uuid: Uuids, flow: Flows], binds: SUBSET (Uuids \X Nodes),
       touched: SUBSET (Uuids \cup Nodes)]

TypeOK ==
    /\ customer \in [here: BOOLEAN, id: Nat]
    /\ tokens \in Nat /\ (tokens > 0 => customer.here)
    /\ account \in [Uuids -> [here: BOOLEAN, id: Nat, owner: Nat, flow: Flows]]
    /\ \A u \in Uuids : (account[u].here /\ account[u].owner # Other)
          => customer.here /\ account[u].owner = customer.id
    /\ bound \subseteq Uuids \X nodes
    /\ \A b \in bound : account[b[1]].here
    /\ nodes \subseteq Nodes
    /\ tx \in [Importers -> {NoTx} \cup Tx]
    /\ \A i, j \in Importers : (i # j /\ Open(i) /\ Open(j)) =>
          /\ ~(tx[i].newOwner /\ tx[j].newOwner)
          /\ \A a \in tx[i].fresh, b \in tx[j].fresh : a.uuid # b.uuid
    /\ imported \in [Importers -> BOOLEAN]
    /\ changes \in 0 .. MaxChanges /\ faults \in 0 .. MaxFaults

Init ==
    /\ customer = [here |-> FALSE, id |-> 0] /\ tokens = 0
    /\ \E f \in Flows :
          account = [u \in Uuids |-> [here |-> FALSE, id |-> 0, owner |-> Other, flow |-> f]]
    /\ bound = {} /\ nodes = InitNodes
    /\ tx = [i \in Importers |-> NoTx]
    /\ imported = [i \in Importers |-> FALSE]
    /\ changes = 0 /\ faults = 0

(***************************************************************************)
(* The transaction.                                                        *)
(***************************************************************************)

Step(i, next) == tx' = [tx EXCEPT ![i] = next] /\ UNCHANGED <<tables, imported, changes, faults>>
\* Any error rolls everything back.
Refuse(i) == Step(i, NoTx)

\* The foreign key on the customer: the row is there, or is the import's own.
OwnerStands(i) == tx[i].newOwner \/ (customer.here /\ customer.id = tx[i].owner)

FindCustomer(i) ==
    /\ ~Open(i)
    /\ Step(i, [pc |-> IF customer.here THEN "count" ELSE "customer", at |-> 1,
                owner |-> customer.id, newOwner |-> FALSE, newToken |-> FALSE, nodes |-> {},
                held |-> 0, fresh |-> {}, binds |-> {}, touched |-> {}])

InsertCustomer(i) ==
    /\ tx[i].pc = "customer"
    /\ \A j \in Importers : Open(j) => ~tx[j].newOwner
    /\ IF customer.here THEN Refuse(i)
       ELSE Step(i, [tx[i] EXCEPT !.pc = "count", !.owner = customer.id + 1, !.newOwner = TRUE])

\* ensureSubscriptionTokenTx, for subscription files.
CountTokens(i) ==
    /\ tx[i].pc = "count"
    /\ LET none == tx[i].newOwner \/ ~OwnerStands(i) \/ tokens = 0
       IN Step(i, [tx[i] EXCEPT !.pc =
                     IF Kind[i] = "subscription" /\ none THEN "token" ELSE "nodes"])
InsertToken(i) ==
    /\ tx[i].pc = "token"
    /\ IF OwnerStands(i) THEN Step(i, [tx[i] EXCEPT !.pc = "nodes", !.newToken = TRUE])
                         ELSE Refuse(i)

\* An Xray configuration is imported for one node, which must be there.
ReadNodes(i) ==
    /\ tx[i].pc = "nodes"
    /\ IF Kind[i] = "xray" /\ \E k \in DOMAIN File[i] : File[i][k].best[1] \notin nodes
       THEN Refuse(i)
       ELSE Step(i, [tx[i] EXCEPT !.pc = "find", !.nodes = nodes])

\* Mutant: links of a subscription file are told apart by their UUID alone.
RepeatedUuid(i, k) == \E j \in 1 .. k - 1 : File[i][j].uuid = File[i][k].uuid
\* seen and seenLinks; the clients of an Xray configuration have one address.
Repeated(i, k) ==
    \E j \in 1 .. k - 1 : File[i][j].uuid = File[i][k].uuid /\ File[i][j].key = File[i][k].key

AtLink(i) == tx[i].pc = "find" /\ tx[i].at \in DOMAIN File[i]
ThisLink(i) == File[i][tx[i].at]

SkipRepeated(i) ==
    /\ AtLink(i) /\ Repeated(i, tx[i].at)
    /\ Step(i, [tx[i] EXCEPT !.at = @ + 1])

\* matchLegacySubscriptionNode: the best of the nodes that were read.
Matching(read, link) == SelectSeq(link.best, LAMBDA n : n \in read)
Matches(i, link) == Matching(tx[i].nodes, link)

\* From the account to its binding, or past a link that matches no node.
WithAccount(i, next, id) ==
    Step(i, IF Matches(i, ThisLink(i)) = <<>>
            THEN [next EXCEPT !.pc = "find", !.at = @ + 1]
            ELSE [next EXCEPT !.pc = "bind", !.held = id])

\* upsertLegacyProxyAccountByUUIDTx sees committed rows and its own.
Own(i, u) == \E a \in tx[i].fresh : a.uuid = u
\* Mutant: an account of another customer is taken as it is.
FindAccountAnyOwner(i) ==
    /\ AtLink(i) /\ ~Repeated(i, tx[i].at)
    /\ LET link == ThisLink(i) row == account[link.uuid] IN
       CASE Own(i, link.uuid) ->
              IF [uuid |-> link.uuid, flow |-> link.flow] \in tx[i].fresh
              THEN WithAccount(i, tx[i], row.id + 1) ELSE Refuse(i)
         [] ~Own(i, link.uuid) /\ row.here ->
              IF row.flow = link.flow THEN WithAccount(i, tx[i], row.id) ELSE Refuse(i)
         [] OTHER -> Step(i, [tx[i] EXCEPT !.pc = "account"])
FindAccount(i) ==
    /\ AtLink(i) /\ ~Repeated(i, tx[i].at)
    /\ LET link == ThisLink(i) row == account[link.uuid] IN
       CASE Own(i, link.uuid) ->
              IF [uuid |-> link.uuid, flow |-> link.flow] \in tx[i].fresh
              THEN WithAccount(i, tx[i], row.id + 1) ELSE Refuse(i)
         [] ~Own(i, link.uuid) /\ row.here ->
              IF row.owner = tx[i].owner /\ row.flow = link.flow
              THEN WithAccount(i, tx[i], row.id) ELSE Refuse(i)
         [] OTHER -> Step(i, [tx[i] EXCEPT !.pc = "account"])

InsertAccount(i) ==
    /\ tx[i].pc = "account"
    /\ LET link == ThisLink(i) IN
       /\ \A j \in Importers \ {i} : Open(j) => ~Own(j, link.uuid)
       /\ IF account[link.uuid].here \/ ~OwnerStands(i) THEN Refuse(i)
          ELSE WithAccount(i, [tx[i] EXCEPT
                 !.fresh = @ \cup {[uuid |-> link.uuid, flow |-> link.flow]}],
                 account[link.uuid].id + 1)

\* The foreign keys of a binding.
Bindable(i, u, n) ==
    /\ n \in nodes
    /\ Own(i, u) \/ (account[u].here /\ account[u].id = tx[i].held)
Target(i) == <<ThisLink(i).uuid, Matches(i, ThisLink(i))[1]>>

\* Mutant: no ON CONFLICT DO NOTHING.
BindStrictly(i) ==
    /\ tx[i].pc = "bind"
    /\ \A j \in Importers \ {i} : Open(j) => Target(i) \notin tx[j].binds
    /\ IF Bindable(i, Target(i)[1], Target(i)[2]) /\ Target(i) \notin bound \cup tx[i].binds
       THEN Step(i, [tx[i] EXCEPT !.pc = "find", !.at = @ + 1, !.binds = @ \cup {Target(i)}])
       ELSE Refuse(i)
Bind(i) ==
    /\ tx[i].pc = "bind"
    /\ \A j \in Importers \ {i} : Open(j) => Target(i) \notin tx[j].binds
    /\ IF Bindable(i, Target(i)[1], Target(i)[2])
       THEN Step(i, [tx[i] EXCEPT !.pc = "find", !.at = @ + 1,
                                  !.binds = @ \cup ({Target(i)} \ bound)])
       ELSE Refuse(i)

Commit(i) ==
    /\ tx[i].pc = "find" /\ tx[i].at = Len(File[i]) + 1
    /\ customer' = IF tx[i].newOwner THEN [here |-> TRUE, id |-> tx[i].owner] ELSE customer
    /\ tokens' = IF tx[i].newToken THEN tokens + 1 ELSE tokens
    /\ account' = [u \in Uuids |->
          IF Own(i, u)
          THEN [here |-> TRUE, id |-> account[u].id + 1, owner |-> tx[i].owner,
                flow |-> (CHOOSE a \in tx[i].fresh : a.uuid = u).flow]
          ELSE account[u]]
    /\ bound' = bound \cup tx[i].binds
    /\ imported' = [imported EXCEPT ![i] = tx[i].touched = {}]
    /\ tx' = [tx EXCEPT ![i] = NoTx]
    /\ UNCHANGED <<nodes, changes, faults>>

Waits(i, j) ==
    /\ i # j /\ Open(i) /\ Open(j)
    /\ \/ tx[i].pc = "customer" /\ tx[j].newOwner
       \/ tx[i].pc = "account" /\ Own(j, ThisLink(i).uuid)
       \/ tx[i].pc = "bind" /\ Target(i) \in tx[j].binds
\* PostgreSQL ends one of two transactions that wait for each other; the runs have
\* no longer cycles.
Deadlock(i) ==
    /\ \E j \in Importers : Waits(i, j) /\ Waits(j, i)
    /\ Refuse(i)

\* The process or the database connection stops.
Fail(i) ==
    /\ Open(i)
    /\ faults < MaxFaults /\ faults' = faults + 1
    /\ tx' = [tx EXCEPT ![i] = NoTx]
    /\ UNCHANGED <<tables, imported, changes>>

(***************************************************************************)
(* Administrators.                                                         *)
(***************************************************************************)

Change(what) ==
    /\ changes < MaxChanges /\ changes' = changes + 1
    /\ imported' = [i \in Importers |-> FALSE]
    /\ tx' = [i \in Importers |->
                IF Open(i) THEN [tx[i] EXCEPT !.touched = @ \cup what] ELSE NoTx]
    /\ UNCHANGED faults

\* Foreign keys hold the rows that an open transaction refers to.
HoldsCustomer(i) == tx[i].newToken \/ tx[i].fresh # {} \/ tx[i].binds # {}
\* Mutant: the bindings do not go with their account.
CutOffAccounts(us) ==
    /\ account' = [u \in Uuids |->
          IF u \in us THEN [account[u] EXCEPT !.here = FALSE, !.owner = Other] ELSE account[u]]
    /\ bound' = bound
CutOff(us) ==
    /\ account' = [u \in Uuids |->
          IF u \in us THEN [account[u] EXCEPT !.here = FALSE, !.owner = Other] ELSE account[u]]
    /\ bound' = {b \in bound : b[1] \notin us}

DeleteAccount(u) ==
    /\ account[u].here
    /\ \A i \in Importers : Open(i) => \A b \in tx[i].binds : b[1] # u
    /\ CutOff({u})
    /\ Change({u})
    /\ UNCHANGED <<customer, tokens, nodes>>

DeleteCustomer ==
    /\ customer.here
    /\ \A i \in Importers : Open(i) => ~HoldsCustomer(i)
    /\ customer' = [customer EXCEPT !.here = FALSE] /\ tokens' = 0
    /\ CutOff({u \in Uuids : account[u].here /\ account[u].owner = customer.id})
    /\ Change(Uuids)
    /\ UNCHANGED nodes

\* PATCH /admin/proxy-accounts/{id}: flow, customer or bindings.
PatchAccount(u) ==
    /\ account[u].here
    /\ \E f \in Flows, o \in {account[u].owner, Other}, ns \in SUBSET nodes :
          /\ \A i \in Importers : Open(i) =>
                \A n \in ns : <<u, n>> \notin tx[i].binds \/ <<u, n>> \in bound
          /\ account' = [account EXCEPT ![u].flow = f, ![u].owner = o]
          /\ bound' = {b \in bound : b[1] # u} \cup ({u} \X ns)
    /\ Change({u})
    /\ UNCHANGED <<customer, tokens, nodes>>

AddNode(n) ==
    /\ n \notin nodes /\ nodes' = nodes \cup {n}
    /\ Change({n})
    /\ UNCHANGED <<customer, tokens, account, bound>>
DeleteNode(n) ==
    /\ n \in nodes
    /\ \A i \in Importers : Open(i) => \A b \in tx[i].binds : b[2] # n
    /\ nodes' = nodes \ {n}
    /\ bound' = {b \in bound : b[2] # n}
    /\ Change({n})
    /\ UNCHANGED <<customer, tokens, account>>

Ends(i) == Open(i) /\ tx'[i] = NoTx
Statement(i) ==
    \/ FindCustomer(i) \/ InsertCustomer(i) \/ CountTokens(i) \/ InsertToken(i)
    \/ ReadNodes(i) \/ SkipRepeated(i) \/ FindAccount(i) \/ InsertAccount(i) \/ Bind(i)
    \/ Commit(i)

Next ==
    \/ \E i \in Importers : Statement(i) \/ Deadlock(i) \/ Fail(i)
    \/ \E u \in Uuids : DeleteAccount(u) \/ PatchAccount(u)
    \/ \E n \in Nodes : AddNode(n) \/ DeleteNode(n)
    \/ DeleteCustomer

Spec == Init /\ [][Next]_vars

(***************************************************************************)
(* Properties.                                                             *)
(***************************************************************************)

Commits(i) == tx[i].pc = "find" /\ tx[i].at = Len(File[i]) + 1 /\ Ends(i) /\ faults' = faults

\* An import that commits leaves the account of each of its links, but the repeated
\* ones, under the legacy
\* customer, with the link's flow and bound to the node it matches best, whatever
\* other imports did meanwhile; except where an administrator changed the account
\* or the node during the import (legacy_import.go:134-231).
ImportComplete ==
    [][\A i \in Importers : Commits(i) =>
          \A k \in DOMAIN File[i] :
              LET link == File[i][k]
                  match == Matches(i, link)
              IN \/ \E j \in 1 .. k - 1 : File[i][j].uuid = link.uuid /\ File[i][j].key = link.key
                 \/ link.uuid \in tx[i].touched
                 \/ /\ account'[link.uuid].here
                    /\ account'[link.uuid].owner = customer'.id
                    /\ account'[link.uuid].flow = link.flow
                    /\ \/ match = <<>>
                       \/ match[1] \in tx[i].touched
                       \/ <<link.uuid, match[1]>> \in bound']_vars

\* README.md:179, "The import is idempotent", and 205, "Re-running the import is
\* safe; existing tokens are kept": repeated when no administrator has changed
\* anything since, an import is refused nothing, waits in no deadlock and changes
\* nothing, whatever other imports ran before it or run meanwhile.
RerunChangesNothing ==
    [][\A i \in Importers :
          (imported[i] /\ Ends(i) /\ faults' = faults)
              => Commits(i) /\ UNCHANGED tables]_vars

\* An import never lays hands on an account of another customer: no row of
\* another customer gets a binding, another flow or another owner by it, unless
\* an administrator moved the account while the import was at work
\* (legacy_import.go:267-269).
OthersUntouched ==
    [][\A i \in Importers : Commits(i) =>
          \A u \in Uuids \ tx[i].touched :
              (account[u].here /\ account[u].owner = Other)
                  => /\ account'[u] = account[u]
                     /\ \A n \in Nodes : (<<u, n>> \in bound') = (<<u, n>> \in bound)]_vars
=============================================================================
