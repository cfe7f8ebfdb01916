# Verification of proxy-control-plane

TLA+ models of the control plane in `src/`, the TLC configurations that check
them on small instances, and TLAPS proofs for every instance. The code is the
reference: each definition that stands for code is listed in `PROJECT.json`
("map") with the lines it models, and an operator marked "Mutant" is a plausible
bug of the definition after it, kept to show that the properties would notice.

## 1. Inventory

The program is one Go process (`server serve`) and a command line on one
PostgreSQL database. Next to it run Xray processes, one per node, which it
reaches over gRPC. The process runs these concurrently:

- the HTTP API, one goroutine per request;
- the runtime syncer, one goroutine per node and round;
- the traffic collector, likewise;
- the maintenance cleanup loop, which the command line can run at the same time.

They share nothing in memory and meet in the database, where most requests are
several statements outside a transaction, and in the Xray instances. Imports,
migrations and subscription commands are processes of their own, next to it.

| component | state | operations | what is hard | what makes it correct |
|---|---|---|---|---|
| runtime sync (`runtimesync/sync.go`, `xray.go`, `store/runtime_sync.go`) | users of each inbound, `last_runtime_sync_at` and `last_runtime_error` of each node | round, read the target, list, remove, add, mark | rows change during a run, the address of the instance too; calls fail, take effect unseen or late; Xray restarts; a PATCH writes old columns back | a stamp means what an operator reads in it; users outside the project's names are never touched; nobody correct is interrupted; nodes converge |
| traffic collection (`trafficsync/sync.go`, `xray.go`, `store/traffic.go`) | counters in Xray, the deltas a goroutine holds, `traffic_usage` | query with reset, select the bound accounts, insert | the query destroys what it returns; failures and crashes between the steps; unbinding; deletion of accounts and nodes | no byte twice; every byte lost has a known cause; collection goes on after failures |
| traffic ledger (`store/maintenance.go`, `store/traffic.go`, `cli/maintenance.go`, `cli/service.go`) | `traffic_usage`, `traffic_usage_daily` | aggregate, delete, purge, the totals | two statements with two snapshots; two cleaners; a cutoff inside a day; interrupted cleanups | nothing inside the retention is lost or doubled; totals miss nothing; old detail goes |
| login sessions (`httpapi/server.go`, `store/store.go`, `security/security.go`) | `customers`, `auth_refresh_tokens`, requests in flight | login, refresh, logout, PATCH, DELETE, revoke, clean up | requests of several statements interleave with a reset; rotations race; whole rows are written back | one live token per login; nothing of a replaced version is usable; nobody's session is ended by somebody else's request |
| subscription tokens and subscriptions (`httpapi`, `store`, `subscription`, `cli/subscription.go`) | `subscription_tokens` | create, PATCH, rotate, use, ensure, encrypt, build the links | whole-row PATCH against a rotation; ensure against create; boundaries of expiry | what the portal shows opens; a dead link is revived only by who saves its row; what is served is what the nodes serve |
| catalogue (`store/store.go`, `httpapi/server.go`, `domain/models.go`) | customers, nodes, accounts, bindings | create, PATCH, DELETE, the batch upsert of nodes | read-modify-write; `Save` inserts a deleted row again; bindings replaced by those read; batches that lock rows in different orders | rows are what was asked for; a batch is all or nothing and keeps `enabled`; references stay valid; requests end |
| legacy import (`store/legacy_import.go`, `cli/import.go`, `subscription/parse.go`) | the same tables | the two imports | repeated and concurrent imports, deadlocks between them, administrators meanwhile | a committed import is complete; repeating one changes nothing; other customers' accounts are left alone |
| schema migrations (`store/migrations.go`, `migrations/*.sql`) | the database, `schema_migrations`, the schema | create the database, list, read, apply | several processes on a new server; stops and lost answers between files; directories that change | each file once, in order; success means that all is applied; repeated runs get through |
| domain access log (`store/domain_access.go`) | `domain_access_logs` | record, summarise | nothing beyond age | — |
| configuration, command line | — | read and validate | — | — |
| digests and encryption (`security/security.go`) | — | pure functions | — | — |
| Xray client configuration reader (`xrayconfig`) | — | pure function | — | — |

The code's hazards are listed with their lines in `PROJECT.json` ("hazards"),
each with the properties that cover it or the reason that none does yet.

## 2. Modules

| module | what it is | theorems |
|---|---|---|
| `RuntimeSync` | the syncer, the rows it reads and writes, Xray, administrators, failures | `RuntimeSyncProofs` |
| `Reconcile` | what the syncer promises to users, without rounds, snapshots and calls | |
| `TrafficCollection` | the collector and the Xray counters | `TrafficCollectionProofs` |
| `Delivery` | what collection promises: accounting at most once, without nodes and calls | |
| `TrafficLedger` | cleanups as transactions at READ COMMITTED, writers and totals | `TrafficLedgerProofs` |
| `AuthSessions` | logins, refreshes, logouts, resets, cleanup of tokens | `AuthSessionsProofs` |
| `SessionLife` | what a session is: begun once, over for good, without tokens and requests | |
| `Subscriptions` | subscription tokens: administrators, commands and clients | `SubscriptionsProofs` |
| `Catalogue` | accounts, bindings and nodes under overlapping requests and batches | `CatalogueProofs` |
| `Migrations` | `db migrate`: the database, `schema_migrations` and the files | `MigrationsProofs` |
| `LegacyImport` | the two imports as transactions at READ COMMITTED | `LegacyImportProofs` |
| `MC...` | the constants of the runs | |

### RuntimeSync

*State.* `account`, `customer`, `node` are the rows that matter. A node's row names
an inbound by API host, port and tag, its address (`api`); `xray[n][x]` maps each
user (email) of the inbound that node `n` has at address `x` to its identity, a
(UUID, flow) pair. Users of `config.json` are `Statics`. Per node, `pc`, `at`, `now`,
`ctx`, `snap`, `del` and `add` are the locals of `syncAll` and `SyncNode`: the phase,
the address in the struct that the goroutine was started with, the `now` argument,
whether the context has expired, the target it read, what it still has to remove
and add. `late` holds calls the syncer gave up on that are still under way.
`patch[n]` is the row a `PATCH /admin/nodes/{id}` has read and not yet saved.

*Steps.* One action per statement or call: `RoundStart` (a tick of `Run`),
`Acquire` (the semaphore), `ReadTarget`, `ListUsers`, `RemoveUser`, `AddUser`,
`Applied`, `MarkOk`, `MarkError`. `ReadFails`, `CallFails` and `MarkFails` are
their error returns; a failed call was not delivered, or was applied with its
answer lost, or arrives later (`LateArrives`). `Deadline` ends the node's
context, after which every step fails at once, the marking of the error included:
such an error never reaches the row. `Crash` ends the process. The environment
changes accounts, customers and nodes as the handlers do; `PatchSave` writes back
all columns as read, but for those the PATCH names, and inserts a deleted row again,
as gorm's `Save` does.

*Changed addresses.* `syncAll` keeps the struct it listed (`RoundStart` sets `at`)
while the goroutine waits for the semaphore, and `now` is taken after the wait. A
PATCH or an upsert of the address meanwhile has the old inbound synchronised and
then stamps the row that names the new one; and no PATCH of the address clears the
stamp. So `last_runtime_sync_at` speaks of the inbound its run was given, which
need not be the one the row names. The history field `of` of a row is that inbound,
and `SyncedSince` is about it; `EventuallySynced` is about the inbound the row names,
and requires a stamp that is of it.

*Abstractions.* A client call opens and closes its own connection: one step. The
two hashes the code compares are equal when the maps are, and then there is
nothing to remove or add. The sorted order in which a run handles users is left
open. Xray, which is not part of `src/`, refuses the removal of an absent user
and the addition of a present one, and starts with the users of its
`config.json`. Every change of a row, an instance or the time is one tick of
`clock`; `touched[n]` is the last tick that mattered to node `n`. This makes the
meaning of a timestamp exact: two events never share one. Each node has inbounds
of its own: two rows that name the same inbound, which nothing in the code refuses,
would be two syncers that undo each other's work, and are left out.

### Reconcile

While nothing has disturbed a node since the syncer last took it up, the users of
its inbounds change only one at a time, and only in the right direction: a wrongly
served one is removed, or an absent one is added as wanted. `RuntimeSync`
implements it by the mapping `R`: `want` is the target now, `have` the managed
users of each inbound, `loose` the nodes touched since their last run began.

### TrafficCollection

Traffic is a set of units, each of one account on one Xray instance. A node's row
names an instance, and two rows may name the same; a goroutine asks the one its
row named at the start of the round (`at`). `Serve` puts a unit into a counter;
`Query` moves what the counter holds into the goroutine's `answer`; `ReadBound` is
the SELECT of the bound accounts and `Insert` the single INSERT of
`RecordTrafficUsageBatch`. `QueryFails` may have reset the counters, `RecordFails`
may have committed. `DeleteAccount` and `DeleteNode` delete bindings and rows by
the foreign keys, and between the two statements of a batch they make its INSERT
fail for everybody (`Referable`). `SaveNode` is a PATCH or an upsert: what the row
says, or a deleted row again. The rows that a cleanup aggregates and deletes are
the subject of `TrafficLedger`. The semaphore only orders steps of different nodes
and is left out; rounds are kept, since they are why no two goroutines work on one
node. `late` holds the instances that a query the collector gave up on (an error,
a deadline, a crash) may still reach, and then resets their counters with nobody
to take the answer (`LateArrives`). `served` is the set of units transferred so
far: each once.

### Delivery

A unit is counted, then taken, then recorded, and may be lost at each of the three
places. `TrafficCollection` implements it (`AtMostOnce`): a counter is where a unit
is counted, a goroutine's answer is what is taken, `traffic_usage` the records.
`LostForGood` is what this is for: nothing that was lost is recorded later.

### TrafficLedger

A cleanup is one action per statement: `Aggregate` and `Upsert` are the SELECT and
the INSERT .. ON CONFLICT of one statement, apart because the second waits for
daily rows another transaction has written while the first has its snapshot;
`DeleteDetail` and `DeleteDaily` have snapshots of their own; `Commit` makes it
visible. Two cleaners may wait for each other, one for deleted detail rows and the
other for daily rows: `Deadlock` ends one of them. A daily row is not a sum of
bytes but, for each detail row, how often it was added (`counted`), which is what
the properties are about. `Record` writes a row whose `recorded_at` may lie before
the time it is written: the collector stamps a row before it asks Xray, and `POST
/admin/traffic-usage` takes the client's. A row written past the cutoff of a
cleanup under way is `overtaken` (history), which is what `Kept` excuses.
`TotalFirst` and `TotalSecond` are the two statements of a total, and `total.got`
the rows it has found.

### AuthSessions

`customer` and `token` are the tables. `client[w]` is a login or a refresh between
its statements, `editor[e]` a PATCH. Passwords, hashes and emails are one value
(`creds`), what a session is bound to is its `version` (credentials and
`session_epoch`; `AuthSessionVersion` hashes them). Login reads the row and later
inserts the token; a refresh reads the token, then the customer, then rotates in
one transaction; a PATCH reads the row, saves all of it, reads it again and
revokes. A customer's epochs are random in the code and consecutive here: only
their being new matters. The administrator's version is a function of the
configuration (`Configured`): a restart keeps it, sets one that was never used, or
goes back to an earlier one, which makes the tokens of that configuration usable
again that were neither revoked nor have expired. `retired` (history) are the
versions that were replaced and are not in use again. `PCP_SECRET_KEY`, which every
version depends on, does not change: doing so would end all sessions, and setting
it back would reopen them as it does for the administrator. Access tokens are signed
and hold no state.

### SessionLife

A session belongs to one principal and to what was known of it at the login. It is
unused, then open, then over, and never comes back; it is over at the latest when
its principal's row changes in what it is bound to. One principal, the `Keeper`
(the administrator), is bound to something that may be set back (`Reconfigure`):
what was open then is only suspended, and can be open again, but nothing else can.
`AuthSessions` implements it (`Lifecycle`) as long as no PATCH saves a stale row:
a session is the chain of tokens of one login and has the id of the first, and it
is open while the last of them can be continued (`Continues`). That is not the
same as usable: a refresh that has checked a token before it expired rotates it
afterwards, since the code looks at the expiry only once. Such a session has
`lapsed`: its time is over and it may still be renewed.

### Subscriptions

`token` is the table `subscription_tokens`. A digest is the link it digests
(`link`), an encrypted link what it decrypts to (`cipher`, or none for rows older
than the column). `editor[e]` is a PATCH or an encrypt command between its SELECT
and its Save of the whole row, `ensurer[w]` an ensure command between its two
statements, `client[w]` a request of a link before it notes the use. `issued`
are the links ever given out; a new one is fresh, as a random one is. Ids of
deleted rows are not used again. What a subscription contains is left out.

### LegacyImport

`tx[i]` is an import's transaction: where it is in its file and what it has
inserted and not yet committed (`newOwner`, `newToken`, `fresh`, `binds`). One
action per statement. A statement that meets an uncommitted row of another import
waits, and `Deadlock` rolls one of two back that wait for each other; a committed
row in its way is a unique violation, a missing one a foreign key violation, and
both roll back (`Refuse`). An ON CONFLICT DO NOTHING that meets a committed binding
writes and locks nothing. An administrator's deletion waits for the rows an
open transaction refers to, a PATCH does not. Ids count the rows with the same
email or UUID, so that an import can hold the id of a row deleted and made again.
A link names its nodes in the order of `matchLegacySubscriptionNode`'s score; the
import takes the best of those it has read.

### Catalogue

`account` (with the bindings of each) and `node` are the tables, `request[r]` a
request between its statements. A PATCH of an account reads the row and its
bindings (one step), looks the nodes up (`PatchLoad`) and writes row and bindings
in one transaction (one step, `PatchSave`); a creation likewise. gorm is not part
of `src/`: `Save` of a row that is gone inserts it, and `Replace` inserts the nodes
it is given where they are missing (`Replace`), which is how a deleted node comes
back under a PATCH. `NodeRead`, `NodeSave` are a PATCH of a node. A sync
(`POST /admin/nodes/sync`) is a transaction: `Look` and `Write` for each node of
the body, then `Commit`; `writes` are its uncommitted rows, which only it sees
and others wait for (`Settled`), `Deadlock` ends one of those that wait in a
circle. Ids of deleted rows (`Gone`) are not used again. `asked` is history: the
account that the requests so far asked for, or `Muddled` once a PATCH has saved a
row over a change it had not read. `moved` is history too: nodes whose `enabled`
another request changed between look and write. A run that has used every node
id refuses a new one (`WriteRefused`), which is the bound on ids. Customers are
only deleted here; their creation and PATCH are in `AuthSessions`.

### Migrations

`proc[p]` is a run of `db migrate`: `Open` pings the database, `Lookup` and
`CreateDatabase` are `ensureDatabase`, and then come the listing of the directory,
`CREATE TABLE IF NOT EXISTS` (two steps in PostgreSQL: the name, then the
catalogue's unique index), the read of `schema_migrations` and the loop over the
files in the order of their names. `Execute` and `Record` are inside a file's
transaction, which `Commit` makes visible as a whole; a second INSERT of the same
version waits for it and then fails. `LoseAnswer` is a commit whose answer is
lost. `dir[p]` is the directory of the process's host, which may be replaced at
any time (`Deploy`), also between the listing and the reading of a file. What the
files do to the schema is left out: `schema` is the sequence of contents that took
effect. `AutoMigrate`, a development helper that leaves the planning to gorm, is
not modelled.

## 3. Runs

| run | instance | what it shows |
|---|---|---|
| `sync` | 1 node, 2 addresses, 2 accounts, 2 identities, 2 events, 1 failure | `SyncedSince`: when a node's `last_runtime_sync_at` is not older than the last thing that mattered to it, the inbound of that run serves exactly the target, through failed runs, stale PATCHes, upserts and changed addresses. `SyncInv`, the invariant behind it. `StaticUntouched`. `NoRefusal`: undisturbed, Xray refuses no call of a run. `Reconciles` |
| `sync_live` | 2 nodes, 2 addresses each, 1 account, pool of 1, 1 event | `SyncedSince` with a second node at work and an address changed in the queue; `WithinConcurrency` across rounds, failures and crashes; `EventuallySynced`: left alone, the inbound that a registered node's row names comes to serve the target for good, marked by a run of its own and without an error |
| `collect` | 2 nodes, 2 instances, 2 accounts, 3 units, 2 failures, 1 change | `RecordedOnce`: no byte is billed twice. `LossExplained`: bytes disappear for the listed causes only, among them a node or an account deleted in the middle of a batch or afterwards. Fair: `EventuallyRecorded`, once failures and changes are over |
| `ledger` | 1 cleaner, 3 rows, 2 series, 2 days and more | `LedgerExact`: traffic inside the daily retention is in the two tables exactly once. `TotalMissesNothing` |
| `ledger_pair` | 2 cleaners, 2 rows, 1 failure | `LedgerKeeps`: nothing is lost. Fair: `RetentionEnforced`, next to a cleaner that may stop anywhere or hold what the loop waits for |
| `ledger_backdated` | 1 cleaner, 2 rows | violated, see below |
| `sessions` | 1 customer and the administrator, 2 clients, 3 tokens, 1 PATCH at a time, 1 step of time, failures and restarts | `OneLivePerSession`; `ResetInvalidates`: no version that was replaced, and not configured again, is good for a usable token; `NoRevival`: a session that is over never comes back, but for one of the administrator whose configuration is set again; and `SessionsUndisturbed`: a usable session stays usable unless it is used, logged out, patched, deleted, reset or expires |
| `sessions_stale` | 1 login, 2 PATCHes | violated (`ResetLasts`), see below |
| `subscriptions` | 2 tokens, 2 editors, 1 client, 1 ensure, 1 failure | `ShownLinkWorks`: what the portal lists opens. `RevivedOnlyBySave`: a link that was rotated away, disabled or expired opens again only when a PATCH or encrypt saves a row read with it |
| `import` | 2 imports of the same clients in opposite orders, 2 nodes, 2 changes, 1 stop | `ImportComplete`, `RerunChangesNothing` (README.md:179 and 205), `OthersUntouched` |
| `migrations` | 2 processes, 3 versions, 4 directories, 1 replacement, 1 failure | `OncePerFile`, `SuccessMeansApplied`, `InOrder` and, fair, `EventuallyMigrated` |
| `catalogue` | 2 requests at a time of 3, 3 node ids, 2 accounts, batches in opposite orders, 1 failure | `AsRequested`, `SyncComplete` (README.md:135-137), `EnabledKept` (README.md:163) and, fair, `RequestsEnd` |

Each module's `TypeOK` is checked by its first run; it includes the references
between tables, the foreign keys of the schema. Deadlock is off where the
bounds on time, tokens and faults end every behaviour; an import and a migration
can always begin.
`RevivedOnlyBySave` says what a stale Save can do: a PATCH that overlaps with a
rotation brings the old link back and kills the new one. No sentence of the
documentation excludes it, and the property shows that nothing else does it.
`ImportComplete` excuses a link whose UUID and address an earlier line has: the
key of `legacySubscriptionLinkKey` leaves out the Reality fields that the match
uses, so that a stale line can hide a later one.

`AsRequested` excuses rows that a PATCH has saved over a change it had not read:
the API documents no protection against lost updates, and the property shows that
they come from that alone. `EnabledKept` excuses a node whose `enabled` another
request changed between the two statements of the upsert. `EventuallyMigrated`
excuses a directory that no run accepts: a file that is blank or differs from what
is recorded.

*Runs that TLC refutes.* Each states a sentence of `src/README.md`:

- `ledger_backdated`, README.md:584-586, a cleanup "first aggregates old
  `traffic_usage` rows older than the detail retention into
  `traffic_usage_daily`, then deletes those detail rows". The DELETE has a snapshot of its
  own: a row that is posted in between with a `recorded_at` past the cutoff is
  deleted and was aggregated by nobody. `LedgerExact` excuses such rows.
- `sessions_stale`, README.md:358-361, a reset "invalidates that customer's
  existing refresh tokens by bumping `session_epoch`". `ResetLasts` asks for
  `ResetInvalidates` only when every request has ended, so that no revocation is
  still to come. TLC's run: a login reads the row; two PATCHes read it; one resets
  and revokes, and finds no token; the login inserts its token, of the old version;
  the other PATCH, of the display name only, saves the `session_epoch` it read
  before the reset, and the token is usable for good. With one PATCH at a time the
  sentence holds (`sessions`), and theorem `ResetUnlessStale` says for any number of
  them that a stale row is the only cause.

Two more limits show in the properties. Two cleaners at once may both aggregate
rows that neither has deleted, and ON CONFLICT adds them twice: `LedgerExact` is a
property of one cleaner at a time, and `LedgerKeeps` the part of it that survives.
Section 4 has the exact condition: no two open cleanups have aggregated the same row.
And README.md:383-385 calls a row "the traffic delta since the previous
successful stats query", which a query that reset the counters and lost its answer
makes inexact: the next row starts at a query that was not successful.
Totals count rows twice when a cleanup commits between their two statements; in
the other order they would miss them, which is what `TotalMissesNothing` guards.

*Bounds.* `MaxClock` bounds events, `MaxFaults` failures. Two events are enough
for a change during a run and a change after it; with one failure a run can end in
each of its phases and the next can repair it. Nodes share no state but the
semaphore and the rows, so that one node with two accounts and two nodes with one
account cover the two kinds of interference. In `collect` two failures allow one
during the repair of another, and the three units put two into one row or into
two. In `ledger` a day is two steps, so that a cutoff falls into a day, and the
clock runs past the daily retention (in `ledger_pair` a day is one step, which
keeps the run short); two rows of one series are the least that share a daily row.
With two cleaners the rows may be of one day or of two, and one cleaner can wait
for the other's deletions while that waits for its days. A race of two refreshes
needs three tokens. `sessions` goes on after a failure or restart, a step of time
or a new epoch, and after any two of them, but not after three (`TwoInAll`),
except that it goes on from a restart which set the first configuration back after
another had been in use. In `subscriptions` one new link is enough to rotate a
token away under a PATCH and an encrypt command, or to be created next to it. In
`import` two UUIDs in two orders make the deadlocks, a UUID on two addresses and a
repeated one make the two kinds of second line, and two changes let a row go and
come back during one transaction. In `migrations` two processes are enough to
collide at every step, and the four directories hold a new file, one that sorts
before a recorded one, an edited one and a blank one. In `catalogue` a third
request runs before or after two that overlap, and the batches name two nodes in
opposite orders and a node that is not there. Symmetry is used in safety runs
only, on sets whose members the specification does not tell apart. The theorems of
section 4 hold without these bounds.

*Fairness.* `sync_live`: the ticker fires (`RoundStart`), goroutines run
(`SyncStep`), a request that has read a row ends (`PatchStep`), a call in the
network arrives or is lost (`LateStep`). `collect`: ticker and goroutines.
`ledger_pair`: the loop's ticker, and a transaction that has begun goes on or is
refused. `migrations`: a running process goes on, and one that failed or stopped
is run again, as deployments do; no fairness for directories. `catalogue`: a
request that is being served is carried on or, waiting in a circle, ended by the
database. In the code, `Run` and the cleanup loop run until the context ends,
every call has a deadline and errors are logged and dropped. Administrators, time,
users and failures are not fair: behaviours in which they stop are checked, and
the bounds make them stop.

*What `EventuallySynced` does not promise.* A node that is disabled or deleted is
no longer listed: its managed users stay in its Xray. And the timeout bounds a
whole run of a node, although the flag's help speaks of "runtime API call"
(`cli/service.go:79`); that a diff too large for one run is split over several is
not modelled.

## 4. Proofs

All theorems hold for every value of the constants that satisfies the module's
named assumption (`SyncAssumption`, `LedgerAssumption`, ...: names are distinct,
bounds are numbers, initial rows have their types and references). A few need more,
stated in the theorem. About the constants:

- `WithinConcurrencyHolds`: finitely many nodes; `SettlesHolds`: finitely many accounts.

About the behaviour, where the code guarantees less than its documentation and
section 3 shows what happens:

- `SeenApart`: no two open cleanups have aggregated the same detail row. It is
  implied by `OneAtATime`, no two cleanups are open, and by `OneCleaner`.
- `Current`: the row that a PATCH has read and not yet saved is the one in the table.
  It is implied by `HeldRowsStay`, no row changes that another PATCH has
  read and not saved, and by `OneEditor`, one PATCH or DELETE of a customer at a time.

Both leave the number of processes and requests open. They admit overlapping ones:
PATCHes of two customers, or of one with nothing saved in between; a cleaner that
waits while another has nothing old to aggregate.

| module | theorem | statement |
|---|---|---|
| `RuntimeSyncProofs` | `TypeCorrect` | `Spec => []TypeOK` |
| | `InvariantHolds` | `Spec => [](TypeOK /\ SyncInv)` |
| | `SyncedSinceHolds` | `Spec => []SyncedSince` |
| | `StaticUntouchedHolds` | `Spec => []StaticUntouched` |
| | `ReconcilesHolds` | `Spec => Reconciles` |
| | `WithinConcurrencyHolds` | `Spec => []WithinConcurrency` |
| | `NoRefusalHolds` | `Spec => NoRefusal` |
| | `SettlesHolds` | `Spec => Settles`, finitely many accounts |
| `TrafficCollectionProofs` | `CollectionTypes`, `RecordedOnceHolds` | `TypeOK` and `RecordedOnce` always |
| | `LossExplainedHolds` | `Spec => LossExplained` |
| | `AtMostOnceHolds`, `LostForGoodHolds` | `Spec => AtMostOnce` (implements `Delivery`), `Spec => LostForGood` |
| `TrafficLedgerProofs` | `LedgerTypes`, `LedgerKeepsHolds`, `TotalHolds` | `TypeOK`, `LedgerKeeps`, `TotalMissesNothing` always |
| | `ExactWhileApart` | `Spec /\ []SeenApart => []LedgerExact` |
| | `ExactOneAtATime`, `LedgerExactHolds` | the same from `[]OneAtATime`, and with `OneCleaner` |
| `AuthSessionsProofs` | `SessionTypes`, `OneLiveHolds` | `TypeOK`, `OneLivePerSession` always |
| | `ResetUnlessStale` | `Spec /\ []Current => []ResetInvalidates` |
| | `ResetUnlessOverlapping`, `ResetHolds` | the same from `[][HeldRowsStay]_vars`, and with `OneEditor` |
| | `NoRevivalUnlessStale`, `NoRevivalHolds` | `Spec /\ []Current => NoRevival`, and with `OneEditor` |
| | `LifecycleUnlessStale`, `LifecycleHolds` | `Spec /\ []Current => Lifecycle` (implements `SessionLife`), and with `OneEditor` |
| | `UndisturbedHolds` | `Spec => SessionsUndisturbed` |
| `SubscriptionsProofs` | `TokensHold` | `Spec => [](TypeOK /\ TokenInv)` |
| | `TokenTypes`, `ShownLinkWorksHolds` | `TypeOK`, `ShownLinkWorks` always |
| | `RevivedHolds` | `Spec => RevivedOnlyBySave` |
| `CatalogueProofs` | `CatalogueTypes`, `AsRequestedHolds` | `TypeOK`, `AsRequested` always |
| | `SyncCompleteHolds`, `EnabledKeptHolds` | `Spec => SyncComplete`, `Spec => EnabledKept` |
| `LegacyImportProofs` | `ImportTypes` | `Spec => []TypeOK` |
| | `ImportCompleteHolds`, `RerunChangesNothingHolds` | `Spec => ImportComplete`, `Spec => RerunChangesNothing` |
| | `OthersUntouchedHolds` | `Spec => OthersUntouched` |
| `MigrationsProofs` | `MigrationTypes`, `OncePerFileHolds`, `SuccessMeansAppliedHolds` | `TypeOK`, `OncePerFile`, `SuccessMeansApplied` always |
| | `InOrderHolds` | `Spec => InOrder` |

### The arguments

*RuntimeSync.* `SyncedSince` is not inductive: nothing in it says what a run knows
before its mark, or what the stamp a PATCH carries stands for. `SyncInv` adds
this. `RunKnows(n)`: as long as node `n` is quiet (not touched since its run
began), the target at `now[n]` is the target now, the snapshot is the target, and
each user of the inbound the run was given is in the state that membership in
`del` and `add` implies (`Progress`); at the mark the inbound the run was given
(`at[n]`) has converged. `StampMeans(n, row)`, for the row in the table and the
copy a PATCH holds: its stamp is no later than the last run began, and if nothing
touched the node since, the inbound the stamp is of (`row.of`) has converged,
which a change of the address leaves as it is. Two lemmas carry the environment:
`EventInv`, for events (a node they touch is not quiet any more, for the others
the target is the same, expiry included), with `SaveKeeps`, `DeleteKeeps`,
`CustomerKeeps` and `NodeKeeps` saying which targets each event leaves alone; and
`LateArrives` and `RestartXray` touch their node. The syncer's steps use that a
node which has converged cannot be in the middle of a diff, and that an event
takes the clock beyond every stamp.

`StaticUntouched` follows from the mails a run computes being those of accounts.
`ReconcilesHolds` maps initial states (`MappedInit`) and steps: an event is
`Disturb`, `Acquire` is `Begin`, a call is `Fix` or, refused, a stutter, and all
others are stutters (`MappedStutter`); for a call on a node that is not loose,
`Progress` gives what `Fix` requires. `WithinConcurrency` is inductive: only
`Acquire` lets a node in, and only below the bound. `NoRefusal` reads `Progress`
for the user a call is about.

`Settles` is the part of `EventuallySynced` that is safety: on a quiet node the
work that is left in an inbound (`Left`, two for a user to be replaced, one for a
user to be added or removed) decreases with every call that changes anything, and
the target stands still. So an undisturbed run makes no more changes than that,
and none it takes back. Fairness is only needed for the calls to be made.

*TrafficCollection.* `CollectInv`: rows, counters and answers are pairwise apart
(`Apart`), everything in them was served (`Known`, so that a unit served later is
new), and a goroutine holds units between its query and its INSERT only (`Holds`).
`LossExplained` is then one case per action. For `AtMostOnce`, `DeliveryStep`
gives each action its abstract one (`Serve` is `Use`, `Query` is `Take`, `Insert`
and an insert whose answer is lost are `Record`, everything else is `Lose` or a
stutter), and `LostForGood` needs `Known` besides: `Use` takes a unit that was
never served.

*TrafficLedger.* `Holds(c)` says what the transaction of a cleaner knows in each
phase: what it has seen is old, and whatever is old and still detail it has either
seen, or it was written past its cutoff; after its DELETE, what it has seen and is
still there it is about to take away. `LedgerInv` adds `LedgerKeeps` and that only
rows that were written are counted. `TotalInv` says that a row a total has not
found in the detail is among the daily rows, where the second statement will look.
`OnceInv`, while `SeenApart`: what a cleaner has seen is still detail until it
commits, since only a cleaner that has seen it too would delete it, and no row is
counted twice.

*AuthSessions.* `SessionInv`: the id that names a session was used (`Fresh`), a
token has the version of its login (`Bound`), a refresh in flight carries what
its token says (`Carried`), and a session has one live token; a rotation takes
the row lock, so that of two refreshes one finds its token revoked. `Earlier`:
a version of a customer that was replaced has an earlier epoch than the row, and one
of the administrator is not the version in use, so that no token or request that
carries it is accepted. A PATCH with a stale row
is what breaks it, and `Current`, the hypothesis, says that there is none;
`ResetUnlessOverlapping` derives it from steps: a PATCH that keeps waiting keeps a
current row if nobody else changes that row.

For the refinement, `LifeInv` adds to `Earlier` that a revocation has found tokens
of its customer only (`FoundOwn`), that no token or request carries an epoch still
to come (`Aged`), and that no token outlives a new one, so that a refresh which
found its token in time makes one that has time (`Timely`), and that requests in
flight of the administrator have the version in use, since a restart ends all
requests (`AdminCurrent`). Each action then maps to `SessionLife`: a login to
`Begin`; a rotation to `Renew`, or, where the session was closed meanwhile, to a
`Begin` that opens nothing; a tick to `Pass`; a restart with another configuration
to `Reconfigure` (`MappedReconfigure`); and all others to `End` or `Change` of one
principal (`EndOrChange`). `OpenShrinks` says that only a step which uses an id,
or a restart, can open anything, and `ChangedClosed` that the old sessions of a
row that changed are over. A refresh that gives up or dies ends a session that it
alone kept open, whoever's it is: therefore `OthersStay` lets lapsed sessions of
others go. `NoRevival` says the same of single tokens.

*Subscriptions.* A Save writes a row that may be several rotations old. `TokenInv`
says why it can break nothing: the row a request holds has its two links paired,
its owner is still the owner, and its link was never that of another token, in the
table or in another request's hands (`Safe`, `Apart`). Steps that change one row
go through `UpdateInv`, creations through `InsertInv`, and the rest leave the table
alone (`QuietInv`) or delete from it (`DeleteInv`).

*Catalogue.* `CatalogueInv`: each request holds what its phase implies (`Sound`:
a PATCH before its save has the columns it was not given as it read them; a batch
has written every item it is past), open transactions have rows and names of their own
(`Apart`), the committed rows overlaid with those of any open transaction have
distinct names (`NamesKept`, which makes a commit safe), and what a transaction
has written without a word about `enabled` is what the row has, unless it was moved
(`KeepsEnabled`). `Apart` rests on the waits for uncommitted rows.

*Migrations.* `Runs(p)`: what is not among the names that are left was applied
with the content of the directory, the file at hand is the first of those left,
and a row that is inserted but not committed is in nobody's way (`Inserted`): two
processes never hold the same version. With `OncePerFile` it is inductive.

*LegacyImport.* `ImportInv` says of each open import: the customer it found or
inserted is the one its rows refer to, for as long as it holds them (`OwnerKnown`);
the rows it has inserted are of accounts that are not there, and no binding of its own
is there already (`RowsKnown`); every link it is past stands in the tables
or among its own rows, unless an administrator touched it (`FileKnown`, `Entered`); and
what it read at its beginning is still so if no administrator came in between
(`Undisturbed`). Imports hold different rows, because an insert waits for another's. A
commit thus leaves what is entered (`CommitLeaves`), and takes nothing from the others
(`CommitOthers`); an administrator's change may disturb only what it marks as touched
(`ChangeInv`). For a repetition, `Present` says that the file is in the tables and
`Repeats` that the import has written nothing; so each of its statements succeeds, and
since what it binds is committed, it waits for nobody (`RepeatsCommits`).

*Only model-checked:* all liveness (`EventuallySynced`,
`EventuallyRecorded`, `RetentionEnforced`, `EventuallyMigrated`, `RequestsEnd`), since
the prover supports neither fairness nor ENABLED.

*Proved and in no run:* `Lifecycle`, `Settles`, `AtMostOnce` and `LostForGood`.
They hold on the instances of `sessions` (`Lifecycle` on a smaller one), `sync`
and `collect`, but say of them nothing the runs' properties do not; what they add
is for every instance, and the proofs give it.

## 5. Plan

What is left, in this order:

1. **Accounting**, composing `TrafficCollection` and `TrafficLedger`: from the
   counter to the daily row.
2. An abstract specification of the ledger (each row in the books once) that
   `TrafficLedger` implements while `SeenApart`.
3. Subscription links as operators (`Build`, the parser) against the runtime
   target; the error of a run whose context has expired, which never reaches its
   row; the time a run needs against its deadline.

Not modelled: the time zone of the database session, in which
`recorded_at::date` is computed (deployment configuration, one time zone here);
configuration, the command line's own parsing, the JSON reader of
Xray client files, digests and encryption, which hold no state and in which nothing
interleaves (the models treat a digest as the identity of what it digests); and the
domain access log, which is append-only and meets the rest only by its age.
