------------------------------ MODULE Migrations ------------------------------
(***************************************************************************)
(* proxy-control-plane db migrate (internal/store/migrations.go, with Open *)
(* of store.go).  A process opens the database, creating it when it is     *)
(* missing, lists the files of its directory, makes sure schema_migrations *)
(* exists, reads what is recorded there, and then applies the files that   *)
(* are missing in the order of their names, each in a transaction with its *)
(* record.  Nothing keeps two processes apart but the uniqueness of names  *)
(* in the catalogue of PostgreSQL and the primary key of                   *)
(* schema_migrations.                                                      *)
(*                                                                         *)
(* A version is a number, ordered as the file names are; a content stands  *)
(* for its checksum.  Processes run with auto-create-database.             *)
(***************************************************************************)
EXTENDS Naturals, Sequences

CONSTANTS
    Processes,
    Versions,
    Contents,     \* of a file, without the blank ones
    Blank,        \* a file with nothing but white space
    Absent,       \* no such file, or no such row
    Releases,     \* the directories a host may have
    MaxDeploys,   \* bound: how often directories are replaced
    MaxFaults     \* bound: failed statements and stopped processes

ASSUME MigrationsAssumption ==
    /\ Versions \subseteq Nat
    /\ Blank \notin Contents /\ Absent \notin Contents /\ Blank # Absent
    /\ Releases \subseteq [Versions -> Contents \cup {Blank, Absent}]
    /\ MaxDeploys \in Nat /\ MaxFaults \in Nat

VARIABLES
    database,   \* the target database exists
    tracking,   \* schema_migrations exists
    recorded,   \* its rows
    schema,     \* the contents that are committed, in their order
    dir,        \* the directory of each host
    proc,       \* the processes
    steady,     \* history: the directory is the one the process started with
    deploys, faults

tables == <<database, tracking, recorded, schema>>
vars == <<database, tracking, recorded, schema, dir, proc, steady, deploys, faults>>

Nothing == [v \in Versions |-> Absent]
Idle == [pc |-> "idle", names |-> {}, applied |-> Nothing, at |-> 0, content |-> Absent]

Ended == {"idle", "failed", "succeeded"}
Opening == {"open", "lookup", "create"}
Preparing == {"load", "ensure", "createTable", "read"}
Applying == {"next", "record", "commit"}

Table == [Versions -> Contents \cup {Absent}]
Locals == [pc: Ended \cup Opening \cup Preparing \cup Applying, names: SUBSET Versions,
           applied: Table, at: Versions \cup {0}, content: Contents \cup {Absent}]

TypeOK ==
    /\ database \in BOOLEAN /\ tracking \in BOOLEAN
    /\ recorded \in Table
    /\ schema \in Seq(Versions \X Contents)
    /\ dir \in [Processes -> Releases]
    /\ proc \in [Processes -> Locals]
    /\ steady \in [Processes -> BOOLEAN]
    /\ deploys \in 0 .. MaxDeploys /\ faults \in 0 .. MaxFaults

Init ==
    /\ database = FALSE /\ tracking = FALSE
    /\ recorded = Nothing
    /\ schema = <<>>
    /\ dir \in [Processes -> Releases]
    /\ proc = [p \in Processes |-> Idle]
    /\ steady = [p \in Processes |-> TRUE]
    /\ deploys = 0 /\ faults = 0

Goto(p, pc) == proc' = [proc EXCEPT ![p].pc = pc]

\* Whatever the process had, it ends with it: the deferred Rollback, Close of the
\* connections, or the end of the process.
End(p, pc) == proc' = [proc EXCEPT ![p] = [Idle EXCEPT !.pc = pc]]

(***************************************************************************)
(* Open.                                                                   *)
(***************************************************************************)

Start(p) ==
    /\ proc[p].pc \in Ended
    /\ Goto(p, "open")
    /\ steady' = [steady EXCEPT ![p] = TRUE]
    /\ UNCHANGED <<tables, dir, deploys, faults>>

\* openGorm: the ping of a missing database fails.
Open(p) ==
    /\ proc[p].pc = "open"
    /\ Goto(p, IF database THEN "load" ELSE "lookup")
    /\ UNCHANGED <<tables, dir, steady, deploys, faults>>

\* ensureDatabase looks into pg_database...
Lookup(p) ==
    /\ proc[p].pc = "lookup"
    /\ Goto(p, IF database THEN "load" ELSE "create")
    /\ UNCHANGED <<tables, dir, steady, deploys, faults>>

\* ...and creates the database, unless another process has done so since.
CreateDatabase(p) ==
    /\ proc[p].pc = "create"
    /\ IF database THEN End(p, "failed") ELSE Goto(p, "load")
    /\ database' = TRUE
    /\ UNCHANGED <<tracking, recorded, schema, dir, steady, deploys, faults>>

(***************************************************************************)
(* ApplySQLMigrations before its loop.                                     *)
(***************************************************************************)

Files(p) == {v \in Versions : dir[p][v] # Absent}

\* loadSQLMigrations: the names only.
Load(p) ==
    /\ proc[p].pc = "load"
    /\ proc' = [proc EXCEPT ![p].pc = "ensure", ![p].names = Files(p)]
    /\ UNCHANGED <<tables, dir, steady, deploys, faults>>

\* Mutant: CREATE TABLE without IF NOT EXISTS.
EnsureTableStrictly(p) ==
    /\ proc[p].pc = "ensure"
    /\ Goto(p, "createTable")
    /\ UNCHANGED <<tables, dir, steady, deploys, faults>>

\* CREATE TABLE IF NOT EXISTS looks for the name first...
EnsureTable(p) ==
    /\ proc[p].pc = "ensure"
    /\ Goto(p, IF tracking THEN "read" ELSE "createTable")
    /\ UNCHANGED <<tables, dir, steady, deploys, faults>>

\* ...and fails on the catalogue's unique index when another statement like it
\* was faster.
CreateTable(p) ==
    /\ proc[p].pc = "createTable"
    /\ IF tracking THEN End(p, "failed") ELSE Goto(p, "read")
    /\ tracking' = TRUE
    /\ UNCHANGED <<database, recorded, schema, dir, steady, deploys, faults>>

\* appliedMigrations.
ReadApplied(p) ==
    /\ proc[p].pc = "read"
    /\ proc' = [proc EXCEPT ![p].pc = "next", ![p].applied = recorded]
    /\ UNCHANGED <<tables, dir, steady, deploys, faults>>

(***************************************************************************)
(* The loop.                                                               *)
(***************************************************************************)

\* Mutant: the names are not sorted.
AnyName(p) == proc[p].names

\* sort.Slice: the first of the names that are left.
NextName(p) == {v \in proc[p].names : \A w \in proc[p].names : v <= w}

\* Mutant: an empty file is not refused.
ReadableAlways(content) == TRUE

\* os.ReadFile finds the file, and it is not empty.
Readable(content) == content \in Contents

\* Mutant: the checksum is not compared.
SkippableUnchecked(p, v) == proc[p].applied[v] # Absent

\* The version is applied, and with the checksum of this file.
Skippable(p, v) == proc[p].applied[v] = dir[p][v]

Refuse(p) ==
    \E v \in NextName(p) :
       /\ proc[p].pc = "next"
       /\ ~Readable(dir[p][v]) \/ (proc[p].applied[v] # Absent /\ ~Skippable(p, v))
       /\ End(p, "failed")
       /\ UNCHANGED <<tables, dir, steady, deploys, faults>>

Skip(p) ==
    \E v \in NextName(p) :
       /\ proc[p].pc = "next"
       /\ Readable(dir[p][v]) /\ proc[p].applied[v] # Absent /\ Skippable(p, v)
       /\ proc' = [proc EXCEPT ![p].names = @ \ {v}]
       /\ UNCHANGED <<tables, dir, steady, deploys, faults>>

\* BeginTx and the content of the file.  Where it meets the objects of another
\* open transaction it waits for that; nobody sees its effects before Commit.
Execute(p) ==
    \E v \in NextName(p) :
       /\ proc[p].pc = "next"
       /\ Readable(dir[p][v]) /\ proc[p].applied[v] = Absent
       /\ proc' = [proc EXCEPT ![p].pc = "record", ![p].at = v, ![p].content = dir[p][v]]
       /\ UNCHANGED <<tables, dir, steady, deploys, faults>>

Inserting(v) == \E q \in Processes : proc[q].pc = "commit" /\ proc[q].at = v

\* Mutant: ON CONFLICT DO NOTHING.
RecordIfMissing(p) ==
    /\ proc[p].pc = "record"
    /\ ~Inserting(proc[p].at)
    /\ Goto(p, "commit")
    /\ UNCHANGED <<tables, dir, steady, deploys, faults>>

\* INSERT INTO schema_migrations waits for an open transaction with the same key,
\* and violates the key once that is committed.
Record(p) ==
    /\ proc[p].pc = "record"
    /\ ~Inserting(proc[p].at)
    /\ IF recorded[proc[p].at] = Absent THEN Goto(p, "commit") ELSE End(p, "failed")
    /\ UNCHANGED <<tables, dir, steady, deploys, faults>>

\* The transaction takes effect as a whole.
TakeEffect(p) ==
    /\ recorded' = [recorded EXCEPT ![proc[p].at] = proc[p].content]
    /\ schema' = Append(schema, <<proc[p].at, proc[p].content>>)

Commit(p) ==
    /\ proc[p].pc = "commit"
    /\ TakeEffect(p)
    /\ proc' = [proc EXCEPT ![p].pc = "next", ![p].names = @ \ {proc[p].at},
                            ![p].at = 0, ![p].content = Absent]
    /\ UNCHANGED <<database, tracking, dir, steady, deploys, faults>>

Finish(p) ==
    /\ proc[p].pc = "next" /\ proc[p].names = {}
    /\ End(p, "succeeded")
    /\ UNCHANGED <<tables, dir, steady, deploys, faults>>

(***************************************************************************)
(* Failures and deployments.                                               *)
(***************************************************************************)

\* A statement fails (also as the victim of a deadlock), or the process is
\* stopped, before the server commits.
Fail(p) ==
    /\ proc[p].pc \notin Ended /\ faults < MaxFaults
    /\ End(p, "failed")
    /\ faults' = faults + 1
    /\ UNCHANGED <<tables, dir, steady, deploys>>

\* The server commits and the answer is lost.
LoseAnswer(p) ==
    /\ proc[p].pc = "commit" /\ faults < MaxFaults
    /\ TakeEffect(p)
    /\ End(p, "failed")
    /\ faults' = faults + 1
    /\ UNCHANGED <<database, tracking, dir, steady, deploys>>

\* The directory is replaced, also under a process that has listed its names.
Deploy(p) ==
    /\ deploys < MaxDeploys
    /\ \E r \in Releases \ {dir[p]} : dir' = [dir EXCEPT ![p] = r]
    /\ steady' = [steady EXCEPT ![p] = FALSE]
    /\ deploys' = deploys + 1
    /\ UNCHANGED <<tables, proc, faults>>

Step(p) ==
    \/ Open(p) \/ Lookup(p) \/ CreateDatabase(p)
    \/ Load(p) \/ EnsureTable(p) \/ CreateTable(p) \/ ReadApplied(p)
    \/ Refuse(p) \/ Skip(p) \/ Execute(p) \/ Record(p) \/ Commit(p) \/ Finish(p)

Next ==
    \E p \in Processes :
       Start(p) \/ Step(p) \/ Fail(p) \/ LoseAnswer(p) \/ Deploy(p)

Spec == Init /\ [][Next]_vars

\* A running process goes on, and one that failed is run again.
Retry(p) == proc[p].pc # "succeeded" /\ Start(p)
Fairness == \A p \in Processes : WF_vars(Step(p)) /\ WF_vars(Retry(p))
FairSpec == Spec /\ Fairness

(***************************************************************************)
(* Properties.                                                             *)
(***************************************************************************)

\* The contents that took effect are exactly those that are recorded, each once:
\* also when two processes run the same file, when one stops in the middle, and
\* when the answer to a commit is lost (applySQLMigration).
OncePerFile ==
    /\ \A i, j \in DOMAIN schema : schema[i][1] = schema[j][1] => i = j
    /\ \A v \in Versions, c \in Contents :
          recorded[v] = c <=> \E i \in DOMAIN schema : schema[i] = <<v, c>>

\* A process that reports success leaves every file of its directory applied as it
\* stands there, whoever applied it, unless the directory was replaced meanwhile.
SuccessMeansApplied ==
    \A p \in Processes : proc[p].pc = "succeeded" /\ steady[p] =>
       \A v \in Files(p) : recorded[v] = dir[p][v]

\* No file takes effect before the files that precede it in the directory of the
\* process that applies it, although other processes apply theirs meanwhile.
InOrder ==
    [][\A v \in Versions : recorded'[v] # recorded[v] =>
          \E p \in Processes : proc[p].at = v
             /\ (steady[p] => \A w \in Files(p) : w < v => recorded[w] = dir[p][w])]_vars

\* The directory holds a file no run accepts.
Hopeless(p) ==
    \E v \in Files(p) : ~Readable(dir[p][v]) \/ recorded[v] \notin {Absent, dir[p][v]}

\* Run again after each failure, every process gets through in the end, however
\* the runs collide, unless its directory is refused.
EventuallyMigrated == \A p \in Processes : []<>(proc[p].pc = "succeeded" \/ Hopeless(p))
=============================================================================
