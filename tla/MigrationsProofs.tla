---------------------------- MODULE MigrationsProofs ----------------------------
(***************************************************************************)
(* Theorems about Migrations, for all sets of processes, versions and      *)
(* contents, all directories and all bounds.                               *)
(***************************************************************************)
EXTENDS Migrations, TLAPS

\* What process p has in its variables in each phase.
Listed(p) ==
    (proc[p].pc \in {"ensure", "createTable", "read"} /\ steady[p]) => proc[p].names = Files(p)

\* What p read as applied still is, and what it is done with is applied.
Past(p) ==
    proc[p].pc \in Applying =>
       /\ \A v \in Versions : proc[p].applied[v] # Absent => recorded[v] = proc[p].applied[v]
       /\ steady[p] => /\ proc[p].names \subseteq Files(p)
                       /\ \A v \in Files(p) \ proc[p].names : recorded[v] = dir[p][v]

\* The file p is at is the first of those that are left.
Current(p) ==
    proc[p].pc \in {"record", "commit"} =>
       /\ proc[p].at \in proc[p].names /\ proc[p].content \in Contents
       /\ \A w \in proc[p].names : proc[p].at <= w
       /\ steady[p] => proc[p].content = dir[p][proc[p].at]

\* A row that is inserted and not committed is in nobody's way.
Inserted(p) ==
    proc[p].pc = "commit" =>
       /\ recorded[proc[p].at] = Absent
       /\ \A q \in Processes : q # p /\ proc[q].pc = "commit" => proc[q].at # proc[p].at

Done(p) ==
    (proc[p].pc = "succeeded" /\ steady[p]) => \A v \in Files(p) : recorded[v] = dir[p][v]

Runs(p) == Listed(p) /\ Past(p) /\ Current(p) /\ Inserted(p) /\ Done(p)

MigrationInv == OncePerFile /\ \A p \in Processes : Runs(p)

USE MigrationsAssumption DEF MigrationsAssumption

LEMMA IdleTypes == Nothing \in Table /\ Idle \in Locals
<1>1. Nothing \in Table
  BY DEF Nothing, Table
<1> QED BY <1>1 DEF Idle, Locals, Ended

\* The variables of p change, and keep their types.
LEMMA LocalTypes ==
  ASSUME TypeOK, NEW p \in Processes, NEW r \in Locals, proc' = [proc EXCEPT ![p] = r]
  PROVE  /\ proc' \in [Processes -> Locals] /\ proc'[p] = r
         /\ \A q \in Processes \ {p} : proc'[q] = proc[q]
  BY DEF TypeOK

LEMMA InitInv == Init => TypeOK /\ MigrationInv
<1> SUFFICES ASSUME Init PROVE TypeOK /\ MigrationInv
  OBVIOUS
<1>1. TypeOK
  <2>1. Nothing \in Table /\ Idle \in Locals
    BY IdleTypes
  <2>2. schema \in Seq(Versions \X Contents)
    BY DEF Init
  <2>3. proc \in [Processes -> Locals]
    BY <2>1 DEF Init
  <2>4. recorded \in Table /\ database \in BOOLEAN /\ tracking \in BOOLEAN
    BY <2>1 DEF Init
  <2>5. dir \in [Processes -> Releases] /\ steady \in [Processes -> BOOLEAN]
    BY DEF Init
  <2>6. deploys \in 0 .. MaxDeploys /\ faults \in 0 .. MaxFaults
    BY DEF Init
  <2> QED BY <2>2, <2>3, <2>4, <2>5, <2>6 DEF TypeOK
<1>2. OncePerFile
  BY DEF Init, OncePerFile, Nothing
<1>3. \A p \in Processes : proc[p].pc = "idle"
  BY DEF Init, Idle
<1> QED BY <1>1, <1>2, <1>3 DEF MigrationInv, Runs, Listed, Past, Current, Inserted, Done, Applying

\* A step of p that leaves the tables and the directories alone.
LEMMA LocalInv ==
  ASSUME MigrationInv, NEW p \in Processes, UNCHANGED <<recorded, schema, dir>>,
         \A q \in Processes \ {p} : proc'[q] = proc[q] /\ steady'[q] = steady[q],
         Listed(p)', Past(p)', Current(p)', Done(p)',
         proc'[p].pc = "commit" =>
            /\ recorded[proc'[p].at] = Absent
            /\ \A q \in Processes \ {p} : proc[q].pc = "commit" => proc[q].at # proc'[p].at
  PROVE  MigrationInv'
<1>1. OncePerFile'
  BY DEF MigrationInv, OncePerFile
<1>2. Inserted(p)'
  BY DEF Inserted
<1>3. ASSUME NEW q \in Processes \ {p} PROVE Runs(q)'
  <2>1. Runs(q)
    BY DEF MigrationInv
  <2>2. Listed(q)' /\ Past(q)' /\ Current(q)' /\ Done(q)'
    BY <2>1 DEF Runs, Listed, Past, Current, Done, Files
  <2>3. Inserted(q)'
    BY <2>1 DEF Runs, Inserted
  <2> QED BY <2>2, <2>3 DEF Runs
<1> QED BY <1>1, <1>2, <1>3 DEF MigrationInv, Runs

\* So does a process that starts, ends or fails.
LEMMA EndInv ==
  ASSUME TypeOK, MigrationInv, NEW p \in Processes, NEW pc \in {"failed", "succeeded"},
         End(p, pc), UNCHANGED <<recorded, schema, dir, steady>>,
         pc = "succeeded" => Done(p)'
  PROVE  MigrationInv'
<1>1. proc'[p].pc = pc /\ \A q \in Processes \ {p} : proc'[q] = proc[q]
  BY DEF End, Idle, TypeOK
<1>2. Listed(p)' /\ Past(p)' /\ Current(p)' /\ Done(p)'
  BY <1>1 DEF Listed, Past, Current, Done, Applying
<1> QED BY <1>1, <1>2, LocalInv

LEMMA EndTypes ==
  ASSUME TypeOK, NEW p \in Processes, NEW pc \in Ended, End(p, pc)
  PROVE  proc' \in [Processes -> Locals]
<1>1. [Idle EXCEPT !.pc = pc] \in Locals
  <2>1. Idle \in Locals /\ pc \in Ended
    BY IdleTypes
  <2> QED BY <2>1 DEF Locals
<1> QED BY <1>1, LocalTypes DEF End

\* The transaction of p takes effect, and p goes on or ends.
LEMMA EffectInv ==
  ASSUME TypeOK, MigrationInv, NEW p \in Processes, proc[p].pc = "commit", TakeEffect(p),
         UNCHANGED <<dir, steady>>, \A q \in Processes \ {p} : proc'[q] = proc[q],
         \/ proc'[p].pc = "failed"
         \/ /\ proc'[p].pc = "next" /\ proc'[p].applied = proc[p].applied
            /\ proc'[p].names = proc[p].names \ {proc[p].at}
  PROVE  /\ recorded' \in Table /\ schema' \in Seq(Versions \X Contents)
         /\ MigrationInv'
<1> DEFINE v0 == proc[p].at
           c0 == proc[p].content
<1>1. Runs(p)
  BY DEF MigrationInv
<1>2. v0 \in Versions /\ c0 \in Contents /\ recorded[v0] = Absent
  BY <1>1 DEF Runs, Current, Inserted, TypeOK, Locals
<1>3. recorded' \in Table /\ recorded'[v0] = c0
      /\ \A v \in Versions : v # v0 => recorded'[v] = recorded[v]
  BY <1>2 DEF TakeEffect, TypeOK, Table
<1>4. \A v \in Versions : recorded[v] # Absent => recorded'[v] = recorded[v]
  BY <1>2, <1>3
<1>5. /\ schema' \in Seq(Versions \X Contents) /\ Len(schema') = Len(schema) + 1
      /\ schema'[Len(schema) + 1] = <<v0, c0>>
      /\ \A i \in 1 .. Len(schema) : schema'[i] = schema[i]
  BY <1>2 DEF TakeEffect, TypeOK
<1>6. DOMAIN schema = 1 .. Len(schema) /\ DOMAIN schema' = 1 .. (Len(schema) + 1)
      /\ Len(schema) \in Nat
  BY <1>5 DEF TypeOK
<1>7. \A i \in DOMAIN schema : schema[i][1] # v0
  <2> SUFFICES ASSUME NEW i \in DOMAIN schema, schema[i][1] = v0 PROVE FALSE
    OBVIOUS
  <2>1. schema[i] \in Versions \X Contents
    BY DEF TypeOK
  <2>2. schema[i] = <<v0, schema[i][2]>> /\ schema[i][2] \in Contents
    BY <2>1
  <2>3. \E j \in DOMAIN schema : schema[j] = <<v0, schema[i][2]>>
    BY <2>2
  <2> HIDE DEF v0
  <2>4. recorded[v0] = schema[i][2]
    BY <2>2, <2>3, <1>2 DEF MigrationInv, OncePerFile
  <2> QED BY <2>2, <2>4, <1>2
<1>8. OncePerFile'
  <2>1. ASSUME NEW i \in DOMAIN schema', NEW j \in DOMAIN schema', schema'[i][1] = schema'[j][1]
        PROVE  i = j
    <3>1. CASE i \in DOMAIN schema /\ j \in DOMAIN schema
      BY <2>1, <3>1, <1>5, <1>6 DEF MigrationInv, OncePerFile
    <3>2. CASE i \in DOMAIN schema /\ j \notin DOMAIN schema
      BY <2>1, <3>2, <1>5, <1>6, <1>7
    <3>3. CASE i \notin DOMAIN schema /\ j \in DOMAIN schema
      BY <2>1, <3>3, <1>5, <1>6, <1>7
    <3>4. CASE i \notin DOMAIN schema /\ j \notin DOMAIN schema
      BY <3>4, <1>6
    <3> QED BY <3>1, <3>2, <3>3, <3>4
  <2>2. ASSUME NEW v \in Versions, NEW c \in Contents, recorded'[v] = c
        PROVE  \E i \in DOMAIN schema' : schema'[i] = <<v, c>>
    <3>1. CASE v = v0
      BY <3>1, <2>2, <1>3, <1>5, <1>6
    <3>2. CASE v # v0
      <4>1. PICK i \in DOMAIN schema : schema[i] = <<v, c>>
        BY <3>2, <2>2, <1>3 DEF MigrationInv, OncePerFile
      <4>2. i \in DOMAIN schema' /\ schema'[i] = schema[i]
        BY <1>5, <1>6
      <4> QED BY <4>1, <4>2
    <3> QED BY <3>1, <3>2
  <2>3. ASSUME NEW v \in Versions, NEW c \in Contents, NEW i \in DOMAIN schema',
               schema'[i] = <<v, c>>
        PROVE  recorded'[v] = c
    <3>1. CASE i \in DOMAIN schema
      <4>1. schema[i] = <<v, c>>
        BY <3>1, <2>3, <1>5, <1>6
      <4>2. v # v0
        BY <4>1, <3>1, <1>7
      <4>3. recorded[v] = c
        BY <4>1, <3>1 DEF MigrationInv, OncePerFile
      <4> QED BY <4>2, <4>3, <1>3
    <3>2. CASE i \notin DOMAIN schema
      BY <3>2, <2>3, <1>3, <1>5, <1>6
    <3> QED BY <3>1, <3>2
  <2> QED BY <2>1, <2>2, <2>3 DEF OncePerFile
<1>9. ASSUME NEW q \in Processes \ {p} PROVE Runs(q)'
  <2>1. Runs(q) /\ proc'[q] = proc[q] /\ steady'[q] = steady[q] /\ Files(q)' = Files(q)
        /\ proc[q] \in Locals
    BY DEF MigrationInv, Files, TypeOK
  <2>2. Listed(q)' /\ Current(q)'
    BY <2>1 DEF Runs, Listed, Current
  <2>3. \A v \in Files(q) : v \in Versions /\ dir[q][v] # Absent
    BY DEF Files
  <2>4. Past(q)'
    <3>1. \A v \in Versions : proc[q].applied[v] # Absent /\ recorded[v] = proc[q].applied[v]
                                => recorded'[v] = proc[q].applied[v]
      BY <1>4
    <3>2. \A v \in Files(q) : recorded[v] = dir[q][v] => recorded'[v] = dir[q][v]
      BY <1>4, <2>3
    <3> QED BY <2>1, <3>1, <3>2 DEF Runs, Past
  <2>5. Done(q)'
    <3>1. \A v \in Files(q) : recorded[v] = dir[q][v] => recorded'[v] = dir[q][v]
      BY <1>4, <2>3
    <3> QED BY <2>1, <3>1 DEF Runs, Done
  <2>6. Inserted(q)'
    <3>1. CASE proc[q].pc = "commit"
      <4>1. proc[q].at # v0 /\ proc[q].at \in Versions /\ recorded[proc[q].at] = Absent
        BY <2>1, <3>1, <1>1 DEF Runs, Inserted, Current, Locals
      <4>2. recorded'[proc[q].at] = Absent
        BY <4>1, <1>3
      <4>3. proc'[p].pc # "commit"
        OBVIOUS
      <4> QED BY <4>2, <4>3, <2>1, <3>1 DEF Runs, Inserted
    <3> QED BY <3>1, <2>1 DEF Inserted
  <2> QED BY <2>2, <2>4, <2>5, <2>6 DEF Runs
<1>10. Runs(p)'
  <2>1. CASE proc'[p].pc = "failed"
    BY <2>1 DEF Runs, Listed, Past, Current, Inserted, Done, Applying
  <2>2. CASE proc'[p].pc = "next"
    <3>1. /\ proc'[p].applied = proc[p].applied /\ proc'[p].names = proc[p].names \ {v0}
          /\ steady'[p] = steady[p] /\ Files(p)' = Files(p) /\ dir' = dir
          /\ proc[p].pc \in Applying /\ proc'[p].pc \in Applying
      BY <2>2 DEF Files, Applying
    <3>2. \A v \in Versions : proc[p].applied[v] # Absent => recorded'[v] = proc[p].applied[v]
      BY <1>1, <3>1, <1>4 DEF Runs, Past
    <3>3. steady[p] => /\ proc[p].names \ {v0} \subseteq Files(p)
                       /\ \A v \in Files(p) \ (proc[p].names \ {v0}) : recorded'[v] = dir[p][v]
      <4>1. \A v \in Files(p) : v \in Versions /\ dir[p][v] # Absent
        BY DEF Files
      <4>2. steady[p] => c0 = dir[p][v0]
        BY <1>1 DEF Runs, Current
      <4>3. steady[p] => /\ proc[p].names \subseteq Files(p)
                         /\ \A v \in Files(p) \ proc[p].names : recorded[v] = dir[p][v]
        BY <1>1, <3>1 DEF Runs, Past
      <4> HIDE DEF v0, c0
      <4> QED BY <4>1, <4>2, <4>3, <1>3, <1>4
    <3>4. Past(p)'
      BY <3>1, <3>2, <3>3 DEF Past
    <3> QED BY <2>2, <3>4 DEF Runs, Listed, Current, Inserted, Done
  <2> QED BY <2>1, <2>2
<1> QED BY <1>3, <1>5, <1>8, <1>9, <1>10 DEF MigrationInv

\* Every step keeps the types and the invariant.
LEMMA StepInv == TypeOK /\ MigrationInv /\ [Next]_vars => TypeOK' /\ MigrationInv'
<1> SUFFICES ASSUME TypeOK, MigrationInv, [Next]_vars PROVE TypeOK' /\ MigrationInv'
  OBVIOUS
<1> USE DEF tables
<1> \A p \in Processes : proc[p] \in Locals
  BY DEF TypeOK
<1>1. ASSUME NEW p \in Processes, Start(p) \/ Open(p) \/ Lookup(p) \/ CreateDatabase(p)
      PROVE  TypeOK' /\ MigrationInv'
  <2>1. PICK r \in Locals : proc' = [proc EXCEPT ![p] = r] /\ r.pc \in Opening \cup {"load", "failed"}
    <3>1. \A pc \in Opening \cup {"load"} : [proc[p] EXCEPT !.pc = pc] \in Locals
      BY DEF Locals, Preparing
    <3>2. [Idle EXCEPT !.pc = "failed"] \in Locals /\ [Idle EXCEPT !.pc = "failed"].pc = "failed"
      BY IdleTypes DEF Locals, Ended
    <3>3. \A pc \in Opening \cup {"load"} : [proc[p] EXCEPT !.pc = pc].pc = pc
      BY DEF Locals
    <3>4. \/ \E pc \in Opening \cup {"load"} : Goto(p, pc)
          \/ End(p, "failed")
      BY <1>1 DEF Start, Open, Lookup, CreateDatabase, Opening
    <3> QED BY <3>1, <3>2, <3>3, <3>4 DEF Goto, End
  <2>2. /\ proc'[p].pc \in Opening \cup {"load", "failed"}
        /\ \A q \in Processes \ {p} : proc'[q] = proc[q] /\ steady'[q] = steady[q]
        /\ UNCHANGED <<recorded, schema, dir>> /\ proc' \in [Processes -> Locals]
    <3>1. \A q \in Processes \ {p} : steady'[q] = steady[q]
      BY <1>1 DEF Start, Open, Lookup, CreateDatabase, TypeOK
    <3>2. UNCHANGED <<recorded, schema, dir>>
      BY <1>1 DEF Start, Open, Lookup, CreateDatabase
    <3> QED BY <2>1, <3>1, <3>2, LocalTypes
  <2>4. TypeOK'
    BY <1>1, <2>2 DEF Start, Open, Lookup, CreateDatabase, TypeOK
  <2>3. Listed(p)' /\ Past(p)' /\ Current(p)' /\ Done(p)' /\ proc'[p].pc # "commit"
    BY <2>2 DEF Listed, Past, Current, Done, Opening, Applying
  <2> QED BY <2>2, <2>3, <2>4, LocalInv
<1>2. ASSUME NEW p \in Processes, Load(p) PROVE TypeOK' /\ MigrationInv'
  <2>1. Files(p) \subseteq Versions
    BY DEF Files
  <2> DEFINE r == [proc[p] EXCEPT !.pc = "ensure", !.names = Files(p)]
  <2>5. r \in Locals /\ r.pc = "ensure" /\ r.names = Files(p)
    BY <2>1 DEF Locals, Preparing
  <2>6. proc' = [proc EXCEPT ![p] = r]
    BY <1>2 DEF Load
  <2>3. /\ proc'[p].pc = "ensure" /\ proc'[p].names = Files(p)
        /\ \A q \in Processes \ {p} : proc'[q] = proc[q]
        /\ UNCHANGED <<recorded, schema, dir, steady>> /\ proc' \in [Processes -> Locals]
    <3> HIDE DEF r
    <3> QED BY <1>2, <2>5, <2>6, LocalTypes DEF Load
  <2>2. TypeOK'
    BY <1>2, <2>3 DEF Load, TypeOK
  <2>4. Listed(p)' /\ Past(p)' /\ Current(p)' /\ Done(p)'
    BY <2>3 DEF Listed, Past, Current, Done, Files, Applying
  <2> QED BY <2>2, <2>3, <2>4, LocalInv
<1>3. ASSUME NEW p \in Processes, EnsureTable(p) \/ CreateTable(p)
      PROVE  TypeOK' /\ MigrationInv'
  <2>5. PICK r \in Locals :
          /\ proc' = [proc EXCEPT ![p] = r]
          /\ \/ r.pc \in {"createTable", "read"} /\ r.names = proc[p].names
             \/ r.pc = "failed"
    <3>1. \A pc \in {"createTable", "read"} : [proc[p] EXCEPT !.pc = pc] \in Locals
      BY DEF Locals, Preparing
    <3>2. [Idle EXCEPT !.pc = "failed"] \in Locals /\ [Idle EXCEPT !.pc = "failed"].pc = "failed"
      BY IdleTypes DEF Locals, Ended
    <3>3. \A pc \in {"createTable", "read"} :
             [proc[p] EXCEPT !.pc = pc].pc = pc /\ [proc[p] EXCEPT !.pc = pc].names = proc[p].names
      BY DEF Locals
    <3>4. \/ \E pc \in {"createTable", "read"} : Goto(p, pc)
          \/ End(p, "failed")
      BY <1>3 DEF EnsureTable, CreateTable
    <3> QED BY <3>1, <3>2, <3>3, <3>4 DEF Goto, End
  <2>2. /\ \/ proc'[p].pc \in {"createTable", "read"} /\ proc'[p].names = proc[p].names
                 /\ proc[p].pc \in {"ensure", "createTable"}
           \/ proc'[p].pc = "failed"
        /\ \A q \in Processes \ {p} : proc'[q] = proc[q]
        /\ UNCHANGED <<recorded, schema, dir, steady>> /\ proc' \in [Processes -> Locals]
    BY <1>3, <2>5, LocalTypes DEF EnsureTable, CreateTable
  <2>1. TypeOK'
    BY <1>3, <2>2 DEF EnsureTable, CreateTable, TypeOK
  <2>3. Listed(p)
    BY DEF MigrationInv, Runs
  <2>4. Listed(p)' /\ Past(p)' /\ Current(p)' /\ Done(p)'
    BY <2>2, <2>3 DEF Listed, Past, Current, Done, Files, Applying
  <2> QED BY <2>1, <2>2, <2>4, LocalInv
<1>4. ASSUME NEW p \in Processes, ReadApplied(p) PROVE TypeOK' /\ MigrationInv'
  <2> DEFINE r == [proc[p] EXCEPT !.pc = "next", !.applied = recorded]
  <2>5. r \in Locals /\ r.pc = "next" /\ r.applied = recorded /\ r.names = proc[p].names
    <3>1. recorded \in Table
      BY DEF TypeOK
    <3> QED BY <3>1 DEF Locals, Applying
  <2>6. proc' = [proc EXCEPT ![p] = r]
    BY <1>4 DEF ReadApplied
  <2>2. /\ proc[p].pc = "read" /\ proc'[p].pc = "next" /\ proc'[p].applied = recorded
        /\ proc'[p].names = proc[p].names
        /\ \A q \in Processes \ {p} : proc'[q] = proc[q]
        /\ UNCHANGED <<recorded, schema, dir, steady>> /\ proc' \in [Processes -> Locals]
    <3> HIDE DEF r
    <3> QED BY <1>4, <2>5, <2>6, LocalTypes DEF ReadApplied
  <2>1. TypeOK'
    BY <1>4, <2>2 DEF ReadApplied, TypeOK
  <2>3. Listed(p)
    BY DEF MigrationInv, Runs
  <2>4. Listed(p)' /\ Past(p)' /\ Current(p)' /\ Done(p)'
    BY <2>2, <2>3 DEF Listed, Past, Current, Done, Files
  <2> QED BY <2>1, <2>2, <2>4, LocalInv
<1>5. ASSUME NEW p \in Processes, Refuse(p) PROVE TypeOK' /\ MigrationInv'
  <2>1. End(p, "failed") /\ UNCHANGED <<tables, dir, steady, deploys, faults>>
    BY <1>5 DEF Refuse
  <2> QED BY <2>1, EndInv, EndTypes DEF TypeOK, Ended
<1>6. ASSUME NEW p \in Processes, Skip(p) PROVE TypeOK' /\ MigrationInv'
  <2>1. PICK v \in NextName(p) :
          /\ proc[p].pc = "next" /\ proc[p].applied[v] # Absent
          /\ proc[p].applied[v] = dir[p][v]
          /\ proc' = [proc EXCEPT ![p].names = @ \ {v}]
          /\ UNCHANGED <<tables, dir, steady, deploys, faults>>
    BY <1>6 DEF Skip, Skippable
  <2>2. v \in proc[p].names /\ v \in Versions
    BY DEF NextName, Locals
  <2> DEFINE r == [proc[p] EXCEPT !.names = @ \ {v}]
  <2>9. /\ r \in Locals /\ r.pc = "next" /\ r.applied = proc[p].applied
        /\ r.names = proc[p].names \ {v}
    BY <2>1 DEF Locals
  <2>10. proc' = [proc EXCEPT ![p] = r]
    BY <2>1
  <2>4. /\ proc'[p].pc = "next" /\ proc'[p].applied = proc[p].applied
        /\ proc'[p].names = proc[p].names \ {v}
        /\ \A q \in Processes \ {p} : proc'[q] = proc[q] /\ steady'[q] = steady[q]
        /\ proc' \in [Processes -> Locals] /\ UNCHANGED <<recorded, schema, dir>>
    <3> HIDE DEF r
    <3> QED BY <2>1, <2>9, <2>10, LocalTypes
  <2>3. TypeOK'
    BY <2>1, <2>4 DEF TypeOK
  <2>5. Past(p) /\ proc[p].pc \in Applying
    BY <2>1 DEF MigrationInv, Runs, Applying
  <2>6. recorded[v] = dir[p][v]
    BY <2>1, <2>2, <2>5 DEF Past
  <2>7. Past(p)'
    BY <2>1, <2>4, <2>5, <2>6 DEF Past, Files
  <2>8. Listed(p)' /\ Current(p)' /\ Done(p)'
    BY <2>4 DEF Listed, Current, Done
  <2> QED BY <2>3, <2>4, <2>7, <2>8, LocalInv
<1>7. ASSUME NEW p \in Processes, Execute(p) PROVE TypeOK' /\ MigrationInv'
  <2>1. PICK v \in NextName(p) :
          /\ proc[p].pc = "next" /\ dir[p][v] \in Contents
          /\ proc' = [proc EXCEPT ![p].pc = "record", ![p].at = v, ![p].content = dir[p][v]]
          /\ UNCHANGED <<tables, dir, steady, deploys, faults>>
    BY <1>7 DEF Execute, Readable
  <2>2. v \in proc[p].names /\ v \in Versions /\ \A w \in proc[p].names : v <= w
    BY DEF NextName, Locals
  <2> DEFINE r == [proc[p] EXCEPT !.pc = "record", !.at = v, !.content = dir[p][v]]
  <2>9. /\ r \in Locals /\ r.pc = "record" /\ r.applied = proc[p].applied
        /\ r.names = proc[p].names /\ r.at = v /\ r.content = dir[p][v]
    BY <2>1, <2>2 DEF Locals, Applying
  <2>10. proc' = [proc EXCEPT ![p] = r]
    BY <2>1
  <2>4. /\ proc'[p].pc = "record" /\ proc'[p].applied = proc[p].applied
        /\ proc'[p].names = proc[p].names
        /\ proc'[p].at = v /\ proc'[p].content = dir[p][v]
        /\ \A q \in Processes \ {p} : proc'[q] = proc[q] /\ steady'[q] = steady[q]
        /\ proc' \in [Processes -> Locals] /\ UNCHANGED <<recorded, schema, dir>>
    <3> HIDE DEF r
    <3> QED BY <2>1, <2>9, <2>10, LocalTypes
  <2>3. TypeOK'
    BY <2>1, <2>4 DEF TypeOK
  <2>5. Past(p) /\ proc[p].pc \in Applying
    BY <2>1 DEF MigrationInv, Runs, Applying
  <2>6. Past(p)'
    BY <2>1, <2>4, <2>5 DEF Past, Files
  <2>7. Listed(p)' /\ Current(p)' /\ Done(p)'
    BY <2>1, <2>2, <2>4 DEF Listed, Current, Done
  <2> QED BY <2>3, <2>4, <2>6, <2>7, LocalInv
<1>8. ASSUME NEW p \in Processes, Record(p) PROVE TypeOK' /\ MigrationInv'
  <2>1. CASE recorded[proc[p].at] = Absent
    <3>1. /\ proc[p].pc = "record" /\ ~Inserting(proc[p].at) /\ Goto(p, "commit")
          /\ UNCHANGED <<tables, dir, steady, deploys, faults>>
      BY <1>8, <2>1 DEF Record
    <3> DEFINE r == [proc[p] EXCEPT !.pc = "commit"]
    <3>8. /\ r \in Locals /\ r.pc = "commit" /\ r.applied = proc[p].applied
          /\ r.names = proc[p].names /\ r.at = proc[p].at /\ r.content = proc[p].content
      BY DEF Locals, Applying
    <3>9. proc' = [proc EXCEPT ![p] = r]
      BY <3>1 DEF Goto
    <3>3. /\ proc'[p].pc = "commit" /\ proc'[p].applied = proc[p].applied
          /\ proc'[p].names = proc[p].names
          /\ proc'[p].at = proc[p].at /\ proc'[p].content = proc[p].content
          /\ \A q \in Processes \ {p} : proc'[q] = proc[q] /\ steady'[q] = steady[q]
          /\ proc' \in [Processes -> Locals] /\ UNCHANGED <<recorded, schema, dir>>
      <4> HIDE DEF r
      <4> QED BY <3>1, <3>8, <3>9, LocalTypes
    <3>2. TypeOK'
      BY <3>1, <3>3 DEF TypeOK
    <3>4. Past(p) /\ Current(p) /\ proc[p].pc \in Applying
      BY <3>1 DEF MigrationInv, Runs, Applying
    <3>5. Past(p)'
      BY <3>1, <3>3, <3>4 DEF Past, Files
    <3>6. Listed(p)' /\ Current(p)' /\ Done(p)'
      BY <3>1, <3>3, <3>4 DEF Listed, Current, Done
    <3>7. \A q \in Processes \ {p} : proc[q].pc = "commit" => proc[q].at # proc'[p].at
      BY <3>1, <3>3 DEF Inserting
    <3> QED BY <2>1, <3>1, <3>2, <3>3, <3>5, <3>6, <3>7, LocalInv
  <2>2. CASE recorded[proc[p].at] # Absent
    <3>1. End(p, "failed") /\ UNCHANGED <<tables, dir, steady, deploys, faults>>
      BY <1>8, <2>2 DEF Record
    <3> QED BY <3>1, EndInv, EndTypes DEF TypeOK, Ended
  <2> QED BY <2>1, <2>2
<1>9. ASSUME NEW p \in Processes, Commit(p) PROVE TypeOK' /\ MigrationInv'
  <2>1. /\ proc[p].pc = "commit" /\ TakeEffect(p)
        /\ proc' = [proc EXCEPT ![p].pc = "next", ![p].names = @ \ {proc[p].at},
                                ![p].at = 0, ![p].content = Absent]
        /\ UNCHANGED <<database, tracking, dir, steady, deploys, faults>>
    BY <1>9 DEF Commit
  <2> DEFINE r == [proc[p] EXCEPT !.pc = "next", !.names = @ \ {proc[p].at}, !.at = 0,
                                   !.content = Absent]
  <2>4. /\ r \in Locals /\ r.pc = "next" /\ r.applied = proc[p].applied
        /\ r.names = proc[p].names \ {proc[p].at}
    BY DEF Locals, Applying
  <2>5. proc' = [proc EXCEPT ![p] = r]
    BY <2>1
  <2>2. /\ proc'[p].pc = "next" /\ proc'[p].applied = proc[p].applied
        /\ proc'[p].names = proc[p].names \ {proc[p].at}
        /\ \A q \in Processes \ {p} : proc'[q] = proc[q]
        /\ proc' \in [Processes -> Locals]
    <3> HIDE DEF r
    <3> QED BY <2>4, <2>5, LocalTypes
  <2>3. recorded' \in Table /\ schema' \in Seq(Versions \X Contents) /\ MigrationInv'
    BY <2>1, <2>2, EffectInv
  <2> QED BY <2>1, <2>2, <2>3 DEF TypeOK
<1>10. ASSUME NEW p \in Processes, LoseAnswer(p) PROVE TypeOK' /\ MigrationInv'
  <2>1. /\ proc[p].pc = "commit" /\ TakeEffect(p) /\ End(p, "failed")
        /\ UNCHANGED <<database, tracking, dir, steady, deploys>> /\ faults' \in 0 .. MaxFaults
    BY <1>10 DEF LoseAnswer, TypeOK
  <2>2. proc'[p].pc = "failed" /\ \A q \in Processes \ {p} : proc'[q] = proc[q]
    BY <2>1 DEF End, Idle, TypeOK
  <2>3. recorded' \in Table /\ schema' \in Seq(Versions \X Contents) /\ MigrationInv'
    BY <2>1, <2>2, EffectInv
  <2> QED BY <2>1, <2>3, EndTypes DEF TypeOK, Ended
<1>11. ASSUME NEW p \in Processes, Finish(p) PROVE TypeOK' /\ MigrationInv'
  <2>1. /\ proc[p].pc = "next" /\ proc[p].names = {} /\ End(p, "succeeded")
        /\ UNCHANGED <<tables, dir, steady, deploys, faults>>
    BY <1>11 DEF Finish
  <2>2. Past(p) /\ proc[p].pc \in Applying
    BY <2>1 DEF MigrationInv, Runs, Applying
  <2>3. Done(p)'
    BY <2>1, <2>2 DEF Past, Done, Files
  <2> QED BY <2>1, <2>3, EndInv, EndTypes DEF TypeOK, Ended
<1>12. ASSUME NEW p \in Processes, Fail(p) PROVE TypeOK' /\ MigrationInv'
  <2>1. End(p, "failed") /\ UNCHANGED <<tables, dir, steady, deploys>> /\ faults' \in 0 .. MaxFaults
    BY <1>12 DEF Fail, TypeOK
  <2> QED BY <2>1, EndInv, EndTypes DEF TypeOK, Ended
<1>13. ASSUME NEW p \in Processes, Deploy(p) PROVE TypeOK' /\ MigrationInv'
  <2>1. /\ UNCHANGED <<tables, proc, faults>> /\ dir' \in [Processes -> Releases]
        /\ \A q \in Processes \ {p} : dir'[q] = dir[q] /\ steady'[q] = steady[q]
        /\ steady' \in [Processes -> BOOLEAN] /\ steady'[p] = FALSE
        /\ deploys' \in 0 .. MaxDeploys
    BY <1>13 DEF Deploy, TypeOK
  <2>2. TypeOK'
    BY <2>1 DEF TypeOK
  <2>3. \A q \in Processes : Runs(q)
    BY DEF MigrationInv
  <2>4. \A q \in Processes : Listed(q)' /\ Past(q)' /\ Current(q)' /\ Inserted(q)' /\ Done(q)'
    BY <2>1, <2>3 DEF Runs, Listed, Past, Current, Inserted, Done, Files
  <2>5. OncePerFile'
    BY <2>1 DEF MigrationInv, OncePerFile
  <2> QED BY <2>2, <2>4, <2>5 DEF MigrationInv, Runs
<1>14. CASE UNCHANGED vars
  <2>1. UNCHANGED <<database, tracking, recorded, schema, dir, proc, steady, deploys, faults>>
    BY <1>14 DEF vars
  <2>2. TypeOK'
    BY <2>1 DEF TypeOK
  <2>3. OncePerFile'
    BY <2>1 DEF MigrationInv, OncePerFile
  <2>4. ASSUME NEW p \in Processes PROVE Runs(p)'
    <3>1. Runs(p)
      BY DEF MigrationInv
    <3>2. Listed(p)' /\ Past(p)' /\ Current(p)' /\ Inserted(p)' /\ Done(p)'
      BY <2>1, <3>1 DEF Runs, Listed, Past, Current, Inserted, Done, Files
    <3> QED BY <3>2 DEF Runs
  <2> QED BY <2>2, <2>3, <2>4 DEF MigrationInv
<1> QED
  BY <1>1, <1>2, <1>3, <1>4, <1>5, <1>6, <1>7, <1>8, <1>9, <1>10, <1>11, <1>12, <1>13, <1>14
  DEF Next, Step

\* Migrations keeps its types, its rows and its committed contents agree, and
\* each process knows what its phase implies.
THEOREM MigrationsHold == Spec => [](TypeOK /\ MigrationInv)
<1>1. TypeOK /\ MigrationInv /\ [Next]_vars => (TypeOK /\ MigrationInv)'
  BY StepInv
<1> QED BY InitInv, <1>1, PTL DEF Spec

\* The types of Migrations.
THEOREM MigrationTypes == Spec => []TypeOK
  BY MigrationsHold, PTL

\* Every file takes effect at most once, and exactly when it is recorded.
THEOREM OncePerFileHolds == Spec => []OncePerFile
<1>1. MigrationInv => OncePerFile
  BY DEF MigrationInv
<1> QED BY <1>1, MigrationsHold, PTL

\* A run that reports success leaves every file of its directory applied.
THEOREM SuccessMeansAppliedHolds == Spec => []SuccessMeansApplied
<1>1. MigrationInv => SuccessMeansApplied
  BY DEF MigrationInv, Runs, Done, SuccessMeansApplied
<1> QED BY <1>1, MigrationsHold, PTL

\* No file takes effect before those that precede it in its directory.
THEOREM InOrderHolds == Spec => InOrder
<1>1. TypeOK /\ MigrationInv /\ [Next]_vars =>
        \A v \in Versions : recorded'[v] # recorded[v] =>
          \E p \in Processes : proc[p].at = v
             /\ (steady[p] => \A w \in Files(p) : w < v => recorded[w] = dir[p][w])
  <2> SUFFICES ASSUME TypeOK, MigrationInv, [Next]_vars, NEW v \in Versions,
                      recorded'[v] # recorded[v]
               PROVE  \E p \in Processes : proc[p].at = v
                        /\ (steady[p] => \A w \in Files(p) : w < v => recorded[w] = dir[p][w])
    OBVIOUS
  <2>1. PICK p \in Processes : Commit(p) \/ LoseAnswer(p)
    BY DEF Next, Step, vars, tables, Start, Open, Lookup, CreateDatabase, Load, EnsureTable,
           CreateTable, ReadApplied, Refuse, Skip, Execute, Record, Finish, Fail, Deploy
  <2>2. proc[p].pc = "commit" /\ TakeEffect(p)
    BY <2>1 DEF Commit, LoseAnswer
  <2>3. proc[p].at = v
    BY <2>2 DEF TakeEffect, TypeOK, Table
  <2>4. Past(p) /\ Current(p)
    BY DEF MigrationInv, Runs
  <2>5. ASSUME steady[p], NEW w \in Files(p), w < v PROVE recorded[w] = dir[p][w]
    <3>1. \A u \in proc[p].names : v <= u
      BY <2>2, <2>3, <2>4 DEF Current
    <3>2. w \in Nat /\ v \in Nat
      BY DEF Files
    <3>3. w \notin proc[p].names
      BY <2>5, <3>1, <3>2
    <3> QED BY <2>2, <2>4, <2>5, <3>3 DEF Past, Applying
  <2> QED BY <2>3, <2>5
<1> QED BY <1>1, MigrationsHold, PTL DEF Spec, InOrder
=============================================================================
