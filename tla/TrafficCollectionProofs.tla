------------------------ MODULE TrafficCollectionProofs ------------------------
(***************************************************************************)
(* Theorems about TrafficCollection, for all sets of nodes, accounts,      *)
(* instances and units of traffic and all bounds.                          *)
(***************************************************************************)
EXTENDS TrafficCollection, TLAPS

\* RecordedOnce, without its unions.
Apart ==
    /\ \A r, s \in rows : r # s => r.units \cap s.units = {}
    /\ \A m, n \in Nodes : m # n => answer[m] \cap answer[n] = {}
    /\ \A r \in rows : r.units \cap counter = {}
    /\ \A r \in rows, n \in Nodes : r.units \cap answer[n] = {}
    /\ \A n \in Nodes : answer[n] \cap counter = {}

\* Only what was transferred is anywhere, and rows hold what their account did.
Known ==
    /\ counter \subseteq served
    /\ \A r \in rows : r.units \subseteq served /\ \A u \in r.units : AccountOf[u] = r.account
    /\ \A n \in Nodes : answer[n] \subseteq served

\* What the goroutine of a node has in its variables in each phase.
Holds(n) ==
    /\ pc[n] \in {"idle", "query"} => answer[n] = {}
    /\ pc[n] # "insert" => mine[n] = {}
    /\ mine[n] \subseteq Answered(n)

CollectInv == Apart /\ Known /\ \A n \in Nodes : Holds(n)

USE CollectionAssumption DEF CollectionAssumption

LEMMA InitInv == Init => TypeOK /\ CollectInv
<1>1. Init => TypeOK
  <2> SUFFICES ASSUME Init PROVE TypeOK
    OBVIOUS
  <2>1. \A n \in Nodes : [listed |-> TRUE, api |-> InitApi[n]] \in NodeRow
    BY DEF NodeRow
  <2>2. node \in [Nodes -> NodeRow \cup {NoRow}] /\ Present = Nodes
    BY <2>1 DEF Init, Present
  <2> QED BY <2>2 DEF Init, TypeOK
<1>2. Init => CollectInv
  BY DEF Init, CollectInv, Apart, Known, Holds, Answered
<1> QED BY <1>1, <1>2

\* A goroutine that ends, with or without new rows, drops what it held.
LEMMA FinishInv ==
  ASSUME TypeOK, CollectInv, NEW n \in Nodes, Finish(n),
         rows' \in {rows, rows \cup Usages(n)}, Referable(n) \/ rows' = rows,
         counter' \subseteq counter, UNCHANGED <<catalogue, at, served>>,
         late' \subseteq Instances, faults' \in 0 .. MaxFaults
  PROVE  TypeOK' /\ CollectInv'
<1>1. /\ answer' \in [Nodes -> SUBSET Units] /\ mine' \in [Nodes -> SUBSET Accounts]
      /\ pc' \in [Nodes -> {"idle", "query", "bound", "insert"}]
      /\ ctx' \in [Nodes -> {"live", "expired"}]
      /\ answer'[n] = {} /\ mine'[n] = {} /\ pc'[n] = "idle"
      /\ \A m \in Nodes \ {n} : answer'[m] = answer[m] /\ mine'[m] = mine[m] /\ pc'[m] = pc[m]
  BY DEF Finish, TypeOK
<1>2. \A m \in Nodes : answer'[m] \subseteq answer[m]
  BY <1>1
<1>3. ASSUME NEW r \in rows' \ rows
      PROVE  /\ r \in Row /\ r.units \subseteq answer[n] /\ r.units # {}
             /\ \A u \in r.units : AccountOf[u] = r.account
             /\ r.account \in accounts /\ r.node \in Present
  <2>1. r \in Usages(n) /\ mine[n] \subseteq accounts /\ n \in Present
    BY <1>3 DEF Referable, Present
  <2>2. PICK a \in mine[n] :
          r = [account |-> a, node |-> n, units |-> {u \in answer[n] : AccountOf[u] = a}]
    BY <2>1 DEF Usages
  <2>3. a \in Accounts /\ a \in accounts /\ answer[n] \subseteq Units
    BY <2>1 DEF TypeOK
  <2>4. \E u \in answer[n] : AccountOf[u] = a
    BY DEF CollectInv, Holds, Answered
  <2> QED BY <2>1, <2>2, <2>3, <2>4 DEF Row
<1>4. \A r \in rows' : r \in rows \/ (r.units \subseteq answer[n] /\ r \in Usages(n))
  BY <1>3
<1>5. \A r, s \in rows' : r # s => r.units \cap s.units = {}
  <2> SUFFICES ASSUME NEW r \in rows', NEW s \in rows', r # s PROVE r.units \cap s.units = {}
    OBVIOUS
  <2>1. CASE r \in rows /\ s \in rows
    BY <2>1 DEF CollectInv, Apart
  <2>2. CASE r \in rows /\ s \notin rows
    BY <2>2, <1>3 DEF CollectInv, Apart
  <2>3. CASE r \notin rows /\ s \in rows
    BY <2>3, <1>3 DEF CollectInv, Apart
  <2>4. CASE r \notin rows /\ s \notin rows
    <3>1. PICK a \in mine[n] :
            r = [account |-> a, node |-> n, units |-> {u \in answer[n] : AccountOf[u] = a}]
      BY <2>4 DEF Usages
    <3>2. PICK b \in mine[n] :
            s = [account |-> b, node |-> n, units |-> {u \in answer[n] : AccountOf[u] = b}]
      BY <2>4 DEF Usages
    <3>3. a # b
      BY <3>1, <3>2
    <3> QED BY <3>1, <3>2, <3>3
  <2> QED BY <2>1, <2>2, <2>3, <2>4
<1>6. Apart'
  <2>1. \A r \in rows' : r.units \cap counter' = {}
    BY <1>3 DEF CollectInv, Apart
  <2>2. ASSUME NEW r \in rows', NEW m \in Nodes PROVE r.units \cap answer'[m] = {}
    <3>1. CASE r \in rows
      BY <3>1, <1>2 DEF CollectInv, Apart
    <3>2. CASE r \notin rows
      BY <3>2, <1>3, <1>1 DEF CollectInv, Apart
    <3> QED BY <3>1, <3>2
  <2>3. \A m, k \in Nodes : m # k => answer'[m] \cap answer'[k] = {}
    BY <1>2 DEF CollectInv, Apart
  <2>4. \A m \in Nodes : answer'[m] \cap counter' = {}
    BY <1>2 DEF CollectInv, Apart
  <2> QED BY <1>5, <2>1, <2>2, <2>3, <2>4 DEF Apart
<1>7. Known'
  <2>1. \A r \in rows' : r.units \subseteq served /\ \A u \in r.units : AccountOf[u] = r.account
    BY <1>3 DEF CollectInv, Known
  <2> QED BY <2>1, <1>2 DEF CollectInv, Known
<1>8. \A m \in Nodes : Holds(m)'
  BY <1>1 DEF CollectInv, Holds, Answered
<1>9. TypeOK'
  <2>1. rows' \subseteq Row /\ \A r \in rows' : r.account \in accounts /\ r.node \in Present /\ r.units # {}
    BY <1>3 DEF TypeOK
  <2> QED BY <1>1, <2>1 DEF TypeOK, Present, catalogue
<1> QED BY <1>6, <1>7, <1>8, <1>9 DEF CollectInv

\* Steps that leave the goroutines alone, take from the counters, and may delete
\* accounts and nodes with their rows.
LEMMA QuietInv ==
  ASSUME TypeOK, CollectInv, UNCHANGED <<pc, at, answer, mine, served>>,
         ctx' \in [Nodes -> {"live", "expired"}],
         rows' \subseteq rows, counter' \subseteq counter, late' \subseteq Instances,
         accounts' \subseteq Accounts, node' \in [Nodes -> NodeRow \cup {NoRow}],
         bound' \subseteq accounts' \X Present',
         \A r \in rows' : r.account \in accounts' /\ r.node \in Present',
         events' \in 0 .. MaxEvents, faults' \in 0 .. MaxFaults
  PROVE  TypeOK' /\ CollectInv'
<1>1. Apart' /\ Known'
  BY DEF CollectInv, Apart, Known
<1>2. \A n \in Nodes : Holds(n)'
  BY DEF CollectInv, Holds, Answered
<1>3. TypeOK'
  BY DEF TypeOK
<1> QED BY <1>1, <1>2, <1>3 DEF CollectInv

LEMMA FaultCounts == TypeOK => \A n \in Nodes : FailsNow(n) => faults' \in 0 .. MaxFaults
  BY DEF TypeOK, FailsNow

\* Every step keeps the types and the invariant.
LEMMA StepInv == TypeOK /\ CollectInv /\ [Next]_vars => TypeOK' /\ CollectInv'
<1> SUFFICES ASSUME TypeOK, CollectInv, [Next]_vars PROVE TypeOK' /\ CollectInv'
  OBVIOUS
<1>1. CASE RoundStart
  <2>1. pc' \in [Nodes -> {"idle", "query", "bound", "insert"}]
        /\ \A n \in Nodes : pc'[n] \in {"idle", "query"}
    BY <1>1 DEF RoundStart
  <2>2. \A n \in Nodes : answer[n] = {} /\ mine[n] = {}
    BY <1>1 DEF RoundStart, CollectInv, Holds
  <2>3. TypeOK'
    <3>1. at' \in [Nodes -> Instances]
      BY <1>1 DEF RoundStart, TypeOK, Listed, NodeRow
    <3> QED BY <1>1, <2>1, <3>1 DEF RoundStart, TypeOK, Present, catalogue
  <2>4. \A n \in Nodes : Holds(n)'
    BY <1>1, <2>1, <2>2 DEF RoundStart, Holds, Answered
  <2>5. Apart' /\ Known'
    BY <1>1 DEF RoundStart, CollectInv, Apart, Known
  <2> QED BY <2>3, <2>4, <2>5 DEF CollectInv
<1>2. ASSUME NEW n \in Nodes, Query(n) PROVE TypeOK' /\ CollectInv'
  <2>1. /\ pc[n] = "query" /\ answer[n] = {} /\ mine[n] = {}
        /\ Counted(at[n]) \subseteq counter
    BY <1>2 DEF Query, CollectInv, Holds, Counted
  <2>2. /\ answer'[n] = Counted(at[n]) /\ \A m \in Nodes \ {n} : answer'[m] = answer[m]
        /\ pc'[n] = "bound" /\ \A m \in Nodes \ {n} : pc'[m] = pc[m]
        /\ counter' = counter \ Counted(at[n])
        /\ UNCHANGED <<rows, mine, served>>
    BY <1>2 DEF Query, TypeOK
  <2>3. TypeOK'
    <3>1. Counted(at[n]) \subseteq Units
      BY <2>1 DEF TypeOK
    <3> QED BY <1>2, <3>1 DEF Query, TypeOK, Present, catalogue
  <2>4. Apart'
    <3>1. \A m, k \in Nodes : m # k => answer'[m] \cap answer'[k] = {}
      BY <2>1, <2>2 DEF CollectInv, Apart
    <3>2. \A r \in rows', m \in Nodes : r.units \cap answer'[m] = {}
      BY <2>1, <2>2 DEF CollectInv, Apart
    <3>3. \A m \in Nodes : answer'[m] \cap counter' = {}
      BY <2>1, <2>2 DEF CollectInv, Apart
    <3> QED BY <3>1, <3>2, <3>3, <2>2 DEF CollectInv, Apart
  <2>5. Known'
    BY <2>1, <2>2 DEF CollectInv, Known
  <2>6. \A m \in Nodes : Holds(m)'
    BY <2>1, <2>2 DEF CollectInv, Holds, Answered
  <2> QED BY <2>3, <2>4, <2>5, <2>6 DEF CollectInv
<1>3. ASSUME NEW n \in Nodes, QueryFails(n) PROVE TypeOK' /\ CollectInv'
  <2>1. Finish(n) /\ rows' = rows /\ counter' \subseteq counter /\ late' \subseteq Instances
        /\ UNCHANGED <<catalogue, at, served>> /\ faults' \in 0 .. MaxFaults
    BY <1>3, FaultCounts DEF QueryFails, TypeOK
  <2> QED BY <2>1, FinishInv
<1>4. ASSUME NEW n \in Nodes, ReadBound(n) PROVE TypeOK' /\ CollectInv'
  <2>1. CASE answer[n] = {}
    <3>1. Finish(n) /\ UNCHANGED <<catalogue, at, rows, counter, late, served, faults>>
      BY <1>4, <2>1 DEF ReadBound
    <3> QED BY <3>1, FinishInv DEF TypeOK
  <2>2. CASE answer[n] # {}
    <3> DEFINE asked == {a \in Answered(n) : <<a, n>> \in bound}
    <3>1. /\ mine' = [mine EXCEPT ![n] = asked] /\ pc' = [pc EXCEPT ![n] = "insert"]
          /\ UNCHANGED <<ctx, answer, catalogue, at, rows, counter, late, served, faults>>
          /\ pc[n] = "bound"
      BY <1>4, <2>2 DEF ReadBound
    <3>2. asked \subseteq Answered(n) /\ asked \subseteq Accounts
      BY DEF TypeOK, Answered
    <3> HIDE DEF asked
    <3>3. \A m \in Nodes : Holds(m)'
      BY <3>1, <3>2 DEF TypeOK, CollectInv, Holds, Answered
    <3>4. Apart' /\ Known'
      BY <3>1 DEF CollectInv, Apart, Known
    <3>5. TypeOK'
      BY <3>1, <3>2 DEF TypeOK, Present, catalogue
    <3> QED BY <3>3, <3>4, <3>5 DEF CollectInv
  <2> QED BY <2>1, <2>2
<1>5. ASSUME NEW n \in Nodes, Insert(n) PROVE TypeOK' /\ CollectInv'
  <2>1. /\ Finish(n) /\ rows' \in {rows, rows \cup Usages(n)}
        /\ Referable(n) \/ rows' = rows
        /\ UNCHANGED <<catalogue, at, counter, late, served, faults>>
    BY <1>5 DEF Insert
  <2> QED BY <2>1, FinishInv DEF TypeOK
<1>6. ASSUME NEW n \in Nodes, RecordFails(n) PROVE TypeOK' /\ CollectInv'
  <2>1. /\ Finish(n) /\ rows' \in {rows, rows \cup Usages(n)}
        /\ Referable(n) \/ rows' = rows
        /\ UNCHANGED <<catalogue, at, counter, late, served>> /\ faults' \in 0 .. MaxFaults
    BY <1>6, FaultCounts DEF RecordFails
  <2> QED BY <2>1, FinishInv DEF TypeOK
<1>7. ASSUME NEW n \in Nodes, Deadline(n) PROVE TypeOK' /\ CollectInv'
  <2>1. ctx' \in [Nodes -> {"live", "expired"}] /\ faults' \in 0 .. MaxFaults
        /\ UNCHANGED <<catalogue, at, rows, counter, pc, answer, mine, late, served>>
    BY <1>7 DEF Deadline, TypeOK
  <2> QED BY <2>1, QuietInv DEF TypeOK, Present, catalogue
<1>8. CASE Crash
  <2>1. /\ UNCHANGED <<catalogue, at, rows, counter, served>> /\ late' \subseteq Instances
        /\ faults' \in 0 .. MaxFaults
        /\ pc' = [n \in Nodes |-> "idle"] /\ ctx' = [n \in Nodes |-> "live"]
        /\ answer' = [n \in Nodes |-> {}] /\ mine' = [n \in Nodes |-> {}]
    BY <1>8 DEF Crash, TypeOK
  <2>2. TypeOK'
    BY <2>1 DEF TypeOK, Present, catalogue
  <2>3. Apart' /\ Known' /\ \A n \in Nodes : Holds(n)'
    BY <2>1 DEF CollectInv, Apart, Known, Holds, Answered
  <2> QED BY <2>2, <2>3 DEF CollectInv
<1>9. ASSUME NEW u \in Units, Serve(u) PROVE TypeOK' /\ CollectInv'
  <2>1. /\ u \notin served /\ served' = served \cup {u} /\ counter' = counter \cup {u}
        /\ UNCHANGED <<catalogue, rows, pc, at, ctx, answer, mine, late, faults>>
    BY <1>9 DEF Serve, run
  <2>2. TypeOK'
    BY <2>1 DEF TypeOK, Present, catalogue
  <2>3. Apart'
    BY <2>1 DEF CollectInv, Apart, Known
  <2>4. Known'
    BY <2>1 DEF CollectInv, Known
  <2>5. \A n \in Nodes : Holds(n)'
    BY <2>1 DEF CollectInv, Holds, Answered
  <2> QED BY <2>2, <2>3, <2>4, <2>5 DEF CollectInv
<1>10. ASSUME NEW a \in Accounts, Rebind(a) PROVE TypeOK' /\ CollectInv'
  <2>1. PICK ns \in SUBSET Present : bound' = {b \in bound : b[1] # a} \cup ({a} \X ns)
    BY <1>10 DEF Rebind
  <2>2. a \in accounts /\ UNCHANGED <<accounts, node, rows, counter, pc, at, ctx, answer,
                                       mine, late, served, faults>>
        /\ events' \in 0 .. MaxEvents
    BY <1>10 DEF Rebind, Event, run, TypeOK
  <2>3. bound' \subseteq accounts' \X Present'
    BY <2>1, <2>2 DEF TypeOK, Present
  <2> QED BY <2>2, <2>3, QuietInv DEF TypeOK, Present
<1>11. ASSUME NEW a \in Accounts, DeleteAccount(a) PROVE TypeOK' /\ CollectInv'
  <2>1. /\ accounts' = accounts \ {a} /\ bound' = {b \in bound : b[1] # a}
        /\ rows' = {r \in rows : r.account # a} /\ events' \in 0 .. MaxEvents
        /\ UNCHANGED <<node, counter, pc, at, ctx, answer, mine, late, served, faults>>
    BY <1>11 DEF DeleteAccount, Event, run, TypeOK
  <2>2. bound' \subseteq accounts' \X Present'
    BY <2>1 DEF TypeOK, Present
  <2>3. \A r \in rows' : r.account \in accounts' /\ r.node \in Present'
    BY <2>1 DEF TypeOK, Present
  <2> QED BY <2>1, <2>2, <2>3, QuietInv DEF TypeOK
<1>12. ASSUME NEW x \in Instances, RestartXray(x) PROVE TypeOK' /\ CollectInv'
  <2>1. counter' \subseteq counter /\ faults' \in 0 .. MaxFaults
        /\ UNCHANGED <<catalogue, rows, pc, at, ctx, answer, mine, late, served>>
    BY <1>12 DEF RestartXray, run, TypeOK
  <2> QED BY <2>1, QuietInv DEF TypeOK, Present, catalogue
<1>13. ASSUME NEW x \in Instances, LateArrives(x) \/ LateLost(x) PROVE TypeOK' /\ CollectInv'
  <2>1. counter' \subseteq counter /\ late' \subseteq late
        /\ UNCHANGED <<catalogue, rows, pc, at, ctx, answer, mine, served, faults>>
    BY <1>13 DEF LateArrives, LateLost, run
  <2> QED BY <2>1, QuietInv DEF TypeOK, Present, catalogue
<1>14. ASSUME NEW n \in Nodes, SaveNode(n) PROVE TypeOK' /\ CollectInv'
  <2>1. PICK row \in NodeRow : node' = [node EXCEPT ![n] = row]
    BY <1>14 DEF SaveNode
  <2>2. events' \in 0 .. MaxEvents
        /\ UNCHANGED <<accounts, bound, rows, counter, pc, at, ctx, answer, mine, late, served, faults>>
    BY <1>14 DEF SaveNode, Event, run, TypeOK
  <2>3. node' \in [Nodes -> NodeRow \cup {NoRow}] /\ Present \subseteq Present'
    BY <2>1 DEF TypeOK, Present
  <2>4. bound' \subseteq accounts' \X Present'
    BY <2>2, <2>3 DEF TypeOK
  <2>5. \A r \in rows' : r.account \in accounts' /\ r.node \in Present'
    BY <2>2, <2>3 DEF TypeOK
  <2> QED BY <2>2, <2>3, <2>4, <2>5, QuietInv DEF TypeOK
<1>15. ASSUME NEW n \in Nodes, DeleteNode(n) PROVE TypeOK' /\ CollectInv'
  <2>1. /\ node' = [node EXCEPT ![n] = NoRow] /\ bound' = {b \in bound : b[2] # n}
        /\ rows' = {r \in rows : r.node # n} /\ events' \in 0 .. MaxEvents
        /\ UNCHANGED <<accounts, counter, pc, at, ctx, answer, mine, late, served, faults>>
    BY <1>15 DEF DeleteNode, Event, run, TypeOK
  <2>2. node' \in [Nodes -> NodeRow \cup {NoRow}] /\ Present' = Present \ {n}
    BY <2>1 DEF TypeOK, Present
  <2>3. bound' \subseteq accounts' \X Present'
    BY <2>1, <2>2 DEF TypeOK
  <2>4. \A r \in rows' : r.account \in accounts' /\ r.node \in Present'
    BY <2>1, <2>2 DEF TypeOK
  <2> QED BY <2>1, <2>2, <2>3, <2>4, QuietInv DEF TypeOK
<1>16. CASE UNCHANGED vars
  BY <1>16, QuietInv DEF vars, TypeOK, Present
<1> QED
  BY <1>1, <1>2, <1>3, <1>4, <1>5, <1>6, <1>7, <1>8, <1>9, <1>10, <1>11, <1>12, <1>13, <1>14,
     <1>15, <1>16 DEF Next, CollectStep, Environment

LEMMA ApartRecordedOnce == CollectInv => RecordedOnce
<1> SUFFICES ASSUME Apart PROVE RecordedOnce
  BY DEF CollectInv
<1>1. Recorded \cap counter = {}
  BY DEF Apart, Recorded
<1>2. Held \cap counter = {}
  BY DEF Apart, Held
<1>3. Recorded \cap Held = {}
  BY DEF Apart, Recorded, Held
<1> QED BY <1>1, <1>2, <1>3 DEF Apart, RecordedOnce

\* Where a unit is, without the unions.
Kept(u) == u \in counter \/ (\E n \in Nodes : u \in answer[n]) \/ (\E r \in rows : u \in r.units)

\* What may have happened to a unit that is gone, as LossExplained lists it.
Explained(u) ==
    \/ faults' # faults
    \/ InstanceOf[u] \in late \ late'
    \/ \E n \in Nodes : Dropped(u, n)
    \/ \E r \in rows : u \in r.units /\ (r.account \notin accounts' \/ r.node \notin Present')

LEMMA FailsExplain ==
  ASSUME TypeOK, NEW n \in Nodes, FailsNow(n)
  PROVE  faults' # faults \/ ctx[n] = "expired"
  BY DEF TypeOK, FailsNow

\* A goroutine that ends loses at most what it held.
LEMMA FinishLoss ==
  ASSUME TypeOK, NEW n \in Nodes, Finish(n), rows \subseteq rows', NEW u, Kept(u), ~Kept(u)'
  PROVE  u \in counter \ counter' \/ u \in answer[n]
<1>1. \A m \in Nodes \ {n} : answer'[m] = answer[m]
  BY DEF Finish, TypeOK
<1> QED BY <1>1 DEF Kept

LEMMA StepLoss ==
  ASSUME TypeOK, CollectInv, [Next]_vars, NEW u, Kept(u), ~Kept(u)'
  PROVE  Explained(u)
<1>1. CASE RoundStart \/ Crash \/ UNCHANGED vars
  BY <1>1 DEF RoundStart, Crash, vars, Kept, Explained, TypeOK
<1>2. ASSUME NEW n \in Nodes, Query(n) PROVE FALSE
  <2>1. answer[n] = {} /\ answer'[n] = Counted(at[n]) /\ counter' = counter \ Counted(at[n])
        /\ rows' = rows /\ \A m \in Nodes \ {n} : answer'[m] = answer[m]
    BY <1>2 DEF Query, TypeOK, CollectInv, Holds
  <2> QED BY <2>1 DEF Kept
<1>3. ASSUME NEW n \in Nodes, QueryFails(n) PROVE Explained(u)
  <2>1. Finish(n) /\ rows' = rows /\ answer[n] = {}
        /\ (counter' = counter \/ (ctx[n] = "live" /\ FailsNow(n)))
    BY <1>3 DEF QueryFails, CollectInv, Holds
  <2>2. ctx[n] = "live" /\ FailsNow(n)
    BY <2>1, FinishLoss
  <2> QED BY <2>2, FailsExplain DEF Explained
<1>4. ASSUME NEW n \in Nodes, ReadBound(n) PROVE FALSE
  <2>1. CASE answer[n] = {}
    <3>1. Finish(n) /\ rows' = rows /\ counter' = counter
      BY <1>4, <2>1 DEF ReadBound
    <3> QED BY <3>1, <2>1, FinishLoss
  <2>2. CASE answer[n] # {}
    BY <1>4, <2>2 DEF ReadBound, Kept
  <2> QED BY <2>1, <2>2
<1>5. ASSUME NEW n \in Nodes, Insert(n) PROVE Explained(u)
  <2>1. /\ Finish(n) /\ counter' = counter /\ pc[n] = "insert" /\ rows \subseteq rows'
        /\ Referable(n) => rows' = rows \cup Usages(n)
    BY <1>5 DEF Insert
  <2>2. u \in answer[n]
    BY <2>1, FinishLoss
  <2>3. CASE Referable(n) /\ AccountOf[u] \in mine[n]
    <3> DEFINE row == [account |-> AccountOf[u], node |-> n,
                       units |-> {v \in answer[n] : AccountOf[v] = AccountOf[u]}]
    <3>1. row \in rows' /\ u \in row.units
      BY <2>1, <2>2, <2>3 DEF Usages
    <3> QED BY <3>1 DEF Kept
  <2> QED BY <2>1, <2>2, <2>3 DEF Explained, Dropped
<1>6. ASSUME NEW n \in Nodes, RecordFails(n) PROVE Explained(u)
  <2>1. Finish(n) /\ counter' = counter /\ rows \subseteq rows' /\ FailsNow(n)
    BY <1>6 DEF RecordFails
  <2>2. u \in answer[n]
    BY <2>1, FinishLoss
  <2> QED BY <2>1, <2>2, FailsExplain DEF Explained, Dropped
<1>7. ASSUME NEW n \in Nodes, Deadline(n) PROVE FALSE
  BY <1>7 DEF Deadline, Kept
<1>8. ASSUME NEW v \in Units, Serve(v) PROVE FALSE
  BY <1>8 DEF Serve, run, Kept
<1>9. ASSUME NEW a \in Accounts, Rebind(a) PROVE FALSE
  BY <1>9 DEF Rebind, run, Kept
<1>10. ASSUME NEW a \in Accounts, DeleteAccount(a) PROVE Explained(u)
  <2>1. /\ accounts' = accounts \ {a} /\ rows' = {r \in rows : r.account # a}
        /\ UNCHANGED <<counter, answer>>
    BY <1>10 DEF DeleteAccount, run
  <2>2. PICK r \in rows : u \in r.units /\ r.account = a
    BY <2>1 DEF Kept
  <2> QED BY <2>1, <2>2 DEF Explained
<1>11. ASSUME NEW x \in Instances, RestartXray(x) PROVE Explained(u)
  BY <1>11 DEF RestartXray, Explained, TypeOK
<1>12. ASSUME NEW x \in Instances, LateArrives(x) PROVE Explained(u)
  <2>1. counter' = counter \ Counted(x) /\ late' = late \ {x} /\ x \in late
        /\ UNCHANGED <<rows, answer>>
    BY <1>12 DEF LateArrives, run
  <2>2. u \in Counted(x)
    BY <2>1 DEF Kept
  <2> QED BY <2>1, <2>2 DEF Counted, Explained
<1>13. ASSUME NEW x \in Instances, LateLost(x) PROVE FALSE
  BY <1>13 DEF LateLost, run, Kept
<1>14. ASSUME NEW n \in Nodes, SaveNode(n) PROVE FALSE
  BY <1>14 DEF SaveNode, run, Kept
<1>15. ASSUME NEW n \in Nodes, DeleteNode(n) PROVE Explained(u)
  <2>1. /\ node' = [node EXCEPT ![n] = NoRow] /\ rows' = {r \in rows : r.node # n}
        /\ UNCHANGED <<counter, answer>>
    BY <1>15 DEF DeleteNode, run
  <2>2. PICK r \in rows : u \in r.units /\ r.node = n
    BY <2>1 DEF Kept
  <2>3. n \notin Present'
    BY <2>1 DEF Present, TypeOK
  <2> QED BY <2>2, <2>3 DEF Explained
<1> QED
  BY <1>1, <1>2, <1>3, <1>4, <1>5, <1>6, <1>7, <1>8, <1>9, <1>10, <1>11, <1>12, <1>13, <1>14,
     <1>15 DEF Next, CollectStep, Environment

\* The collector keeps its types, and what each goroutine holds in each phase.
THEOREM CollectionHolds == Spec => [](TypeOK /\ CollectInv)
<1>1. TypeOK /\ CollectInv /\ [Next]_vars => (TypeOK /\ CollectInv)'
  BY StepInv
<1> QED BY InitInv, <1>1, PTL DEF Spec

\* The types of TrafficCollection: rows only of accounts and nodes that
\* exist, never empty.
THEOREM CollectionTypes == Spec => []TypeOK
  BY CollectionHolds, PTL

\* No byte is billed twice, whatever is repeated after failures, deadlines,
\* crashes and queries that arrive late.
THEOREM RecordedOnceHolds == Spec => []RecordedOnce
  BY CollectionHolds, ApartRecordedOnce, PTL

\* Every byte that disappears has one of the causes LossExplained lists.
THEOREM LossExplainedHolds == Spec => LossExplained
<1>1. TypeOK /\ CollectInv /\ [Next]_vars =>
        \A u \in Somewhere \ Somewhere' :
          \/ faults' # faults
          \/ InstanceOf[u] \in late \ late'
          \/ \E n \in Nodes : Dropped(u, n)
          \/ \E r \in rows :
                u \in r.units /\ (r.account \notin accounts' \/ r.node \notin Present')
  <2> SUFFICES ASSUME TypeOK, CollectInv, [Next]_vars, NEW u \in Somewhere \ Somewhere'
               PROVE  Explained(u)
    BY DEF Explained
  <2>1. Kept(u)
    BY DEF Somewhere, Recorded, Held, Kept
  <2>2. ~Kept(u)'
    BY DEF Somewhere, Recorded, Held, Kept
  <2> QED BY <2>1, <2>2, StepLoss
<1> QED BY <1>1, CollectionHolds, PTL DEF Spec, LossExplained

(***************************************************************************)
(* Delivery at most once.                                                  *)
(***************************************************************************)

\* The sets of the abstract specification, without their unions.
LEMMA PlaceIs ==
  /\ \A u : u \in Held <=> \E n \in Nodes : u \in answer[n]
  /\ \A u : u \in Recorded <=> \E r \in rows : u \in r.units
  /\ \A u : u \in Held' <=> \E n \in Nodes : u \in answer'[n]
  /\ \A u : u \in Recorded' <=> \E r \in rows' : u \in r.units
  BY DEF Held, Recorded

\* A goroutine that ends has recorded some of what it held, or nothing.
LEMMA FinishRecords ==
  ASSUME TypeOK, CollectInv, NEW n \in Nodes, Finish(n), counter' = counter, served' = served,
         rows' = rows \/ rows' = rows \cup Usages(n)
  PROVE  Account!Record(answer[n]) /\ answer[n] \in SUBSET Held
<1>1. answer'[n] = {} /\ \A m \in Nodes \ {n} : answer'[m] = answer[m]
  BY DEF Finish, TypeOK
<1>2. Held' = Held \ answer[n]
  <2>1. \A m \in Nodes \ {n} : answer[m] \cap answer[n] = {}
    BY DEF CollectInv, Apart
  <2>2. \A u : u \in Held' <=> u \in Held /\ u \notin answer[n]
    BY <1>1, <2>1, PlaceIs
  <2> QED BY <2>2
<1>3. Recorded \subseteq Recorded'
  BY PlaceIs
<1>4. Recorded' \subseteq Recorded \cup answer[n]
  <2> SUFFICES ASSUME NEW r \in rows', r \notin rows PROVE r.units \subseteq answer[n]
    BY PlaceIs
  <2>1. PICK a \in mine[n] :
          r = [account |-> a, node |-> n, units |-> {u \in answer[n] : AccountOf[u] = a}]
    BY DEF Usages
  <2> QED BY <2>1
<1>5. answer[n] \subseteq Held
  BY PlaceIs
<1> QED BY <1>2, <1>3, <1>4, <1>5 DEF Account!Record

\* Every step delivers, loses or does neither.
LEMMA DeliveryStep ==
  TypeOK /\ CollectInv /\ [Next]_vars => [Account!Next]_(Account!deliveryVars)
<1> SUFFICES ASSUME TypeOK, CollectInv, [Next]_vars
             PROVE  Account!Next \/ UNCHANGED Account!deliveryVars
  OBVIOUS
<1>1. ASSUME counter' \subseteq counter, \A n \in Nodes : answer'[n] \subseteq answer[n],
             rows' \subseteq rows, served' = served
      PROVE  Account!Next
  <2>1. Held' \subseteq Held /\ Recorded' \subseteq Recorded
    BY <1>1, PlaceIs
  <2> QED BY <1>1, <2>1 DEF Account!Next, Account!Lose
<1>2. ASSUME NEW n \in Nodes, Query(n) PROVE Account!Next
  <2>1. /\ answer[n] = {} /\ answer'[n] = Counted(at[n]) /\ counter' = counter \ Counted(at[n])
        /\ rows' = rows /\ served' = served /\ \A m \in Nodes \ {n} : answer'[m] = answer[m]
    BY <1>2 DEF Query, TypeOK, CollectInv, Holds
  <2>2. Held' = Held \cup Counted(at[n])
    <3>1. \A u : u \in Held' <=> u \in Held \/ u \in Counted(at[n])
      BY <2>1, PlaceIs
    <3> QED BY <3>1
  <2>3. Recorded' = Recorded
    BY <2>1 DEF Recorded
  <2>4. Counted(at[n]) \in SUBSET counter
    BY DEF Counted
  <2> QED BY <2>1, <2>2, <2>3, <2>4 DEF Account!Next, Account!Take
<1>3. ASSUME NEW n \in Nodes, Finish(n), counter' = counter, served' = served,
             rows' = rows \/ rows' = rows \cup Usages(n)
      PROVE  Account!Next
  BY <1>3, FinishRecords DEF Account!Next
<1>4. ASSUME NEW n \in Nodes, QueryFails(n) PROVE Account!Next
  <2>1. Finish(n) /\ rows' = rows /\ served' = served /\ counter' \subseteq counter
    BY <1>4 DEF QueryFails
  <2>2. \A m \in Nodes : answer'[m] \subseteq answer[m]
    BY <2>1 DEF Finish, TypeOK
  <2> QED BY <1>1, <2>1, <2>2
<1>5. ASSUME NEW n \in Nodes, ReadBound(n) PROVE Account!Next
  <2>1. CASE answer[n] = {}
    BY <1>3, <1>5, <2>1 DEF ReadBound
  <2>2. CASE answer[n] # {}
    BY <1>1, <1>5, <2>2 DEF ReadBound
  <2> QED BY <2>1, <2>2
<1>6. ASSUME NEW n \in Nodes, Insert(n) \/ RecordFails(n) PROVE Account!Next
  BY <1>3, <1>6 DEF Insert, RecordFails
<1>7. ASSUME NEW u \in Units, Serve(u) PROVE Account!Next
  <2>1. /\ u \notin served /\ served' = served \cup {u} /\ counter' = counter \cup {u}
        /\ UNCHANGED <<rows, answer>>
    BY <1>7 DEF Serve, run
  <2>2. Held' = Held /\ Recorded' = Recorded
    BY <2>1 DEF Held, Recorded
  <2> QED BY <2>1, <2>2 DEF Account!Next, Account!Use
<1>8. CASE Crash
  <2>1. rows' = rows /\ counter' = counter /\ served' = served /\ \A n \in Nodes : answer'[n] = {}
    BY <1>8 DEF Crash
  <2> QED BY <1>1, <2>1
<1>9. ASSUME UNCHANGED answer, UNCHANGED served, counter' \subseteq counter, rows' \subseteq rows
      PROVE  Account!Next
  BY <1>1, <1>9
<1> QED
  BY <1>2, <1>4, <1>5, <1>6, <1>7, <1>8, <1>9
  DEF Next, CollectStep, Environment, RoundStart, Deadline, Rebind, DeleteAccount, RestartXray,
      LateArrives, LateLost, SaveNode, DeleteNode, run, vars

\* The collector delivers every unit of traffic at most once: all its steps,
\* failures, crashes and late queries are steps of Delivery.
THEOREM AtMostOnceHolds == Spec => AtMostOnce
<1>1. Init => Account!Init
  BY DEF Init, Account!Init, Held, Recorded
<1>2. TypeOK /\ CollectInv /\ [Next]_vars => [Account!Next]_(Account!deliveryVars)
  BY DeliveryStep
<1> QED BY <1>1, <1>2, CollectionHolds, PTL DEF Spec, AtMostOnce, Account!Spec

\* What no counter, goroutine and row holds any more is never billed later.
THEOREM LostForGoodHolds == Spec => LostForGood
<1>1. TypeOK /\ CollectInv /\ [Next]_vars => served \ Somewhere \subseteq served' \ Somewhere'
  <2> SUFFICES ASSUME TypeOK, CollectInv, [Next]_vars
               PROVE  served \ Somewhere \subseteq served' \ Somewhere'
    OBVIOUS
  <2>1. Account!Next \/ UNCHANGED <<served, counter, Held, Recorded>>
    BY DeliveryStep DEF Account!deliveryVars
  <2>2. ASSUME NEW u \in Units, Account!Use(u)
        PROVE  served \ Somewhere \subseteq served' \ Somewhere'
    BY <2>2 DEF Account!Use, Somewhere
  <2>3. ASSUME NEW S \in SUBSET counter, Account!Take(S)
        PROVE  served \ Somewhere \subseteq served' \ Somewhere'
    BY <2>3 DEF Account!Take, Somewhere
  <2>4. ASSUME NEW S \in SUBSET Held, Account!Record(S)
        PROVE  served \ Somewhere \subseteq served' \ Somewhere'
    BY <2>4 DEF Account!Record, Somewhere
  <2>5. ASSUME Account!Lose PROVE served \ Somewhere \subseteq served' \ Somewhere'
    BY <2>5 DEF Account!Lose, Somewhere
  <2> QED BY <2>1, <2>2, <2>3, <2>4, <2>5 DEF Account!Next, Somewhere
<1> QED BY <1>1, CollectionHolds, PTL DEF Spec, LostForGood
=============================================================================
