-------------------------- MODULE TrafficLedgerProofs --------------------------
(***************************************************************************)
(* Theorems about TrafficLedger, for all rows, series, cleaners, retention *)
(* times, day lengths and bounds; that a row is counted only once is       *)
(* proved while no two cleanups have aggregated the same row.              *)
(***************************************************************************)
EXTENDS TrafficLedger, TLAPS

USE LedgerAssumption DEF LedgerAssumption

\* What the transaction of c holds in each phase.  A row past its cutoff that it
\* has not seen came between its statements, and what it has seen it deletes,
\* unless another cleaner was faster.
Holds(c) ==
    /\ pc[c] \in {"idle", "aggregate"} => seen[c] = {}
    /\ pc[c] \notin {"purge", "commit"} => gone[c] = {}
    /\ pc[c] # "commit" => purged[c] = {}
    /\ seen[c] \subseteq recorded
    /\ \A r \in seen[c] : at[r] < Cutoff(c)
    /\ pc[c] \in {"upsert", "delete"} =>
         \A r \in detail : at[r] < Cutoff(c) => r \in seen[c] \cup overtaken
    /\ pc[c] \in {"purge", "commit"} =>
         /\ gone[c] \subseteq seen[c] \cup overtaken
         /\ \A r \in seen[c] : r \in detail => r \in gone[c]
    /\ \A k \in purged[c] : k[2] < DailyCutoff(c)

\* Only rows that were written are counted.
Counted == \A r \in Rows : counted[r] > 0 => r \in recorded

LedgerInv == LedgerKeeps /\ Counted /\ \A c \in Cleaners : Holds(c)

\* What a total has found, or is going to find among the daily rows.
TotalInv ==
    /\ total.due \subseteq recorded
    /\ total.phase = "second" =>
         \A r \in total.due : Kept(r) =>
            \/ r \in total.got
            \/ counted[r] > 0 /\ Within(r, total.window)
    /\ TotalMissesNothing

(***************************************************************************)
(* Days.                                                                   *)
(***************************************************************************)
LEMMA DayTypes == \A t \in Int : Day(t) \in Int
  BY DEF Day

LEMMA KeyTypes ==
  ASSUME TypeOK, NEW r \in Rows
  PROVE  Key(r) \in Keys /\ Key(r)[2] = Day(at[r]) /\ Day(at[r]) \in Int
<1>1. at[r] \in Times /\ at[r] \in Int /\ SeriesOf[r] \in Series
  BY DEF TypeOK, Times
<1>2. Day(at[r]) \in Int
  BY <1>1, DayTypes
<1> QED BY <1>1, <1>2 DEF Key, Keys

LEMMA CutoffTypes ==
  ASSUME TypeOK, NEW c \in Cleaners PROVE Cutoff(c) \in Int /\ DailyCutoff(c) \in Int
<1>1. now[c] \in Int /\ now[c] - DailyRetention \in Int /\ now[c] - DetailRetention \in Int
  BY DEF TypeOK, Times
<1> QED BY <1>1, DayTypes DEF Cutoff, DailyCutoff

LEMMA OldDaysTypes ==
  ASSUME TypeOK, NEW c \in Cleaners
  PROVE  OldDays(c) \subseteq Keys /\ \A k \in OldDays(c) : k[2] < DailyCutoff(c)
<1>1. \A r \in Rows : Key(r) \in Keys
  BY KeyTypes
<1>2. recorded \subseteq Rows /\ seen[c] \subseteq Rows
  BY DEF TypeOK
<1> QED BY <1>1, <1>2 DEF OldDays

(***************************************************************************)
(* Steps.                                                                  *)
(***************************************************************************)

\* What a step may do to the rows that were written.
Steady ==
    /\ recorded \subseteq recorded' /\ overtaken \subseteq overtaken'
    /\ series' \subseteq series /\ horizon' >= horizon
    /\ \A r \in recorded : /\ at'[r] = at[r]
                           /\ Kept(r)' /\ counted[r] > 0 => counted'[r] > 0

\* Nothing is kept that was not.
LEMMA KeptBefore ==
  ASSUME TypeOK, horizon' \in Int, NEW r \in recorded, at'[r] = at[r],
         overtaken \subseteq overtaken', series' \subseteq series, horizon' >= horizon,
         Kept(r)'
  PROVE  Kept(r)
<1>1. r \in Rows /\ horizon \in Int
  BY DEF TypeOK
<1>2. Day(at[r]) \in Int
  BY <1>1, KeyTypes
<1>3. Day(at'[r]) = Day(at[r])
  OBVIOUS
<1> QED BY <1>1, <1>2, <1>3 DEF Kept

\* A step that leaves rows and totals alone, for c alone.
LEMMA LocalInv ==
  ASSUME TypeOK, LedgerInv, NEW c \in Cleaners,
         UNCHANGED <<series, detail, counted, at, recorded, overtaken, horizon>>,
         \A d \in Cleaners \ {c} : UNCHANGED <<pc[d], now[d], seen[d], gone[d], purged[d]>>,
         Holds(c)'
  PROVE  LedgerInv'
<1>1. LedgerKeeps' /\ Counted'
  BY DEF LedgerInv, LedgerKeeps, Counted, Kept
<1>2. ASSUME NEW d \in Cleaners \ {c} PROVE Holds(d)'
  BY DEF LedgerInv, Holds, Cutoff, DailyCutoff
<1> QED BY <1>1, <1>2 DEF LedgerInv

LEMMA InitInv == Init => TypeOK /\ LedgerInv /\ TotalInv
<1> SUFFICES ASSUME Init PROVE TypeOK /\ LedgerInv /\ TotalInv
  OBVIOUS
<1>1. 0 \in Times /\ 0 \in 0 .. MaxFaults
  BY DEF Times
<1>2. total \in [phase: {"idle", "second", "done"}, window: Windows \cup {<<0, 0>>},
                 due: SUBSET Rows, got: SUBSET Rows]
  BY DEF Init, NoTotal
<1>3. TypeOK
  BY <1>1, <1>2 DEF Init, TypeOK, Phases
<1>4. \A c \in Cleaners : Holds(c)
  BY DEF Init, Holds
<1>5. LedgerKeeps /\ Counted
  BY DEF Init, LedgerKeeps, Counted, Kept
<1>6. TotalInv
  BY DEF Init, TotalInv, NoTotal, TotalMissesNothing
<1> QED BY <1>3, <1>4, <1>5, <1>6 DEF LedgerInv

\* A cleaner forgets its transaction.
LEMMA ForgetInv ==
  ASSUME TypeOK, NEW c \in Cleaners, Forget(c)
  PROVE  /\ pc' \in [Cleaners -> Phases] /\ now' \in [Cleaners -> Times]
         /\ seen' \in [Cleaners -> SUBSET Rows] /\ gone' \in [Cleaners -> SUBSET Rows]
         /\ purged' \in [Cleaners -> SUBSET Keys]
         /\ Holds(c)'
         /\ \A d \in Cleaners \ {c} : UNCHANGED <<pc[d], now[d], seen[d], gone[d], purged[d]>>
<1>1. 0 \in Times
  BY DEF Times
<1>2. /\ pc' \in [Cleaners -> Phases] /\ now' \in [Cleaners -> Times]
      /\ seen' \in [Cleaners -> SUBSET Rows] /\ gone' \in [Cleaners -> SUBSET Rows]
      /\ purged' \in [Cleaners -> SUBSET Keys]
  BY <1>1 DEF Forget, Goto, TypeOK, Phases
<1>3. pc'[c] = "idle" /\ seen'[c] = {} /\ gone'[c] = {} /\ purged'[c] = {}
  BY DEF Forget, Goto, TypeOK
<1>4. \A d \in Cleaners \ {c} : UNCHANGED <<pc[d], now[d], seen[d], gone[d], purged[d]>>
  BY DEF Forget, Goto, TypeOK
<1> QED BY <1>2, <1>3, <1>4 DEF Holds

\* The statements of a cleanup, and what undoes them.
LEMMA CleanInv ==
  ASSUME TypeOK, LedgerInv, NEW c \in Cleaners,
         \/ Start(c) \/ Aggregate(c) \/ Upsert(c) \/ DeleteDetail(c) \/ DeleteDaily(c)
         \/ UpsertRefused(c) \/ Deadlock(c) \/ Abort(c)
  PROVE  /\ TypeOK' /\ LedgerInv'
         /\ UNCHANGED <<series, detail, counted, at, recorded, overtaken, horizon, total>>
<1>1. UNCHANGED <<clock, series, detail, counted, at, recorded, overtaken, horizon, total>>
  <2>1. CASE Start(c) \/ Aggregate(c) \/ Upsert(c) \/ DeleteDetail(c) \/ DeleteDaily(c)
    BY <2>1 DEF Start, Aggregate, Upsert, DeleteDetail, DeleteDaily
  <2>2. CASE UpsertRefused(c) \/ Deadlock(c) \/ Abort(c)
    BY <2>2 DEF UpsertRefused, Deadlock, Abort, Rollback
  <2> QED BY <2>1, <2>2
<1>2. Holds(c)
  BY DEF LedgerInv
<1>3. CASE Start(c)
  <2>1. /\ pc[c] = "idle" /\ pc'[c] = "aggregate"
        /\ UNCHANGED <<seen, gone, purged, faults>>
        /\ pc' \in [Cleaners -> Phases] /\ now' \in [Cleaners -> Times]
        /\ \A d \in Cleaners \ {c} : UNCHANGED <<pc[d], now[d]>>
    BY <1>3 DEF Start, Goto, TypeOK, Phases
  <2>2. TypeOK'
    BY <1>1, <2>1 DEF TypeOK
  <2>3. Holds(c)'
    BY <1>2, <2>1 DEF Holds
  <2> QED BY <1>1, <2>1, <2>2, <2>3, LocalInv
<1>4. CASE Aggregate(c)
  <2>1. /\ pc'[c] = "upsert" /\ seen'[c] = OldRows(c) /\ pc[c] = "aggregate"
        /\ UNCHANGED <<now, gone, purged, faults>>
        /\ OldRows(c) \subseteq Rows
        /\ pc' \in [Cleaners -> Phases] /\ seen' \in [Cleaners -> SUBSET Rows]
        /\ \A d \in Cleaners \ {c} : UNCHANGED <<pc[d], seen[d]>>
    BY <1>4 DEF Aggregate, Goto, TypeOK, Phases, OldRows
  <2>2. TypeOK'
    BY <1>1, <2>1 DEF TypeOK
  <2>3. Holds(c)'
    BY <1>1, <1>2, <2>1 DEF Holds, OldRows, Cutoff, TypeOK
  <2> QED BY <1>1, <2>1, <2>2, <2>3, LocalInv
<1>5. CASE Upsert(c)
  <2>1. /\ pc[c] = "upsert" /\ pc'[c] = "delete" /\ UNCHANGED <<now, seen, gone, purged, faults>>
        /\ pc' \in [Cleaners -> Phases] /\ \A d \in Cleaners \ {c} : UNCHANGED pc[d]
    BY <1>5 DEF Upsert, Goto, TypeOK, Phases
  <2>2. TypeOK'
    BY <1>1, <2>1 DEF TypeOK
  <2>3. Holds(c)'
    BY <1>1, <1>2, <2>1 DEF Holds, Cutoff
  <2> QED BY <1>1, <2>1, <2>2, <2>3, LocalInv
<1>6. CASE DeleteDetail(c)
  <2>1. /\ pc[c] = "delete" /\ pc'[c] = "purge" /\ gone'[c] = OldRows(c)
        /\ UNCHANGED <<now, seen, purged, faults>>
        /\ OldRows(c) \subseteq Rows
        /\ pc' \in [Cleaners -> Phases] /\ gone' \in [Cleaners -> SUBSET Rows]
        /\ \A d \in Cleaners \ {c} : UNCHANGED <<pc[d], gone[d]>>
    BY <1>6 DEF DeleteDetail, Goto, TypeOK, Phases, OldRows
  <2>2. TypeOK'
    BY <1>1, <2>1 DEF TypeOK
  <2>3. Holds(c)'
    BY <1>1, <1>2, <2>1 DEF Holds, OldRows, Cutoff
  <2> QED BY <1>1, <2>1, <2>2, <2>3, LocalInv
<1>7. CASE DeleteDaily(c)
  <2>1. OldDays(c) \subseteq Keys /\ \A k \in OldDays(c) : k[2] < DailyCutoff(c)
    BY OldDaysTypes
  <2>2. /\ pc[c] = "purge" /\ pc'[c] = "commit" /\ purged'[c] = OldDays(c)
        /\ UNCHANGED <<now, seen, gone, faults>>
        /\ pc' \in [Cleaners -> Phases] /\ purged' \in [Cleaners -> SUBSET Keys]
        /\ \A d \in Cleaners \ {c} : UNCHANGED <<pc[d], purged[d]>>
    BY <1>7, <2>1 DEF DeleteDaily, Goto, TypeOK, Phases
  <2>3. TypeOK'
    BY <1>1, <2>2 DEF TypeOK
  <2>4. Holds(c)'
    BY <1>1, <1>2, <2>1, <2>2 DEF Holds, Cutoff, DailyCutoff
  <2> QED BY <1>1, <2>2, <2>3, <2>4, LocalInv
<1>8. CASE UpsertRefused(c) \/ Deadlock(c) \/ Abort(c)
  <2>1. Forget(c) /\ faults' \in 0 .. MaxFaults
    BY <1>8 DEF UpsertRefused, Deadlock, Abort, Rollback, TypeOK
  <2>2. TypeOK'
    BY <1>1, <2>1, ForgetInv DEF TypeOK
  <2> QED BY <1>1, <2>1, <2>2, ForgetInv, LocalInv
<1> QED BY <1>1, <1>3, <1>4, <1>5, <1>6, <1>7, <1>8

\* What a commit leaves of a row.
LEMMA CommitRow ==
  ASSUME TypeOK, LedgerInv, NEW c \in Cleaners, Commit(c), NEW r \in Rows
  PROVE  /\ counted'[r] \in Nat
         /\ r \notin recorded => counted'[r] = 0
         /\ r \in detail' => counted'[r] = 0
         /\ Kept(r)' /\ counted[r] > 0 => counted'[r] > 0
         /\ Kept(r)' /\ r \in gone[c] => counted'[r] > 0
         /\ horizon' \in Int /\ horizon' >= horizon
<1>1. /\ pc[c] = "commit" /\ detail' = detail \ gone[c] /\ counted'[r] = Added(c, r)
      /\ horizon' = IF DailyCutoff(c) > horizon THEN DailyCutoff(c) ELSE horizon
      /\ UNCHANGED <<series, at, recorded, overtaken>>
  BY DEF Commit
<1>2. Holds(c) /\ counted[r] \in Nat /\ horizon \in Int /\ DailyCutoff(c) \in Int
  BY CutoffTypes DEF LedgerInv, TypeOK
<1>3. horizon' \in Int /\ horizon' >= horizon /\ horizon' >= DailyCutoff(c)
  BY <1>1, <1>2
<1>4. Kept(r)' => Key(r) \notin purged[c]
  <2> SUFFICES ASSUME Kept(r)', Key(r) \in purged[c] PROVE FALSE
    OBVIOUS
  <2>1. Day(at[r]) < DailyCutoff(c) /\ Day(at[r]) \in Int
    BY <1>2, KeyTypes DEF Holds
  <2>2. Day(at[r]) >= horizon'
    BY <1>1 DEF Kept
  <2> QED BY <1>2, <1>3, <2>1, <2>2
<1>5. counted'[r] \in Nat /\ (counted'[r] > 0 => counted[r] > 0 \/ r \in seen[c])
  BY <1>1, <1>2 DEF Added
<1>6. r \notin recorded => counted[r] = 0 /\ r \notin seen[c]
  BY <1>2 DEF LedgerInv, Counted, Holds
<1>7. r \in detail' => counted[r] = 0 /\ r \notin seen[c]
  BY <1>1, <1>2 DEF LedgerInv, LedgerKeeps, Holds
<1>8. Kept(r)' /\ (counted[r] > 0 \/ r \in seen[c]) => counted'[r] > 0
  BY <1>1, <1>2, <1>4 DEF Added
<1>9. Kept(r)' /\ r \in gone[c] => r \in seen[c]
  BY <1>1, <1>2 DEF Holds, Kept
<1> QED BY <1>3, <1>5, <1>6, <1>7, <1>8, <1>9

LEMMA CommitInv ==
  ASSUME TypeOK, LedgerInv, NEW c \in Cleaners, Commit(c)
  PROVE  TypeOK' /\ LedgerInv' /\ Steady /\ UNCHANGED total
<1>1. /\ Forget(c) /\ detail' = detail \ gone[c] /\ counted' = [r \in Rows |-> Added(c, r)]
      /\ UNCHANGED <<clock, series, at, recorded, overtaken, total, faults>>
  BY DEF Commit
<1>2. horizon' \in Int /\ horizon' >= horizon
  BY CutoffTypes DEF Commit, TypeOK
<1>3. TypeOK'
  <2>1. counted' \in [Rows -> Nat]
    BY <1>1, CommitRow
  <2>2. \A r \in detail' : SeriesOf[r] \in series'
    BY <1>1 DEF TypeOK
  <2> QED BY <1>1, <1>2, <2>1, <2>2, ForgetInv DEF TypeOK
<1>4. \A r \in recorded : Kept(r)' => Kept(r)
  BY <1>1, <1>2, KeptBefore
<1>5. Steady
  BY <1>1, <1>2, CommitRow DEF Steady, TypeOK
<1>6. LedgerKeeps'
  <2> SUFFICES ASSUME NEW r \in Rows
               PROVE  /\ Kept(r)' => (r \in detail' \/ counted'[r] > 0)
                      /\ r \in detail' => counted'[r] = 0
    BY DEF LedgerKeeps
  <2>1. ASSUME Kept(r)' PROVE r \in detail' \/ counted'[r] > 0
    <3>1. r \in recorded
      BY <1>1, <2>1 DEF Kept
    <3>2. r \in detail \/ counted[r] > 0
      BY <1>4, <2>1, <3>1 DEF LedgerInv, LedgerKeeps
    <3> QED BY <1>1, <2>1, <3>2, CommitRow
  <2> QED BY <2>1, CommitRow
<1>7. Counted'
  <2>1. \A r \in Rows : r \notin recorded => counted'[r] = 0
    BY CommitRow
  <2> QED BY <1>1, <2>1 DEF Counted
<1>8. ASSUME NEW d \in Cleaners \ {c} PROVE Holds(d)'
  <2>1. UNCHANGED <<pc[d], now[d], seen[d], gone[d], purged[d]>> /\ Holds(d)
    BY <1>1, ForgetInv DEF LedgerInv
  <2> QED BY <1>1, <2>1 DEF Holds, Cutoff, DailyCutoff
<1>9. Holds(c)'
  BY <1>1, ForgetInv
<1> QED BY <1>1, <1>3, <1>5, <1>6, <1>7, <1>8, <1>9 DEF LedgerInv

LEMMA RecordInv ==
  ASSUME TypeOK, LedgerInv, NEW r0 \in Rows, Record(r0)
  PROVE  TypeOK' /\ LedgerInv' /\ Steady /\ UNCHANGED total
<1>1. /\ r0 \notin recorded /\ SeriesOf[r0] \in series
      /\ recorded' = recorded \cup {r0} /\ detail' = detail \cup {r0}
      /\ overtaken' = IF Overtakes(r0) THEN overtaken \cup {r0} ELSE overtaken
      /\ UNCHANGED <<clock, series, counted, horizon, pc, now, seen, gone, purged, total, faults>>
  BY DEF Record, transaction
<1>2. at' \in [Rows -> Times] /\ \A r \in Rows \ {r0} : at'[r] = at[r]
  <2>1. PICK age \in Ages : age <= clock /\ at' = [at EXCEPT ![r0] = clock - age]
    BY DEF Record
  <2>2. clock - age \in Times
    BY <2>1 DEF TypeOK, Times
  <2> QED BY <2>1, <2>2 DEF TypeOK
<1>3. counted[r0] = 0
  BY <1>1 DEF LedgerInv, Counted, TypeOK
<1>4. TypeOK'
  <2>1. \A r \in detail' : SeriesOf[r] \in series'
    BY <1>1 DEF TypeOK
  <2> QED BY <1>1, <1>2, <2>1 DEF TypeOK
<1>5. \A r \in recorded : r \in Rows /\ at'[r] = at[r] /\ (Kept(r)' => Kept(r))
  BY <1>1, <1>2 DEF Kept, TypeOK
<1>6. Steady
  BY <1>1, <1>5 DEF Steady, TypeOK
<1>7. LedgerKeeps'
  <2>1. ASSUME NEW r \in Rows, Kept(r)' PROVE r \in detail' \/ counted'[r] > 0
    <3>1. r = r0 \/ r \in recorded
      BY <1>1, <2>1 DEF Kept
    <3> QED BY <1>1, <1>5, <2>1, <3>1 DEF LedgerInv, LedgerKeeps
  <2>2. \A r \in Rows : r \in detail' => counted'[r] = 0
    BY <1>1, <1>3 DEF LedgerInv, LedgerKeeps
  <2> QED BY <2>1, <2>2 DEF LedgerKeeps
<1>8. Counted'
  BY <1>1 DEF LedgerInv, Counted
<1>9. ASSUME NEW c \in Cleaners PROVE Holds(c)'
  <2>1. Holds(c) /\ Cutoff(c)' = Cutoff(c) /\ DailyCutoff(c)' = DailyCutoff(c)
    BY <1>1 DEF LedgerInv, Cutoff, DailyCutoff
  <2>2. \A r \in detail \cup seen[c] : r \in recorded /\ at'[r] = at[r]
    BY <1>1, <1>5, <2>1 DEF TypeOK, Holds
  <2>3. pc[c] \in {"upsert", "delete"} /\ at'[r0] < Cutoff(c) => r0 \in overtaken'
    BY <1>1 DEF Overtakes
  <2>4. r0 \notin seen[c]
    BY <1>1, <2>1 DEF Holds
  <2> QED BY <1>1, <2>1, <2>2, <2>3, <2>4 DEF Holds
<1> QED BY <1>1, <1>4, <1>6, <1>7, <1>8, <1>9 DEF LedgerInv

LEMMA DeleteSeriesInv ==
  ASSUME TypeOK, LedgerInv, NEW s \in Series, DeleteSeries(s)
  PROVE  TypeOK' /\ LedgerInv' /\ Steady /\ UNCHANGED total
<1>1. /\ series' = series \ {s} /\ detail' = {r \in detail : SeriesOf[r] # s}
      /\ counted' = [r \in Rows |-> IF SeriesOf[r] = s THEN 0 ELSE counted[r]]
      /\ UNCHANGED <<clock, at, recorded, overtaken, horizon, pc, now, seen, gone, purged,
                     total, faults>>
  BY DEF DeleteSeries, transaction
<1>2. TypeOK'
  BY <1>1 DEF TypeOK
<1>3. \A r \in Rows : Kept(r)' => Kept(r) /\ counted'[r] = counted[r] /\ (r \in detail => r \in detail')
  BY <1>1 DEF Kept
<1>4. \A r \in Rows : counted'[r] = 0 \/ counted'[r] = counted[r]
  BY <1>1
<1>5. Steady
  BY <1>1, <1>3 DEF Steady, TypeOK
<1>6. LedgerKeeps'
  <2>1. \A r \in Rows : Kept(r)' => r \in detail' \/ counted'[r] > 0
    BY <1>3 DEF LedgerInv, LedgerKeeps
  <2>2. \A r \in Rows : r \in detail' => counted'[r] = 0
    BY <1>1, <1>4 DEF LedgerInv, LedgerKeeps
  <2> QED BY <2>1, <2>2 DEF LedgerKeeps
<1>7. Counted'
  BY <1>1, <1>4 DEF LedgerInv, Counted
<1>8. ASSUME NEW c \in Cleaners PROVE Holds(c)'
  <2>1. Holds(c) /\ Cutoff(c)' = Cutoff(c) /\ DailyCutoff(c)' = DailyCutoff(c)
    BY <1>1 DEF LedgerInv, Cutoff, DailyCutoff
  <2> QED BY <1>1, <2>1 DEF Holds
<1> QED BY <1>1, <1>2, <1>5, <1>6, <1>7, <1>8 DEF LedgerInv

\* The time, and the statements of a total.
LEMMA IdleInv ==
  ASSUME TypeOK, LedgerInv,
         UNCHANGED <<series, detail, counted, at, recorded, overtaken, horizon,
                     pc, now, seen, gone, purged>>
  PROVE  LedgerInv' /\ Steady
<1>1. LedgerInv'
  BY DEF LedgerInv, LedgerKeeps, Counted, Holds, Kept, Cutoff, DailyCutoff
<1>2. Steady
  BY DEF Steady, TypeOK
<1> QED BY <1>1, <1>2

TotalStep == TotalFirst \/ TotalSecond \/ TotalReturns

LEMMA TotalTypes ==
  ASSUME TypeOK, LedgerInv, TotalStep PROVE TypeOK' /\ LedgerInv' /\ Steady
<1>1. UNCHANGED <<clock, series, detail, counted, at, recorded, overtaken, horizon,
                  pc, now, seen, gone, purged, faults>>
  BY DEF TotalStep, TotalFirst, TotalSecond, TotalReturns, transaction
<1>2. \A w : DetailOf(w) \subseteq Rows /\ DailyOf(w) \subseteq Rows
  BY DEF DetailOf, DailyOf, TypeOK
<1>3. \A w : TotalQueries(w)[1] = DetailOf(w) /\ TotalQueries(w)[2] = DailyOf(w)
  BY DEF TotalQueries
<1>4. total' \in [phase: {"idle", "second", "done"}, window: Windows \cup {<<0, 0>>},
                  due: SUBSET Rows, got: SUBSET Rows]
  <2>1. CASE TotalFirst
    <3>1. PICK w \in Windows :
            total' = [phase |-> "second", window |-> w,
                      due |-> {r \in recorded : Within(r, w)}, got |-> TotalQueries(w)[1]]
      BY <2>1 DEF TotalFirst
    <3>2. {r \in recorded : Within(r, w)} \subseteq Rows /\ TotalQueries(w)[1] \subseteq Rows
      BY <1>2, <1>3 DEF TypeOK
    <3> QED BY <3>1, <3>2
  <2>2. CASE TotalSecond
    <3> DEFINE more == TotalQueries(total.window)[2]
    <3>1. total' = [total EXCEPT !.phase = "done", !.got = @ \cup more] /\ more \subseteq Rows
      BY <2>2, <1>2, <1>3 DEF TotalSecond
    <3> HIDE DEF more
    <3> QED BY <3>1 DEF TypeOK
  <2>3. CASE TotalReturns
    BY <2>3 DEF TotalReturns, NoTotal
  <2> QED BY <2>1, <2>2, <2>3 DEF TotalStep
<1> QED BY <1>1, <1>4, IdleInv DEF TypeOK

LEMMA StepInv ==
  ASSUME TypeOK, LedgerInv, [Next]_vars
  PROVE  TypeOK' /\ LedgerInv' /\ Steady /\ (UNCHANGED total \/ TotalStep)
<1>1. ASSUME NEW c \in Cleaners, Start(c) \/ CleanStep(c) \/ Abort(c)
      PROVE  TypeOK' /\ LedgerInv' /\ Steady /\ UNCHANGED total
  <2>1. CASE Commit(c)
    BY <2>1, CommitInv
  <2>2. CASE ~Commit(c)
    <3>1. /\ TypeOK' /\ LedgerInv'
          /\ UNCHANGED <<series, detail, counted, at, recorded, overtaken, horizon, total>>
      BY <1>1, <2>2, CleanInv DEF CleanStep
    <3>2. Steady
      BY <3>1 DEF Steady, TypeOK
    <3> QED BY <3>1, <3>2
  <2> QED BY <2>1, <2>2
<1>2. CASE Tick
  <2>1. /\ clock' \in Times
        /\ UNCHANGED <<series, detail, counted, at, recorded, overtaken, horizon,
                       pc, now, seen, gone, purged, total, faults>>
    BY <1>2 DEF Tick, transaction, TypeOK, Times
  <2>2. TypeOK'
    BY <2>1 DEF TypeOK
  <2> QED BY <2>1, <2>2, IdleInv
<1>3. CASE UNCHANGED vars
  <2>1. TypeOK'
    BY <1>3 DEF vars, TypeOK
  <2> QED BY <1>3, <2>1, IdleInv DEF vars
<1>4. CASE TotalStep
  BY <1>4, TotalTypes
<1> QED
  BY <1>1, <1>2, <1>3, <1>4, RecordInv, DeleteSeriesInv DEF Next, TotalStep

LEMMA TotalInvStep == ASSUME TypeOK, LedgerInv, TotalInv, [Next]_vars PROVE TotalInv'
<1>1. TypeOK' /\ LedgerInv' /\ Steady /\ (UNCHANGED total \/ TotalStep)
  BY StepInv
<1>2. recorded \subseteq Rows /\ recorded \subseteq recorded'
      /\ \A r \in recorded : at'[r] = at[r] /\ (Kept(r)' => Kept(r))
                             /\ (Kept(r)' /\ counted[r] > 0 => counted'[r] > 0)
  <2>1. ASSUME NEW r \in recorded, Kept(r)' PROVE Kept(r)
    <3>1. horizon' \in Int
      BY <1>1 DEF TypeOK
    <3> QED BY <1>1, <2>1, <3>1, KeptBefore DEF Steady
  <2> QED BY <1>1, <2>1 DEF Steady, TypeOK
<1>3. \A r \in recorded, w \in Windows \cup {<<0, 0>>} : Within(r, w)' = Within(r, w)
  BY <1>2 DEF Within, Day
<1>4. total.window \in Windows \cup {<<0, 0>>} /\ total.phase \in {"idle", "second", "done"}
  BY DEF TypeOK
<1>5. CASE UNCHANGED total
  <2>1. total'.phase = "second" =>
          \A r \in total'.due : Kept(r)' =>
             \/ r \in total'.got
             \/ counted'[r] > 0 /\ Within(r, total.window)
    BY <1>2, <1>5 DEF TotalInv
  <2>3. TotalMissesNothing'
    BY <1>2, <1>5 DEF TotalInv, TotalMissesNothing
  <2> QED BY <1>2, <1>3, <1>4, <1>5, <2>1, <2>3 DEF TotalInv, Within
<1>6. CASE TotalFirst
  <2>1. PICK w \in Windows :
          total' = [phase |-> "second", window |-> w,
                    due |-> {r \in recorded : Within(r, w)}, got |-> TotalQueries(w)[1]]
    BY <1>6 DEF TotalFirst
  <2>2. /\ total'.due = {r \in recorded : Within(r, w)} /\ total'.got = DetailOf(w)
        /\ total'.phase = "second" /\ total'.window = w
    BY <2>1 DEF TotalQueries
  <2>3. ASSUME NEW r \in total'.due, Kept(r)'
        PROVE  r \in total'.got \/ (counted'[r] > 0 /\ Within(r, w)')
    <3>1. r \in recorded /\ Within(r, w) /\ Kept(r)
      BY <1>2, <2>2, <2>3
    <3>2. r \in detail \/ counted[r] > 0
      BY <1>2, <3>1 DEF LedgerInv, LedgerKeeps
    <3> QED BY <1>2, <1>3, <2>2, <2>3, <3>1, <3>2 DEF DetailOf
  <2> QED BY <1>2, <2>2, <2>3 DEF TotalInv, TotalMissesNothing, Within
<1>7. CASE TotalSecond
  <2>1. total.phase = "second" /\ total' = [total EXCEPT !.phase = "done",
                                              !.got = @ \cup TotalQueries(total.window)[2]]
    BY <1>7 DEF TotalSecond
  <2>2. /\ total'.due = total.due /\ total'.got = total.got \cup DailyOf(total.window)
        /\ total'.phase = "done"
    BY <2>1 DEF TotalQueries, TypeOK
  <2>3. ASSUME NEW r \in total'.due, Kept(r)' PROVE r \in total'.got
    <3>1. r \in recorded /\ Kept(r)
      BY <1>2, <2>2, <2>3 DEF TotalInv
    <3>2. r \in total.got \/ (counted[r] > 0 /\ Within(r, total.window))
      BY <2>1, <2>2, <2>3, <3>1 DEF TotalInv
    <3> QED BY <2>2, <3>1, <3>2 DEF DailyOf
  <2> QED BY <1>2, <2>2, <2>3 DEF TotalInv, TotalMissesNothing
<1>8. CASE TotalReturns
  BY <1>8 DEF TotalReturns, NoTotal, TotalInv, TotalMissesNothing
<1> QED BY <1>1, <1>5, <1>6, <1>7, <1>8 DEF TotalStep

\* The ledger keeps its types, no cleaner loses a row, and a total finds what is due.
THEOREM LedgerHolds == Spec => [](TypeOK /\ LedgerInv /\ TotalInv)
<1>1. TypeOK /\ LedgerInv /\ TotalInv /\ [Next]_vars => (TypeOK /\ LedgerInv /\ TotalInv)'
  BY StepInv, TotalInvStep
<1> QED BY InitInv, <1>1, PTL DEF Spec

\* The types of TrafficLedger.
THEOREM LedgerTypes == Spec => []TypeOK
  BY LedgerHolds, PTL

\* Traffic inside the daily retention is detail or counted, however many cleanups
\* overlap and wherever they stop, and what is detail is not counted.
THEOREM LedgerKeepsHolds == Spec => []LedgerKeeps
<1>1. LedgerInv => LedgerKeeps
  BY DEF LedgerInv
<1> QED BY <1>1, LedgerHolds, PTL

\* A total misses nothing that was recorded when it was asked and is still kept.
THEOREM TotalHolds == Spec => []TotalMissesNothing
<1>1. TotalInv => TotalMissesNothing
  BY DEF TotalInv
<1> QED BY <1>1, LedgerHolds, PTL

(***************************************************************************)
(* Exactness, as long as no row is in the hands of two cleanups.           *)
(***************************************************************************)

\* No two open transactions have aggregated the same row.
SeenApart == \A c, d \in Cleaners : c # d => seen[c] \cap seen[d] = {}

\* What a cleaner has seen is still there, unless its series was deleted, and no
\* row is in a daily row twice; a row that came between the statements of one
\* cleanup may meanwhile have been seen by another.
OnceInv ==
    /\ \A c \in Cleaners : \A r \in seen[c] \ overtaken : SeriesOf[r] \in series => r \in detail
    /\ \A r \in Rows \ overtaken : SeriesOf[r] \in series => counted[r] <= 1

LEMMA OnceStep == ASSUME SeenApart, TypeOK, LedgerInv, OnceInv, [Next]_vars PROVE OnceInv'
<1>1. ASSUME UNCHANGED <<detail, counted, series, overtaken>>,
             \A c \in Cleaners : seen'[c] = seen[c] \/ seen'[c] \subseteq detail
      PROVE  OnceInv'
  BY <1>1 DEF OnceInv
<1>2. ASSUME NEW c \in Cleaners, Start(c) \/ Upsert(c) \/ DeleteDetail(c) \/ DeleteDaily(c)
      PROVE  OnceInv'
  BY <1>1, <1>2 DEF Start, Upsert, DeleteDetail, DeleteDaily
<1>3. ASSUME NEW c \in Cleaners, Aggregate(c) PROVE OnceInv'
  <2>1. \A d \in Cleaners : seen'[d] = seen[d] \/ seen'[d] \subseteq detail
    BY <1>3 DEF Aggregate, OldRows, TypeOK
  <2> QED BY <1>1, <1>3, <2>1 DEF Aggregate
<1>4. ASSUME NEW c \in Cleaners, UpsertRefused(c) \/ Deadlock(c) \/ Abort(c) PROVE OnceInv'
  <2>1. UNCHANGED <<detail, counted, series, overtaken>> /\ Forget(c)
    BY <1>4 DEF UpsertRefused, Deadlock, Abort, Rollback
  <2>2. \A d \in Cleaners : seen'[d] = seen[d] \/ seen'[d] \subseteq detail
    BY <2>1 DEF Forget, TypeOK
  <2> QED BY <1>1, <2>1, <2>2
<1>5. ASSUME NEW c \in Cleaners, Commit(c) PROVE OnceInv'
  <2>1. /\ seen'[c] = {} /\ series' = series /\ overtaken' = overtaken
        /\ detail' = detail \ gone[c]
        /\ \A d \in Cleaners \ {c} : seen'[d] = seen[d]
    BY <1>5 DEF Commit, Forget, TypeOK
  <2>2. gone[c] \subseteq seen[c] \cup overtaken
    BY <1>5 DEF Commit, LedgerInv, Holds
  <2>3. ASSUME NEW d \in Cleaners, NEW r \in seen'[d] \ overtaken', SeriesOf[r] \in series'
        PROVE  r \in detail'
    <3>1. d # c /\ r \in seen[d] \ overtaken
      BY <2>1, <2>3
    <3>2. r \in detail
      BY <3>1, <2>1, <2>3 DEF OnceInv
    <3>3. r \notin seen[c]
      BY <3>1 DEF SeenApart
    <3> QED BY <2>1, <2>2, <3>1, <3>2, <3>3
  <2>4. ASSUME NEW r \in Rows \ overtaken', SeriesOf[r] \in series' PROVE counted'[r] <= 1
    <3>1. r \notin overtaken /\ SeriesOf[r] \in series
      BY <2>1, <2>4
    <3>2. counted'[r] = Added(c, r) /\ counted[r] \in Nat /\ counted[r] <= 1
      BY <1>5, <3>1 DEF Commit, TypeOK, OnceInv
    <3>3. r \in seen[c] => counted[r] = 0
      BY <3>1 DEF OnceInv, LedgerInv, LedgerKeeps
    <3> QED BY <3>2, <3>3 DEF Added
  <2> QED BY <2>3, <2>4 DEF OnceInv
<1>6. ASSUME NEW r0 \in Rows, Record(r0) PROVE OnceInv'
  <2>1. /\ detail \subseteq detail' /\ overtaken \subseteq overtaken'
        /\ UNCHANGED <<series, counted, seen>>
    BY <1>6 DEF Record, transaction
  <2> QED BY <2>1 DEF OnceInv
<1>7. ASSUME NEW s \in Series, DeleteSeries(s) PROVE OnceInv'
  <2>1. /\ series' = series \ {s} /\ detail' = {r \in detail : SeriesOf[r] # s}
        /\ seen' = seen /\ overtaken' = overtaken
        /\ \A r \in Rows : SeriesOf[r] # s => counted'[r] = counted[r]
    BY <1>7 DEF DeleteSeries, transaction, TypeOK
  <2> QED BY <2>1 DEF OnceInv
<1>8. CASE Tick \/ TotalStep \/ UNCHANGED vars
  BY <1>1, <1>8 DEF Tick, TotalStep, TotalFirst, TotalSecond, TotalReturns, transaction, vars
<1> QED
  BY <1>2, <1>3, <1>4, <1>5, <1>6, <1>7, <1>8 DEF Next, CleanStep, TotalStep

\* With any number of cleaners, traffic inside the daily retention is in the two
\* tables exactly once for as long as no two cleanups have aggregated one row:
\* that is the only way to double it.
THEOREM ExactWhileApart == Spec /\ []SeenApart => []LedgerExact
<1>1. Init => OnceInv
  BY DEF Init, OnceInv
<1>2. TypeOK /\ LedgerInv /\ OnceInv /\ SeenApart /\ [Next]_vars => OnceInv'
  BY OnceStep
<1>3. TypeOK /\ LedgerInv /\ OnceInv => LedgerExact
  <2> SUFFICES ASSUME TypeOK, LedgerInv, OnceInv, NEW r \in Rows, Kept(r)
               PROVE  counted[r] + (IF r \in detail THEN 1 ELSE 0) = 1
    BY DEF LedgerExact
  <2>1. counted[r] \in Nat /\ counted[r] <= 1
    BY DEF TypeOK, OnceInv, Kept
  <2>2. r \in detail \/ counted[r] > 0
    BY DEF LedgerInv, LedgerKeeps
  <2>3. r \in detail => counted[r] = 0
    BY DEF LedgerInv, LedgerKeeps
  <2> QED BY <2>1, <2>2, <2>3
<1> QED BY <1>1, <1>2, <1>3, LedgerHolds, PTL DEF Spec

\* Cleanups of the loop and of the command line that never overlap, from the
\* computation of the cutoffs to the commit.
OneAtATime == \A c, d \in Cleaners : c = d \/ pc[c] = "idle" \/ pc[d] = "idle"

\* Cleanups that do not overlap keep the ledger exact, however many processes
\* run them.
THEOREM ExactOneAtATime == Spec /\ []OneAtATime => []LedgerExact
<1>1. LedgerInv /\ OneAtATime => SeenApart
  BY DEF LedgerInv, Holds, OneAtATime, SeenApart
<1> QED BY <1>1, LedgerHolds, ExactWhileApart, PTL

OneCleaner == \A c, d \in Cleaners : c = d

\* With one cleaner, traffic inside the daily retention is in the two tables
\* exactly once.
THEOREM LedgerExactHolds == ASSUME OneCleaner PROVE Spec => []LedgerExact
<1>1. SeenApart
  BY DEF OneCleaner, SeenApart
<1> QED BY <1>1, ExactWhileApart, PTL
=============================================================================
