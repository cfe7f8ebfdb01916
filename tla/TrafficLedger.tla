----------------------------- MODULE TrafficLedger -----------------------------
(***************************************************************************)
(* What happens to traffic once it is in PostgreSQL: rows of traffic_usage *)
(* older than the detail retention are added to traffic_usage_daily and    *)
(* deleted by maintenance cleanup (internal/store/maintenance.go), run by  *)
(* the API process, by the command line, or by both at once; daily rows    *)
(* are deleted after their own retention; and the totals of the API add    *)
(* both tables up in two statements (internal/store/traffic.go).           *)
(*                                                                         *)
(* A cleanup is one transaction at READ COMMITTED, the default of          *)
(* PostgreSQL: each statement sees what was committed when it began, and a *)
(* statement that meets a row written by an open transaction waits.  A     *)
(* daily row is not kept as a sum: counted[r] is how often the bytes of    *)
(* the detail row r are in it.                                             *)
(***************************************************************************)
EXTENDS Integers

CONSTANTS
    Rows,             \* the ids of traffic_usage
    Series,           \* (account, node) pairs
    SeriesOf,         \* SeriesOf[r]: the account and node of row r
    Cleaners,         \* processes that run cleanups
    Loop,             \* those that do so periodically (runMaintenanceCleanupLoop)
    DayLength,        \* a day, in steps of the clock
    DetailRetention, DailyRetention,
    Ages,             \* how long before it is written a row's recorded_at may be
    Windows,          \* <<since, until>> day filters of the totals
    MaxClock,         \* bound: the time
    MaxFaults         \* bound: failed statements and crashes

Times == 0 .. MaxClock
Day(t) == t \div DayLength

ASSUME LedgerAssumption ==
    /\ SeriesOf \in [Rows -> Series]
    /\ Loop \subseteq Cleaners
    /\ DayLength \in Nat \ {0} /\ DetailRetention \in Nat \ {0} /\ DailyRetention \in Nat \ {0}
    /\ Ages \subseteq Nat
    /\ Windows \subseteq Int \X Int
    /\ MaxClock \in Nat /\ MaxFaults \in Nat

VARIABLES
    clock,
    series,     \* the accounts on nodes that exist
    detail,     \* traffic_usage, committed
    counted,    \* traffic_usage_daily, committed
    at,         \* recorded_at of the rows that were ever written
    recorded,   \* history: the rows that were ever written
    overtaken,  \* history: those written past the cutoff of a cleanup under way
    horizon,    \* history: daily rows before this day have been deleted
    \* the transaction of each cleaner: its cutoffs come from now, seen holds the
    \* rows it aggregated, gone those it deleted, purged the daily keys it deleted
    pc, now, seen, gone, purged,
    total,      \* one GET .../traffic-usage/total
    faults

transaction == <<pc, now, seen, gone, purged>>
vars == <<clock, series, detail, counted, at, recorded, overtaken, horizon,
          pc, now, seen, gone, purged, total, faults>>

Key(r) == <<SeriesOf[r], Day(at[r])>>
Keys == Series \X {Day(t) : t \in Times}
Phases == {"idle", "aggregate", "upsert", "delete", "purge", "commit"}
NoTotal == [phase |-> "idle", window |-> <<0, 0>>, due |-> {}, got |-> {}]

TypeOK ==
    /\ clock \in Times
    /\ series \subseteq Series
    /\ detail \subseteq recorded /\ recorded \subseteq Rows /\ overtaken \subseteq recorded
    /\ \A r \in detail : SeriesOf[r] \in series
    /\ counted \in [Rows -> Nat]
    /\ at \in [Rows -> Times]
    /\ horizon \in Int
    /\ pc \in [Cleaners -> Phases] /\ now \in [Cleaners -> Times]
    /\ seen \in [Cleaners -> SUBSET Rows] /\ gone \in [Cleaners -> SUBSET Rows]
    /\ purged \in [Cleaners -> SUBSET Keys]
    /\ total \in [phase: {"idle", "second", "done"}, window: Windows \cup {<<0, 0>>},
                  due: SUBSET Rows, got: SUBSET Rows]
    /\ faults \in 0 .. MaxFaults

Init ==
    /\ clock = 0 /\ series = Series
    /\ detail = {} /\ counted = [r \in Rows |-> 0]
    /\ at = [r \in Rows |-> 0] /\ recorded = {} /\ overtaken = {} /\ horizon = 0
    /\ pc = [c \in Cleaners |-> "idle"]
    /\ now = [c \in Cleaners |-> 0]
    /\ seen = [c \in Cleaners |-> {}]
    /\ gone = [c \in Cleaners |-> {}]
    /\ purged = [c \in Cleaners |-> {}]
    /\ total = NoTotal /\ faults = 0

(***************************************************************************)
(* Maintenance cleanup.                                                    *)
(***************************************************************************)
Goto(c, phase) == pc' = [pc EXCEPT ![c] = phase]
\* Mutant: the retentions are mixed up.
CutoffDaily(c) == now[c] - DailyRetention
Cutoff(c) == now[c] - DetailRetention
DailyCutoff(c) == Day(now[c] - DailyRetention)

\* The daily rows transaction c has written and not committed.
Locked(c) ==
    (IF pc[c] \in {"delete", "purge", "commit"} THEN {Key(r) : r \in seen[c]} ELSE {})
        \cup purged[c]
Others(c) == Cleaners \ {c}
LockedByOthers(c) == UNION {Locked(d) : d \in Others(c)}

\* The rows each statement is about, on a snapshot of its own.
OldRows(c) == {r \in detail : at[r] < Cutoff(c)}
OldDays(c) ==
    {k \in {Key(r) : r \in {q \in recorded : counted[q] > 0} \cup seen[c]} :
        k[2] < DailyCutoff(c)}

\* The cutoffs are computed, then the transaction begins.
Start(c) ==
    /\ pc[c] = "idle"
    /\ Goto(c, "aggregate")
    /\ now' = [now EXCEPT ![c] = clock]
    /\ UNCHANGED <<clock, series, detail, counted, at, recorded, overtaken, horizon, seen, gone,
                   purged, total, faults>>

\* The SELECT of aggregateTrafficUsageSQL, on the snapshot of the statement...
Aggregate(c) ==
    /\ pc[c] = "aggregate"
    /\ seen' = [seen EXCEPT ![c] = OldRows(c)]
    /\ Goto(c, "upsert")
    /\ UNCHANGED <<clock, series, detail, counted, at, recorded, overtaken, horizon, now, gone,
                   purged, total, faults>>

\* ...and its INSERT .. ON CONFLICT, which waits for daily rows other open
\* transactions wrote and then adds to what they committed.
Upsert(c) ==
    /\ pc[c] = "upsert"
    /\ {Key(r) : r \in seen[c]} \cap LockedByOthers(c) = {}
    /\ \A r \in seen[c] : SeriesOf[r] \in series
    /\ Goto(c, "delete")
    /\ UNCHANGED <<clock, series, detail, counted, at, recorded, overtaken, horizon, now, seen, gone,
                   purged, total, faults>>

\* Mutant: the bound of the DELETE is inclusive.
DeleteDetailInclusive(c) ==
    LET old == {r \in detail : at[r] <= Cutoff(c)}
    IN /\ pc[c] = "delete"
       /\ \A d \in Others(c) : old \cap gone[d] = {}
       /\ gone' = [gone EXCEPT ![c] = old]
       /\ Goto(c, "purge")
       /\ UNCHANGED <<clock, series, detail, counted, at, recorded, overtaken, horizon, now, seen,
                      purged, total, faults>>
\* deleteTrafficUsageSQL, on a snapshot of its own.
DeleteDetail(c) ==
    /\ pc[c] = "delete"
    /\ \A d \in Others(c) : OldRows(c) \cap gone[d] = {}
    /\ gone' = [gone EXCEPT ![c] = OldRows(c)]
    /\ Goto(c, "purge")
    /\ UNCHANGED <<clock, series, detail, counted, at, recorded, overtaken, horizon, now,
                   seen, purged, total, faults>>

\* deleteTrafficUsageDailySQL: days before the daily cutoff.  The deletes of
\* audit_logs, domain_access_logs and auth_refresh_tokens touch nothing here.
DeleteDaily(c) ==
    /\ pc[c] = "purge"
    /\ OldDays(c) \cap LockedByOthers(c) = {}
    /\ purged' = [purged EXCEPT ![c] = OldDays(c)]
    /\ Goto(c, "commit")
    /\ UNCHANGED <<clock, series, detail, counted, at, recorded, overtaken, horizon, now,
                   seen, gone, total, faults>>

Forget(c) ==
    /\ Goto(c, "idle")
    /\ seen' = [seen EXCEPT ![c] = {}]
    /\ gone' = [gone EXCEPT ![c] = {}]
    /\ purged' = [purged EXCEPT ![c] = {}]
    /\ now' = [now EXCEPT ![c] = 0]

\* What the daily row of r holds of r when transaction c has committed.
Added(c, r) ==
    IF Key(r) \in purged[c] THEN 0
    ELSE counted[r] + IF r \in seen[c] THEN 1 ELSE 0

\* Mutant: ON CONFLICT overwrites the daily row instead of adding to it.
CommitOverwrites(c) ==
    /\ pc[c] = "commit"
    /\ detail' = detail \ gone[c]
    /\ counted' = [r \in Rows |->
                     IF Key(r) \in {Key(q) : q \in seen[c]} /\ r \notin seen[c]
                     THEN 0 ELSE Added(c, r)]
    /\ horizon' = IF DailyCutoff(c) > horizon THEN DailyCutoff(c) ELSE horizon
    /\ Forget(c)
    /\ UNCHANGED <<clock, series, at, recorded, overtaken, total, faults>>
Commit(c) ==
    /\ pc[c] = "commit"
    /\ detail' = detail \ gone[c]
    /\ counted' = [r \in Rows |-> Added(c, r)]
    /\ horizon' = IF DailyCutoff(c) > horizon THEN DailyCutoff(c) ELSE horizon
    /\ Forget(c)
    /\ UNCHANGED <<clock, series, at, recorded, overtaken, total, faults>>

Rollback(c) ==
    /\ Forget(c)
    /\ UNCHANGED <<clock, series, detail, counted, at, recorded, overtaken, horizon, total>>

\* A statement fails, or the process stops.
Abort(c) ==
    /\ pc[c] # "idle"
    /\ faults < MaxFaults /\ faults' = faults + 1
    /\ Rollback(c)

\* A series was deleted after the snapshot: the foreign key fails the upsert.
UpsertRefused(c) ==
    /\ pc[c] = "upsert"
    /\ \E r \in seen[c] : SeriesOf[r] \notin series
    /\ Rollback(c)
    /\ UNCHANGED faults

\* The statement of c needs a row that d has written.
WaitsFor(c, d) ==
    /\ c # d
    /\ \/ pc[c] = "upsert" /\ {Key(r) : r \in seen[c]} \cap Locked(d) # {}
       \/ pc[c] = "delete" /\ OldRows(c) \cap gone[d] # {}
       \/ pc[c] = "purge" /\ OldDays(c) \cap Locked(d) # {}

\* PostgreSQL ends one of the transactions that wait for each other.
Deadlock(c) ==
    /\ \E S \in SUBSET Cleaners : c \in S /\ \A d \in S : \E e \in S : WaitsFor(d, e)
    /\ Rollback(c)
    /\ UNCHANGED faults

CleanStep(c) ==
    \/ Aggregate(c) \/ Upsert(c) \/ UpsertRefused(c) \/ DeleteDetail(c)
    \/ DeleteDaily(c) \/ Commit(c) \/ Deadlock(c)

(***************************************************************************)
(* Writers, totals and time.                                               *)
(***************************************************************************)

\* Row r falls between the two statements of a cleanup, and before its cutoff.
Overtakes(r) == \E c \in Cleaners : pc[c] \in {"upsert", "delete"} /\ at'[r] < Cutoff(c)

\* A row is written: by the collector, stamped before it asked Xray, or by
\* POST /admin/traffic-usage with the time of the request's choosing.
Record(r) ==
    /\ r \notin recorded /\ SeriesOf[r] \in series
    /\ \E age \in Ages : age <= clock /\ at' = [at EXCEPT ![r] = clock - age]
    /\ recorded' = recorded \cup {r}
    /\ detail' = detail \cup {r}
    /\ overtaken' = IF Overtakes(r) THEN overtaken \cup {r} ELSE overtaken
    /\ UNCHANGED <<clock, series, counted, horizon, transaction, total, faults>>

\* Mutant: the foreign keys do not cascade.
DeleteSeriesOnly(s) ==
    /\ s \in series
    /\ series' = series \ {s}
    /\ UNCHANGED <<clock, detail, counted, at, recorded, overtaken, horizon, transaction, total, faults>>
\* An account or a node is deleted with its traffic, after the transactions that
\* hold rows of it or rows that refer to it.
DeleteSeries(s) ==
    /\ s \in series
    /\ \A c \in Cleaners :
          /\ \A r \in gone[c] : SeriesOf[r] # s
          /\ \A k \in Locked(c) : k[1] # s
    /\ series' = series \ {s}
    /\ detail' = {r \in detail : SeriesOf[r] # s}
    /\ counted' = [r \in Rows |-> IF SeriesOf[r] = s THEN 0 ELSE counted[r]]
    /\ UNCHANGED <<clock, at, recorded, overtaken, horizon, transaction, total, faults>>

Tick ==
    /\ clock < MaxClock
    /\ clock' = clock + 1
    /\ UNCHANGED <<series, detail, counted, at, recorded, overtaken, horizon, transaction, total, faults>>

Within(r, window) == Day(at[r]) >= window[1] /\ Day(at[r]) <= window[2]
DailyOf(window) == {r \in recorded : counted[r] > 0 /\ Within(r, window)}
DetailOf(window) == {r \in detail : Within(r, window)}

\* Mutant: the daily rows are read first.
TotalQueriesSwapped(window) == <<DailyOf(window), DetailOf(window)>>
\* What the two statements of TrafficUsageTotal find, in this order.
TotalQueries(window) == <<DetailOf(window), DailyOf(window)>>

TotalFirst ==
    /\ total.phase = "idle"
    /\ \E w \in Windows :
          total' = [phase |-> "second", window |-> w,
                    due |-> {r \in recorded : Within(r, w)}, got |-> TotalQueries(w)[1]]
    /\ UNCHANGED <<clock, series, detail, counted, at, recorded, overtaken, horizon, transaction, faults>>

TotalSecond ==
    /\ total.phase = "second"
    /\ total' = [total EXCEPT !.phase = "done", !.got = @ \cup TotalQueries(total.window)[2]]
    /\ UNCHANGED <<clock, series, detail, counted, at, recorded, overtaken, horizon, transaction, faults>>

TotalReturns ==
    /\ total.phase = "done"
    /\ total' = NoTotal
    /\ UNCHANGED <<clock, series, detail, counted, at, recorded, overtaken, horizon, transaction, faults>>

Next ==
    \/ \E c \in Cleaners : Start(c) \/ CleanStep(c) \/ Abort(c)
    \/ \E r \in Rows : Record(r)
    \/ \E s \in Series : DeleteSeries(s)
    \/ Tick
    \/ TotalFirst \/ TotalSecond \/ TotalReturns

Spec == Init /\ [][Next]_vars
\* The loop's ticker fires, and a transaction that has begun is carried on.
Fairness ==
    /\ \A c \in Cleaners : WF_vars(CleanStep(c))
    /\ \A c \in Loop : WF_vars(Start(c))
FairSpec == Spec /\ Fairness

(***************************************************************************)
(* Properties.                                                             *)
(***************************************************************************)
Kept(r) == r \in recorded \ overtaken /\ SeriesOf[r] \in series /\ Day(at[r]) >= horizon

\* Traffic inside the daily retention is in the two tables exactly once, as
\* detail or as part of its day, whatever cleanups were interrupted, whatever
\* rows were written during them, and however a day is split by the cutoff; but
\* a row written past the cutoff between the two statements may be deleted
\* without having been added (maintenance.go:59-65), see Kept.
LedgerExact ==
    \A r \in Rows : Kept(r) => counted[r] + (IF r \in detail THEN 1 ELSE 0) = 1

\* With any number of cleaners at once, no cleanup drops traffic inside the daily
\* retention, and what is in a daily row has left the detail.
LedgerKeeps ==
    \A r \in Rows :
       /\ Kept(r) => (r \in detail \/ counted[r] > 0)
       /\ r \in detail => counted[r] = 0

\* A total that comes back misses no traffic of its window that was recorded
\* when it was asked and is still kept: detail is read before daily rows.
TotalMissesNothing ==
    total.phase = "done" =>
        \A r \in total.due : Kept(r) => r \in total.got

\* README.md:544,391-393: cleanup enforces the detail retention.  Once nothing
\* fails any more, rows past it leave traffic_usage.
RetentionEnforced ==
    \A r \in Rows :
        (/\ r \in detail /\ faults = MaxFaults /\ clock = MaxClock
         /\ at[r] < clock - DetailRetention)
            ~> r \notin detail

\* README.md:584-586: the write path "first aggregates old traffic_usage rows [...]
\* into traffic_usage_daily, then deletes those detail rows".
DeletesTheAggregated == \A c \in Cleaners : pc[c] = "commit" => gone[c] = seen[c]
=============================================================================
