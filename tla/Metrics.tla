------------------------------ MODULE Metrics ------------------------------
(***************************************************************************)
(* The time series of the agents' metrics: POST /v1/identity/metrics/ingest*)
(* (products/identity/src/api.py), and the background tasks that summarise *)
(* old points by day and then by month, and forget old nonces              *)
(* (data_lifecycle.py, gateway/src/cleanup_tasks.py), on one connection    *)
(* with implicit transactions.  One metric of one agent: the groups of the *)
(* code are then its days.  A summary is modelled by the points it was     *)
(* computed from.                                                          *)
(***************************************************************************)
EXTENDS Coroutines, Integers, FiniteSetsExt, Folds, SqliteConnection

CONSTANTS MetricKeys, NoMetricKey,      \* nonces
          OldTimes, StartTime, MaxMetricTime,
          DayLength, MonthDays,
          HotTime, WarmDays, NonceTime  \* how long each is kept

ASSUME MetricConstants ==
    /\ DayLength \in Nat \ {0} /\ MonthDays \in Nat \ {0}
    /\ OldTimes \subseteq 0..StartTime
    /\ NoMetricKey \notin MetricKeys

VARIABLES metricTime,
          identityDb,   \* the connection (see SqliteConnection)
          groups,       \* what the SELECT of each pass found and it still has to write
          before,       \* the cutoff of each pass
          cutoffs,      \* history: the cutoffs of the passes, for each level
          replaced,     \* history: points of a summary that was replaced
          forgottenNonces     \* history: nonces that were cleaned up

metricVars == <<metricTime, identityDb, groups, before, cutoffs, replaced, forgottenNonces>>

series == identityDb.data
Day(t) == t \div DayLength
Month(day) == day \div MonthDays
Days == 0..Day(MaxMetricTime)
Months == 0..Month(Day(MaxMetricTime))
Point(r) == [by |-> r, at |-> metricTime]
Execute(d) == identityDb' = ExecuteImplicit(identityDb, d)
CommitAll == identityDb' = Commit(identityDb)
PassOver == UNCHANGED <<metricTime, cutoffs, replaced, forgottenNonces>>

\* ingest_timeseries: a nonce, which comes with a signature, must be new; the
\* primary key refuses one that another request stored meanwhile.
CheckNonce(r) ==
    /\ At(r, "ingest", "new")
    /\ LET nonce == job[r].nonce IN
       Go(r, IF nonce = NoMetricKey THEN "point"
             ELSE IF \E n \in series.nonces : n.nonce = nonce THEN "rejected" ELSE "nonce")
    /\ UNCHANGED metricVars

StoreNonce(r) ==
    /\ At(r, "ingest", "nonce")
    /\ IF \E n \in series.nonces : n.nonce = job[r].nonce
       THEN Go(r, "error") /\ UNCHANGED identityDb
       ELSE /\ Execute([series EXCEPT !.nonces = @ \cup {[nonce |-> job[r].nonce, at |-> metricTime]}])
            /\ Go(r, "nonceCommit")
    /\ UNCHANGED <<groups, before>> /\ PassOver

StorePoint(r) ==
    /\ At(r, "ingest", "point")
    /\ Execute([series EXCEPT !.raw = @ \cup {Point(r)}])
    /\ Go(r, "pointCommit")
    /\ UNCHANGED <<groups, before>> /\ PassOver

CommitIngest(r) ==
    /\ Op(r) = "ingest" /\ pc[r] \in {"nonceCommit", "pointCommit"}
    /\ CommitAll
    /\ Go(r, IF pc[r] = "nonceCommit" THEN "point" ELSE "done")
    /\ UNCHANGED <<groups, before>> /\ PassOver

-----------------------------------------------------------------------------
\* DataLifecycleTask: one pass after the other.
PassRunning(r) == Op(r) = "lifecycle" /\ Running(r)
MayStart(r) ==
    /\ At(r, "lifecycle", "new") /\ ~\E q \in Requests : PassRunning(q)
    /\ "after" \in DOMAIN job[r] => pc[job[r].after] \in Terminal

\* A level of the time series: compress_hot_to_warm takes raw points to daily
\* rows, compress_warm_to_cold daily rows to monthly ones.
OldPoints(t) == {p \in series.raw : p.at < t}
OldDays(d) == {day \in Days : day < d /\ series.daily[day] # {}}
Select(r, level, found, cutoff) ==
    /\ groups' = [groups EXCEPT ![r] = found]
    /\ before' = [before EXCEPT ![r] = cutoff]
    /\ cutoffs' = cutoffs \cup {<<level, cutoff>>}

ListRaw(r) ==
    /\ MayStart(r)
    /\ LET old == OldPoints(metricTime - HotTime) IN
       /\ Select(r, "daily",
                 [day \in {Day(p.at) : p \in old} |-> {p \in old : Day(p.at) = day}],
                 metricTime - HotTime)
       /\ Go(r, IF old = {} THEN "warm" ELSE "daily")
    /\ UNCHANGED <<metricTime, identityDb, replaced, forgottenNonces>>

ListDaily(r) ==
    /\ At(r, "lifecycle", "warm")
    /\ LET today == Day(metricTime)
           old == OldDays(today - WarmDays) IN
       /\ Select(r, "monthly",
                 [month \in {Month(day) : day \in old} |->
                     UNION {series.daily[day] : day \in {d \in old : Month(d) = month}}],
                 today - WarmDays)
       /\ Go(r, IF old = {} THEN "rotate" ELSE "monthly")
    /\ UNCHANGED <<metricTime, identityDb, replaced, forgottenNonces>>

\* INSERT OR REPLACE of a summary, which forgets what the row stood for.
WriteGroup(r) ==
    /\ Op(r) = "lifecycle" /\ pc[r] \in {"daily", "monthly"} /\ DOMAIN groups[r] # {}
    /\ LET g == Min(DOMAIN groups[r])
           row == IF pc[r] = "daily" THEN series.daily[g] ELSE series.monthly[g] IN
       /\ Execute(IF pc[r] = "daily" THEN [series EXCEPT !.daily[g] = groups[r][g]]
                                     ELSE [series EXCEPT !.monthly[g] = groups[r][g]])
       /\ replaced' = replaced \cup {<<pc[r], p>> : p \in row \ groups[r][g]}
       /\ groups' = [groups EXCEPT ![r] = [x \in DOMAIN @ \ {g} |-> @[x]]]
    /\ UNCHANGED <<pc, metricTime, before, cutoffs, forgottenNonces>>

\* Mutant: the cutoff is computed again for the DELETE.
DeleteByClock(r) ==
    /\ Op(r) = "lifecycle" /\ pc[r] \in {"daily", "monthly"} /\ DOMAIN groups[r] = {}
    /\ Execute(IF pc[r] = "daily"
               THEN [series EXCEPT !.raw = @ \ OldPoints(metricTime - HotTime)]
               ELSE [series EXCEPT !.daily =
                        [day \in Days |-> IF day < Day(metricTime) - WarmDays THEN {} ELSE @[day]]])
    /\ Go(r, IF pc[r] = "daily" THEN "dailyCommit" ELSE "monthlyCommit")
    /\ UNCHANGED <<groups, before>> /\ PassOver

\* DELETE what the SELECT was about.
DeleteOld(r) ==
    /\ Op(r) = "lifecycle" /\ pc[r] \in {"daily", "monthly"} /\ DOMAIN groups[r] = {}
    /\ Execute(IF pc[r] = "daily"
               THEN [series EXCEPT !.raw = @ \ OldPoints(before[r])]
               ELSE [series EXCEPT !.daily =
                        [day \in Days |-> IF day < before[r] THEN {} ELSE @[day]]])
    /\ Go(r, IF pc[r] = "daily" THEN "dailyCommit" ELSE "monthlyCommit")
    /\ UNCHANGED <<groups, before>> /\ PassOver

CommitLevel(r) ==
    /\ Op(r) = "lifecycle" /\ pc[r] \in {"dailyCommit", "monthlyCommit"}
    /\ CommitAll
    /\ Go(r, IF pc[r] = "dailyCommit" THEN "warm" ELSE "rotate")
    /\ UNCHANGED <<groups, before>> /\ PassOver

\* cleanup_expired_nonces every hour; rotate_audit_logs, which keeps them for
\* much longer, finds none left.
CleanNonces(r) ==
    /\ At(r, "cleanNonces", "new")
    /\ LET old == {n \in series.nonces : n.at < metricTime - NonceTime} IN
       /\ identityDb' = Commit(ExecuteImplicit(identityDb, [series EXCEPT !.nonces = @ \ old]))
       /\ forgottenNonces' = forgottenNonces \cup {n.nonce : n \in old}
    /\ Go(r, "done")
    /\ UNCHANGED <<metricTime, groups, before, cutoffs, replaced>>

RotateLogs(r) ==
    /\ At(r, "lifecycle", "rotate")
    /\ CommitAll
    /\ Go(r, "done")
    /\ UNCHANGED <<groups, before>> /\ PassOver

MetricStep(r) ==
    \/ CheckNonce(r) \/ StoreNonce(r) \/ StorePoint(r) \/ CommitIngest(r)
    \/ ListRaw(r) \/ ListDaily(r) \/ WriteGroup(r) \/ DeleteOld(r) \/ CommitLevel(r)
    \/ CleanNonces(r) \/ RotateLogs(r)

\* The units of time are long: a pass sees the clock move once.
MetricTick ==
    /\ metricTime < MaxMetricTime
    /\ \E r \in Requests : Op(r) \in {"ingest", "lifecycle"} /\ pc[r] \notin Terminal
    /\ \A r \in Requests : PassRunning(r) => pc[r] = "daily" /\ metricTime = before[r] + HotTime
    /\ metricTime' = metricTime + 1
    /\ UNCHANGED <<identityDb, groups, before, cutoffs, replaced, forgottenNonces>>

MetricCrash ==
    /\ identityDb' = Crash(identityDb)
    /\ groups' = [r \in Requests |-> <<>>]
    /\ UNCHANGED <<metricTime, before, cutoffs, replaced, forgottenNonces>>

MetricInit ==
    /\ metricTime = StartTime
    /\ identityDb = Connected([raw |-> {[by |-> "first", at |-> t] : t \in OldTimes},
                               daily |-> [day \in Days |-> {}],
                               monthly |-> [month \in Months |-> {}],
                               nonces |-> {}])
    /\ groups = [r \in Requests |-> <<>>] /\ before = [r \in Requests |-> 0]
    /\ cutoffs = {} /\ replaced = {} /\ forgottenNonces = {}

-----------------------------------------------------------------------------
Summarised(d) == UNION {d.daily[day] : day \in Days} \cup UNION {d.monthly[m] : m \in Months}
Points == {[by |-> "first", at |-> t] : t \in OldTimes}
Stored(d) == d.raw \cup Summarised(d)

\* No point is lost, in the file either, but by the replacement of a summary
\* that is written in parts; and such a part ends at a cutoff in the middle of
\* the day, or of the month ("aggregate raw time-series rows older than
\* retention_days into daily aggregates, then delete the raw rows").
PointsKept ==
    /\ \A d \in {identityDb.data, identityDb.saved} :
          Points \subseteq Stored(d) \cup {x[2] : x \in replaced}
    /\ \A r \in Requests : At(r, "ingest", "done") =>
          \E p \in Stored(identityDb.saved) \cup {x[2] : x \in replaced} : p.by = r
    /\ \A x \in replaced : \E c \in cutoffs :
          LET day == Day(x[2].at) IN
          \/ c[1] = "daily" /\ x[2].at < c[2] /\ Day(c[2]) = day
          \/ c[1] = "monthly" /\ x[1] = "monthly" /\ day < c[2] /\ Month(c[2]) = Month(day)

\* What is in a summary is not counted again: unless a pass is under way, or
\* ended before its time.
Interrupted == \E r \in Requests : PassRunning(r) \/ At(r, "lifecycle", "lost")
CountedOnce == \A d \in {identityDb.data, identityDb.saved} :
    Interrupted \/ d.raw \cap Summarised(d) = {}

\* A signed submission is taken once, until its nonce is forgottenNonces.
NonceOnce == \A q, r \in Requests :
    /\ q # r /\ At(q, "ingest", "done") /\ At(r, "ingest", "done")
    /\ job[q].nonce = job[r].nonce /\ job[q].nonce # NoMetricKey
    => job[q].nonce \in forgottenNonces

MetricsAccounted == PointsKept /\ CountedOnce /\ NonceOnce
============================================================================
