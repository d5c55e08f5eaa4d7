-------------------------------- MODULE History --------------------------------
(***************************************************************************)
(* What the database remembers of the checks, and what takes it away: the  *)
(* raw results, the buckets the dashboard reads instead of them, the state *)
(* row of each monitor, and the references incident events keep to the     *)
(* results that caused them.                                               *)
(*                                                                         *)
(* recordResult, pruneHistory, resetHistory and migrateDatabase are one    *)
(* transaction each, so each is one action.  The verdict is Incidents'     *)
(* subject; here a result may do to it whatever some thresholds and        *)
(* streaks allow.  Times are seconds; a check that is recorded started at  *)
(* most MaxLag ago.  deleteMonitor removes what resetHistory removes.      *)
(***************************************************************************)
EXTENDS Integers, FiniteSets

CONSTANTS Monitors,      \* monitors.id
          Failures,      \* the failing states, "auth_failed" among them
          Outcomes,      \* what a check can come to, records of the type Outcome
          Widths,        \* rollupBucketWidths
          Retention,     \* DEBRIDUP_HISTORY_RETENTION
          OldResults,    \* check_results of a database this release takes over
          MaxLag,        \* bound: seconds from the start of a check to its record
          MaxRecorded,   \* bound: results recorded in a behaviour
          MaxTime        \* bound: the clock

Healthy == "healthy"
Unknown == "unknown"
NULL == 0                \* no check_id, no percentile: ids and durations are positive

States == Failures \cup {Healthy, Unknown}
Outcome == [source : {"authenticated", "public"}, state : States, duration : Nat \ {0}]
CheckResult == [id : Nat \ {0}, monitor : Monitors, source : {"authenticated", "public"},
                state : States, duration : Nat \ {0}, at : Nat \ {0}]

ASSUME HistoryAssumption ==
    /\ Monitors \subseteq Nat
    /\ Healthy \notin Failures /\ Unknown \notin Failures
    /\ Outcomes \subseteq Outcome
    /\ Widths \subseteq Nat \ {0}
    /\ Retention \in Nat /\ MaxLag \in Nat /\ MaxRecorded \in Nat /\ MaxTime \in Nat
    /\ OldResults \in SUBSET SUBSET CheckResult
    /\ \A rs \in OldResults :
          IsFiniteSet(rs) /\ \A r, other \in rs : r.id = other.id => r = other

VARIABLES
    results,     \* check_results, a set of CheckResult
    rollups,     \* check_rollups, <<monitor, bucket_width, bucket_start>> -> row
    states,      \* monitor_states, monitor -> row, for the monitors that have one
    events,      \* incident_events, what refers to check_results in them
    schema,      \* the highest applied migration
    running,     \* the process is up
    startedAt,   \* when it was started
    now, recorded

tableVars == <<results, rollups, states, events>>
vars == <<tableVars, schema, running, startedAt, now, recorded>>

CurrentSchema == 6

-------------------------------------------------------------------------------
(* Buckets *)

BucketStartFor(t, width) == t - (t % width)

\* The completed authenticated checks a bucket covers.
Counts(r) == r.source = "authenticated" /\ r.state # Unknown
Covered(rs, m, w, b) == {r \in rs : Counts(r) /\ r.monitor = m /\ b =< r.at /\ r.at < b + w}

Slowest(S) == CHOOSE d \in {r.duration : r \in S} : \A r \in S : r.duration =< d

\* The duration that stands at position ceil(percent/100 * n) of the sorted ones.
NearestRank(S, percent) ==
    LET rank == (percent * Cardinality(S) + 99) \div 100 IN
    CHOOSE d \in {r.duration : r \in S} :
        /\ Cardinality({r \in S : r.duration < d}) < rank
        /\ rank =< Cardinality({r \in S : r.duration =< d})

Summary(S) == [total    |-> Cardinality(S),
               healthy  |-> Cardinality({r \in S : r.state = Healthy}),
               eligible |-> Cardinality({r \in S : r.state # "auth_failed"}),
               slowest  |-> Slowest(S),
               p50      |-> NearestRank(S, 50),
               p95      |-> NearestRank(S, 95)]

CoveredBy(rs, k) == Covered(rs, k[1], k[2], k[3])

\* refreshRollupBucket, for each of a set of buckets: a bucket without a completed
\* check has no row.
Refreshed(table, rs, keys) ==
    [k \in (DOMAIN table \ keys) \cup {k \in keys : CoveredBy(rs, k) # {}} |->
        IF k \in keys THEN Summary(CoveredBy(rs, k)) ELSE table[k]]

\* refreshRollupsFor: the buckets of every width that cover one check.
RollupsFor(m, at) == {<<m, w, BucketStartFor(at, w)>> : w \in Widths}

\* rebuildRollups: counters by GROUP BY, then fillRollupPercentiles refreshes what
\* has no percentile yet, which is all of it.
Grouped(rs) == UNION {RollupsFor(r.monitor, r.at) : r \in {r \in rs : Counts(r)}}
Rebuilt(rs) ==
    LET counted == [k \in Grouped(rs) |-> [Summary(CoveredBy(rs, k)) EXCEPT !.p50 = NULL, !.p95 = NULL]]
    IN  Refreshed(counted, rs, {k \in DOMAIN counted : counted[k].p95 = NULL})

\* The latest authenticated result of each monitor that has one.
Latest == {r \in results : /\ r.source = "authenticated"
                           /\ \A other \in results :
                                 other.source = "authenticated" /\ other.monitor = r.monitor =>
                                    other.at < r.at \/ (other.at = r.at /\ other.id =< r.id)}

-------------------------------------------------------------------------------
(* recordResult *)

\* INTEGER PRIMARY KEY without AUTOINCREMENT: one more than the largest in the table.
NextIds == {id \in {1} \cup {r.id + 1 : r \in results} : \A r \in results : r.id < id}

VerdictsFault(current, state) ==            \* mutant: unknown is a verdict
    IF current = Healthy THEN {Healthy, state} ELSE {state}

\* What a result can do to the verdict, over all thresholds and streaks.
Verdicts(current, state) ==
    IF state = Unknown THEN {current}
    ELSE IF state = Healthy THEN {current, Healthy}
    ELSE IF current = Healthy THEN {Healthy, state}
    ELSE {state}

StateFor(m) == IF m \in DOMAIN states THEN states[m]
               ELSE [current |-> Healthy, lastRaw |-> Healthy, lastCheck |-> NULL]

\* A change of the verdict writes an event that refers to the result.
RecordAuthenticated(r) ==
    \E verdict \in Verdicts(StateFor(r.monitor).current, r.state) :
        /\ rollups' = Refreshed(rollups, results \cup {r}, RollupsFor(r.monitor, r.at))
        /\ states' = [m \in DOMAIN states \cup {r.monitor} |->
                         IF m = r.monitor
                         THEN [current |-> verdict, lastRaw |-> r.state, lastCheck |-> r.at]
                         ELSE states[m]]
        /\ events' = IF verdict = StateFor(r.monitor).current THEN events
                     ELSE events \cup {[monitor |-> r.monitor, state |-> verdict, at |-> r.at, check |-> r.id]}

\* Checks of one monitor do not overlap (CheckScheduler), so its results come in
\* the order of their times; none is older than the process that records it.
RecordResult(r) ==
    /\ running
    /\ recorded < MaxRecorded
    /\ r.id \in NextIds
    /\ r.at >= startedAt
    /\ StateFor(r.monitor).lastCheck =< r.at
    /\ recorded' = recorded + 1
    /\ results' = results \cup {r}
    /\ \/ r.source = "authenticated" /\ RecordAuthenticated(r)
       \/ r.source = "public" /\ UNCHANGED <<rollups, states, events>>
    /\ UNCHANGED <<schema, running, startedAt, now>>

Record(m) ==
    \E id \in NextIds, o \in Outcomes, at \in {t \in (now - MaxLag)..now : t > 0} :
       RecordResult([id |-> id, monitor |-> m, source |-> o.source, state |-> o.state,
                     duration |-> o.duration, at |-> at])

-------------------------------------------------------------------------------
(* pruneHistory, resetHistory *)

PrunedRollupsFault(cutoff, kept) ==         \* mutant: the straddling bucket is left as it is
    [k \in {k \in DOMAIN rollups : k[3] >= BucketStartFor(cutoff, k[2])} |-> rollups[k]]

\* Buckets before the one the cutoff falls into are deleted, that one is refreshed.
PrunedRollups(cutoff, kept) ==
    Refreshed([k \in {k \in DOMAIN rollups : k[3] >= BucketStartFor(cutoff, k[2])} |-> rollups[k]],
              kept, {k \in DOMAIN rollups : k[3] = BucketStartFor(cutoff, k[2])})

DetachedFault(gone) == events               \* mutant: no UPDATE of incident_events
Detached(gone) == {[e EXCEPT !.check = IF \E r \in gone : r.id = @ THEN NULL ELSE @] : e \in events}

Prune ==
    LET gone == {r \in results : r.at < now - Retention} IN
    /\ running
    /\ results' = results \ gone
    /\ events' = Detached(gone)
    /\ rollups' = PrunedRollups(now - Retention, results \ gone)
    /\ UNCHANGED <<states, schema, running, startedAt, now, recorded>>

\* One monitor, or all of them.
ResetHistory(S) ==
    /\ running
    /\ results' = {r \in results : r.monitor \notin S}
    /\ rollups' = [k \in {k \in DOMAIN rollups : k[1] \notin S} |-> rollups[k]]
    /\ states' = [m \in DOMAIN states \ S |-> states[m]]
    /\ events' = {e \in events : e.monitor \notin S}
    /\ UNCHANGED <<schema, running, startedAt, now, recorded>>

-------------------------------------------------------------------------------
(* run, migrateDatabase *)

\* Migrations 5 and 6 each rebuild every bucket: 5 creates the table, 6 adds
\* eligible, which is 0 in the rows of a database that has none.
Migrated == IF schema < CurrentSchema THEN Rebuilt(results) ELSE rollups

Start ==
    /\ ~running
    /\ running' = TRUE
    /\ startedAt' = now
    /\ schema' = CurrentSchema
    /\ rollups' = Migrated
    /\ UNCHANGED <<results, states, events, now, recorded>>

Stop == /\ running
        /\ running' = FALSE
        /\ UNCHANGED <<tableVars, schema, startedAt, now, recorded>>

Elapse == /\ now < MaxTime
          /\ now' = now + 1
          /\ UNCHANGED <<tableVars, schema, running, startedAt, recorded>>

\* A database of this release, or of one without rollups (4) or without their
\* eligible column (5), with some results in it.
StoredRollups(version, rs) ==
    CASE version = 4 -> [k \in {} |-> NULL]
      [] version = 5 -> [k \in Grouped(rs) |-> [Summary(CoveredBy(rs, k)) EXCEPT !.eligible = 0]]
      [] OTHER       -> [k \in Grouped(rs) |-> Summary(CoveredBy(rs, k))]

Init == /\ now \in 1..MaxTime
        /\ results \in {rs \in OldResults : \A r \in rs : r.at =< now}
        /\ schema \in 4..CurrentSchema
        /\ rollups = StoredRollups(schema, results)
        /\ states = [m \in {r.monitor : r \in Latest} |->
                        LET r == CHOOSE r \in Latest : r.monitor = m IN
                        [current |-> Healthy, lastRaw |-> r.state, lastCheck |-> r.at]]
        /\ events = {}
        /\ running = FALSE
        /\ startedAt = 0
        /\ recorded = 0

Next == \/ \E m \in Monitors : Record(m) \/ ResetHistory({m})
        \/ ResetHistory(Monitors)
        \/ Prune \/ Start \/ Stop \/ Elapse

Spec == Init /\ [][Next]_vars

-------------------------------------------------------------------------------
(* Properties *)

Aligned(k) == k[3] % k[2] = 0

TypeOK ==
    /\ results \subseteq CheckResult
    /\ \A k \in DOMAIN rollups : k \in Monitors \X Widths \X Int
    /\ DOMAIN states \subseteq Monitors
    /\ \A m \in DOMAIN states :
          states[m] \in [current : Failures \cup {Healthy}, lastRaw : States, lastCheck : Nat]
    /\ events \subseteq [monitor : Monitors, state : Failures \cup {Healthy}, at : Nat, check : Nat]
    /\ schema \in 4..CurrentSchema
    /\ running \in BOOLEAN
    /\ startedAt \in Nat /\ now \in Nat
    /\ recorded \in 0..MaxRecorded

\* "a snapshot never sees a summary that disagrees with the raw rows"
\* (main.go:904): while the process runs, whatever has been recorded, pruned, reset
\* or migrated, every stored bucket says what its checks say, and every completed
\* check is in a stored bucket of every width.
RollupsExact ==
    running =>
        /\ \A k \in DOMAIN rollups : /\ Aligned(k)
                                     /\ CoveredBy(results, k) # {}
                                     /\ rollups[k] = Summary(CoveredBy(results, k))
        /\ Grouped(results) \subseteq DOMAIN rollups

\* The check an incident event shows as its evidence is the one that caused it: of
\* its monitor, of its time and with its state, although ids are given out again
\* after a reset or a prune.
EvidenceIsOwn ==
    \A e \in events :
        e.check # NULL =>
            \E r \in results : r.id = e.check /\ r.monitor = e.monitor /\ r.state = e.state /\ r.at = e.at
===============================================================================
