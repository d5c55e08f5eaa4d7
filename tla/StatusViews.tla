------------------------------ MODULE StatusViews ------------------------------
(***************************************************************************)
(* What the read-only endpoints make of the tables of History: the         *)
(* dashboard snapshot (and the homepage widget, which serves the same one),*)
(* the current status, the health endpoint, the overview's coverage, the   *)
(* report and the paged list of checks.  Each reads one state of the       *)
(* tables, so each is an operator on it, and the properties say that the   *)
(* answers agree with each other and with the raw checks.                  *)
(*                                                                         *)
(* Which monitors are enabled, or belong to one provider, is independent   *)
(* of the tables: it is a parameter.  Incidents shows that an incident is  *)
(* open exactly while the verdict is not healthy, so the state row stands  *)
(* for the incident here.  Every check in the tables has a positive time.  *)
(***************************************************************************)
EXTENDS History, Ordering, FiniteSetsExt, SequencesExt

CONSTANTS MaxPoints,      \* width -> buckets of the dashboard range that uses it
          Day,            \* seconds of a day
          OverviewWindow, \* 30 days
          SlowFrom,       \* duration from which a success is shown as slow
          StaleAfter      \* 2 * interval + timeout

ASSUME ViewsAssumption ==
    /\ IsFiniteSet(Monitors) /\ IsFiniteSet(Widths) /\ Widths # {}
    /\ Day \in Nat \ {0}
    /\ \A w \in Widths : Day % w = 0 /\ MaxPoints[w] \in Nat \ {0}
    /\ OverviewWindow \in Nat /\ SlowFrom \in Nat /\ StaleAfter \in Nat
    /\ Failures \cap {"degraded", "slow", "outage"} = {}   \* no check comes to these

HasResult(m) == \E r \in Latest : r.monitor = m

\* last_check_at is NULL, or of an earlier process: nothing is known now.
Unseen(lastCheck) == lastCheck = NULL \/ lastCheck < startedAt

-------------------------------------------------------------------------------
(* dashboardSnapshot *)

DashboardDisplayState(current, lastRaw) ==
    CASE lastRaw = Unknown                           -> Unknown
      [] current = Healthy /\ lastRaw \in Failures   -> "degraded"
      [] OTHER                                       -> current

DashboardState(m) ==
    IF m \notin DOMAIN states \/ Unseen(states[m].lastCheck) THEN Unknown
    ELSE DashboardDisplayState(states[m].current, states[m].lastRaw)

OverallStepFault(overall, state) ==         \* mutant: what is unknown is passed over
    CASE state = "degraded" /\ overall = Healthy -> "degraded"
      [] state \notin {Healthy, Unknown}         -> "outage"
      [] OTHER                                   -> overall

\* The switch of the provider loop; its cases are tried in this order.
OverallStep(overall, state) ==
    IF state = "degraded" /\ overall = Healthy THEN "degraded"
    ELSE IF state \notin {Healthy, Unknown} THEN "outage"
    ELSE IF state = Unknown /\ overall = Healthy THEN "degraded"
    ELSE overall

\* ORDER BY m.id.
InIdOrder(S) == InOrder(S, LAMBDA m, n : m < n)
DashboardOverall(enabled) ==
    FoldLeft(LAMBDA overall, m : OverallStep(overall, DashboardState(m)),
             Healthy, InIdOrder(enabled))

\* dashboardWindow: MaxPoints buckets, the last one holds the second before now.
LastBucket(w) == BucketStartFor(now - 1, w)
FirstBucket(w) == LastBucket(w) - (MaxPoints[w] - 1) * w
Points(m, w) == {k \in DOMAIN rollups : /\ k[1] = m /\ k[2] = w
                                        /\ FirstBucket(w) =< k[3] /\ k[3] =< LastBucket(w)}

Totals(keys) == SumFunctionOnSet([k \in keys |-> rollups[k].total], keys)
Healthies(keys) == SumFunctionOnSet([k \in keys |-> rollups[k].healthy], keys)
Eligibles(keys) == SumFunctionOnSet([k \in keys |-> rollups[k].eligible], keys)

Midnight == BucketStartFor(now, Day)
ChecksToday(w) ==
    Totals(UNION {{k \in Points(m, w) : k[3] >= Midnight} : m \in Monitors})

-------------------------------------------------------------------------------
(* currentStatus *)

CurrentDisplayState(state, duration) ==
    IF state = Healthy /\ duration >= SlowFrom THEN "slow" ELSE state

CurrentStateFault(m) ==                     \* mutant: results of an earlier process count
    IF HasResult(m)
    THEN LET r == CHOOSE r \in Latest : r.monitor = m
         IN  CurrentDisplayState(r.state, r.duration)
    ELSE IF m \notin DOMAIN states \/ Unseen(states[m].lastCheck) THEN Unknown
    ELSE states[m].current

\* The latest result, or the state row when retention has taken the result away.
CurrentState(m) ==
    IF HasResult(m)
    THEN LET r == CHOOSE r \in Latest : r.monitor = m
         IN  IF Unseen(r.at) THEN Unknown ELSE CurrentDisplayState(r.state, r.duration)
    ELSE IF m \notin DOMAIN states \/ Unseen(states[m].lastCheck) THEN Unknown
    ELSE states[m].current

ActiveIncident(m) == m \in DOMAIN states /\ states[m].current # Healthy

CurrentOverall(enabled) ==
    LET shown == {CurrentState(m) : m \in enabled} IN
    IF enabled = {} THEN Unknown
    ELSE IF shown = {Healthy} THEN Healthy
    ELSE IF shown \subseteq {Healthy, "slow", "degraded", Unknown} THEN "degraded"
    ELSE "outage"

-------------------------------------------------------------------------------
(* providerHealth *)

NoCurrentResult(m) ==
    \/ m \notin DOMAIN states
    \/ Unseen(states[m].lastCheck)
    \/ states[m].lastCheck > now
    \/ now - states[m].lastCheck > StaleAfter
    \/ states[m].lastRaw = Unknown

\* The answer for the monitors of a provider, of which some are enabled.
Health(ms, enabled) ==
    IF ms = {} THEN "not_found"
    ELSE IF ms \cap enabled = {} THEN "paused"
    ELSE IF \E m \in ms \cap enabled : NoCurrentResult(m) THEN Unknown
    ELSE IF \E m \in ms \cap enabled : states[m].current # Healthy THEN "unhealthy"
    ELSE Healthy

-------------------------------------------------------------------------------
(* overview, report, listAllChecks *)

WidestBucket == CHOOSE w \in Widths : \A other \in Widths : other =< w

PartialFault(m, cutoff, boundary) ==        \* mutant: the whole straddling bucket
    {r \in results : Counts(r) /\ r.monitor = m /\ boundary =< r.at /\ r.at < boundary + WidestBucket}
Partial(m, cutoff, boundary) ==
    {r \in results : Counts(r) /\ r.monitor = m /\ cutoff =< r.at /\ r.at < boundary + WidestBucket}

\* eligible and total of the window: the buckets wholly inside it and, of the one
\* the cutoff falls into, the rows.
Coverage(m) ==
    LET cutoff == now - OverviewWindow
        boundary == BucketStartFor(cutoff, WidestBucket)
        whole == {k \in DOMAIN rollups : /\ k[1] = m /\ k[2] = WidestBucket
                                         /\ k[3] >= boundary + WidestBucket}
        part == Partial(m, cutoff, boundary)
    IN  <<Eligibles(whole) + Cardinality({r \in part : r.state # "auth_failed"}),
          Totals(whole) + Cardinality(part)>>

\* A service's line in the report since a time.
ReportLine(m, start) ==
    LET rs == {r \in results : r.monitor = m /\ r.at >= start} IN
    [responses |-> Cardinality(rs),
     checks    |-> Cardinality({r \in rs : Counts(r)}),
     healthy   |-> Cardinality({r \in rs : Counts(r) /\ r.state = Healthy})]

\* ORDER BY checked_at DESC, id DESC.
NewestFirst(rs) == InOrder(rs, LAMBDA r, s : s.at < r.at \/ (s.at = r.at /\ s.id < r.id))

CursorFault(rows, limit) == rows[limit + 1] \* mutant: the look-ahead row
Cursor(rows, limit) == rows[limit]

\* A request: at most limit rows before a cursor, and the cursor of the next one.
Page(rs, before, limit) ==
    LET rows == NewestFirst({r \in rs : before = <<>> \/ r.at < before[1].at
                                           \/ (r.at = before[1].at /\ r.id < before[1].id)})
    IN  [rows |-> SubSeq(rows, 1, IF Len(rows) > limit THEN limit ELSE Len(rows)),
         next |-> IF Len(rows) > limit THEN <<Cursor(rows, limit)>> ELSE <<>>]

\* What a reader has who asks once more, for what is before the cursor.
AskOnce(sofar, table, limit) ==
    IF sofar.next = <<>> THEN sofar
    ELSE LET page == Page(table, sofar.next, limit)
         IN  [rows |-> sofar.rows \o page.rows, next |-> page.next]

\* All requests of a reader, the first from a table and the others from what has
\* become of it, with as many requests as there are rows.
Reading(first, later, limit) ==
    LET n == Cardinality(first \cup later)
        read[i \in 0..n] == IF i = 0 THEN Page(first, <<>>, limit)
                            ELSE AskOnce(read[i - 1], later, limit)
    IN  read[n]

-------------------------------------------------------------------------------
(* Properties *)

\* Every figure the views take from buckets is the figure of the raw checks: the
\* totals of each dashboard range, today's checks, and the overview's coverage,
\* whose result "is still exact" (main.go:1611); the report over all history
\* counts what the buckets of any width count.
SummariesMatchChecks ==
    running =>
        \A m \in Monitors : LET mine == {r \in results : Counts(r) /\ r.monitor = m} IN
            /\ LET window == {r \in mine : r.at >= now - OverviewWindow} IN
               Coverage(m) = <<Cardinality({r \in window : r.state # "auth_failed"}),
                               Cardinality(window)>>
            /\ \A w \in Widths :
                  LET seen == {r \in mine : FirstBucket(w) =< r.at /\ r.at < LastBucket(w) + w}
                      all == {k \in DOMAIN rollups : k[1] = m /\ k[2] = w} IN
                  /\ {r \in mine : FirstBucket(w) =< r.at /\ r.at < now} \subseteq seen
                  /\ Totals(Points(m, w)) = Cardinality(seen)
                  /\ Healthies(Points(m, w)) = Cardinality({r \in seen : r.state = Healthy})
                  /\ LET line == ReportLine(m, 0) IN
                     Totals(all) = line.checks /\ Healthies(all) = line.healthy
                  /\ MaxPoints[w] * w >= Day =>
                        ChecksToday(w) = Cardinality({r \in results :
                            Counts(r) /\ Midnight =< r.at /\ r.at < LastBucket(w) + w})

\* A reader who follows the cursors comes to an end, gets every check once, two of
\* one second included, and misses none that was in the table all the time, whatever
\* is recorded, pruned or reset between two requests.
PagesListEachCheckOnce ==
    \A some \in SUBSET results, limit \in 1..2 :
        \A reading \in {Reading(results, some, limit), Reading(some, results, limit)} :
            /\ reading.next = <<>>
            /\ some \subseteq ToSet(reading.rows)
            /\ IsInjective(reading.rows)

\* The three views tell one story of an enabled monitor whose latest result is
\* retained: the dashboard and the current status know nothing about it together;
\* the dashboard calls it healthy exactly when the status shows a success and no
\* incident, and shows a confirmed failure exactly when the status shows an
\* incident; and the health endpoint answers healthy exactly when its data is
\* fresh and the dashboard shows no confirmed failure.
ViewsAgree ==
    \A m \in DOMAIN states :
        HasResult(m) =>
            LET dashboard == DashboardState(m)  status == CurrentState(m) IN
            /\ dashboard = Unknown <=> status = Unknown
            /\ dashboard = Healthy <=> status \in {Healthy, "slow"} /\ ~ActiveIncident(m)
            /\ dashboard \in Failures <=> status # Unknown /\ ActiveIncident(m)
            /\ Health({m}, Monitors) = Healthy <=>
                  /\ dashboard \in {Healthy, "degraded"}
                  /\ now - states[m].lastCheck =< StaleAfter

\* The one word for all monitors never hides one of them: a confirmed failure of
\* an enabled monitor is an outage on the dashboard, anything else that is not
\* healthy shows, and the status calls all healthy only when each one is and the
\* dashboard agrees unless an incident is still recovering.
OverallNeverHidesFailure ==
    \A enabled \in SUBSET Monitors :
        LET overall == DashboardOverall(enabled) IN
        /\ (\E m \in enabled : DashboardState(m) \in Failures) => overall = "outage"
        /\ overall = Healthy <=> \A m \in enabled : DashboardState(m) = Healthy
        /\ CurrentOverall(enabled) = Healthy /\ (\A m \in enabled : ~ActiveIncident(m))
              => \/ overall = Healthy
                 \/ \E m \in enabled : ~HasResult(m)

\* "`outage` when any provider is in a confirmed failure state, `degraded` when
\* any provider lacks current data, otherwise `healthy`" (docs/design/
\* 2026-08-21-dashboard-redesign-plan.md:458): an outage has a confirmed failure.
OutageIsConfirmed ==
    \A enabled \in SUBSET Monitors :
        DashboardOverall(enabled) = "outage" =>
            \E m \in enabled : DashboardState(m) \in Failures
===============================================================================
