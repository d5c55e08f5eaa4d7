# DebridUp: specifications and proofs

TLA+ models of [DebridUp](../src/README.md), the single-process Go service under
`cmd/debridup` that polls debrid providers, keeps a verdict and an incident history for each
of them, shows them on a dashboard and notifies an ntfy topic. The models are translated from
the code, TLC checks them on small instances, and TLAPS proves the main safety results for
every value of the constants.

File and line references are relative to `src/cmd/debridup/` unless they start with `docs/`
or `README.md`.

## 1. The system

One process, one SQLite file, three background workers (`main.go:205`) and the goroutines of
the HTTP server.

| Component | State | Operations | Interacts with |
|---|---|---|---|
| **Run coordinator** (`scheduler.go:32-124`) | `lastRuns`, `inFlight`, `pendingImmediate`, `active`, `limit`, under one mutex | `Claim`, `ClaimManual`, `RequestImmediate`, `Release`, `Forget` | called by the scheduler, the monitor handlers and every check goroutine |
| **Scheduler and check goroutines** (`scheduler.go:126-182`) | a snapshot of the monitors per pass; one goroutine per accepted run | ticker, `runDueMonitorsAt`, `runMonitor` | reads the monitors table, claims runs, records results |
| **Monitor handlers** (`main.go:1182-1482`) | `monitors`, `monitor_secrets` | `createMonitor`, `updateMonitor`, `deleteMonitor`, `testMonitor`, `resetHistory` | change the rows a pass or a check has already read |
| **Incident state machine** (`main.go:889-1035`) | `monitor_states`, `check_results`, `incidents`, `incident_events` | `recordResult` with `stateFor`, `openIncident`, `changeIncident`, `resolveIncident` | called by checks, undone by `resetHistory` |
| **Connection pool** (`database.go:12-103`) | four connections, SQLite's write lock | begin, query, execute, close | everything that touches the database |
| **Notification outbox** (`main.go:1964-2071`) | `notification_channels`, `notification_outbox` | `enqueueNotification` after a commit, `deliverNotifications` every 15 s | incidents, ntfy server |
| **Check classification** (`main.go:697-881`, `connectivity.go`) | none | classify a response, ask a control endpoint after a failure | produces the result a run records |
| **Rollups** (`rollup.go`) | `check_rollups`, three bucket widths | refresh after each result, rebuild | results, retention, dashboard |
| **Retention** (`database.go:270-320`) | none of its own | `pruneHistory` every day | results, rollups, events |
| **Schema and migrations** (`database.go:105-247`) | `schema_migrations` | one transaction at start | everything |
| **Sessions** (`session.go:31-115`) | a map and the `sessions` table | issue, validate, revoke, prune, load | login handlers, restart |
| **Login limiter** (`session.go:117-222`) | attempts per client, two hash slots | lock, record failure or success, acquire and release a slot | login handler |
| **Status views** (`dashboard.go`, `homepage.go`, `integration_health.go`) | none (read-only) | dashboard, history, homepage widget, health endpoint | read all of the above |
| **Browser client** (`web/`) | the refresh in progress, the rows last shown | refresh, change range, manage monitors | HTTP API |
| **HTTP plumbing, encryption, configuration** | none that changes | routing, compression, AES-GCM, Argon2, environment | all |

### What is hard here

*Interleavings.* A scheduler pass works on rows it read at its start, and a handler on rows it
read one statement ago; between any two statements an operator may update, disable, delete or
re-create the monitor. Handlers, passes and checks meet in the coordinator, whose methods are
atomic, but each of them takes several calls and several transactions to do its work.

*Bounded resources.* Check slots and database connections are both counted, both default to
four, and a check holds one of each while it records its result. A path that does not give
one back, or needs two, shows only after a while.

*Long sequences.* A verdict depends on streaks over results that were recorded minutes ago,
under thresholds that may have been edited since, with resets in between.

*Partial failure.* The handlers work in several statements of which each can fail or be the
last before a crash, and some errors are ignored on purpose.

The full list, with the line where each one bites and the property that covers it, is
`hazards` in [PROJECT.json](PROJECT.json).

### What makes each component correct

* Coordinator and scheduler: no two checks of one monitor at once, never more than the limit,
  no slot lost on any path, no request for an immediate run dropped, a changed credential
  checked without waiting for an interval unless a statement fails, enabled monitors checked for ever.
* Incidents: the stored verdict, the streak counters, the incident rows and their events are
  four accounts of one sequence of results and must agree after each of them.
* Connection pool: connections are conserved and callers never all wait for each other.
* Outbox: what is recorded as delivered was received, what is queued is received in the end, first attempts keep
  the order of the queue, and a message is repeated only when its acceptance could not be recorded.
* Rollups and retention: every stored bucket equals a recomputation from the raw rows, and the evidence of an event stays
  its own although result ids are given out again.
* Sessions: memory mirrors the table; a session that was signed out is not valid again.
* Login limiter: hash slots are conserved; a lockout is lifted by a right password and by nothing else.
* Status views: what is read from buckets is what the raw rows say, and no two answers contradict each other.
* Browser client: what is shown after a change was answered after the change.

## 2. Modules

| Module | Models | Checked by | Proved in |
|---|---|---|---|
| `CheckSlots` | what the scheduler promises: a pool of slots, one per identity | refined by the next two | |
| `RunCoordinator` | the coordinator under arbitrary callers | `MCRunCoordinator` | `RunCoordinatorProofs` |
| `CheckScheduler` | scheduler, checks, handlers and tables around one `RunCoordinator` | `MCCheckScheduler` | `CheckSchedulerProofs` |
| `Incidents` | `recordResult` and `resetHistory` for one monitor | `MCIncidents` | `IncidentsProofs` |
| `IncidentViews` | availability, pulse and incident list, over `Incidents` | `MCIncidents` | `IncidentsProofs` |
| `ConnectionPool` | who holds and who waits for a connection | `MCConnectionPool` | `ConnectionPoolProofs` |
| `Outbox` | an event from its commit to the ntfy server, with crashes, retries and resets | `MCOutbox` | `OutboxProofs` |
| `History` | results, buckets, retention, resets, migrations 5 and 6, restarts | `MCStatusViews` | `HistoryProofs` |
| `StatusViews` | dashboard, current status, health endpoint, coverage, report, pages, over `History` | `MCStatusViews` | `HistoryProofs` |
| `SignIn` | sessions, hash slots, lockouts, the worker that prunes them, restarts | `MCSignIn` | `SignInProofs` |
| `Ordering` | what `ORDER BY` makes of a set of rows | with the two views | `DataLemmas` |
| `DataLemmas` | nothing: lemmas on sums, orderings and tables that the proofs about the views share | | itself |

Operators ending in `Fault` or named as a variant (`ManualAcceptedClears`) are plausible bugs of
the operator defined right after them. No specification uses them: PROJECT.json's `mutants` says
which property each of them breaks when it takes the place of the real one, so that no property
here is one the code could not break.

### RunCoordinator

Every method holds the mutex from its first line to its return, so each *return* of each method
is one action: `Claim` gives `ClaimNotDue`, `ClaimOverlap`, `ClaimCapacity` and `ClaimAccepted`
(the values of `runClaimResult`), `ClaimManual` gives `ManualAccepted` and `ManualRejected`.
`lastRuns` holds ages instead of times: a run's age saturates at `Horizon`, where it is due for
every interval, which is also the age of an id the map does not contain (the zero `time.Time`).
A caller reads the clock before it gets the mutex; `lag` is how long ago.
Callers are arbitrary: no order of calls is assumed, `Release` may be repeated.

### CheckScheduler

A step is what runs without letting another goroutine in: one coordinator call, or one database
statement or transaction. So a run is `ClaimAccepted` + `Start`, `ReadSecret`, `FinishAuth`,
`FinishPublic`, `EndRun` (the deferred `Release`); `createMonitor` is `CreateInsert`,
`CreateSecret`, `Load`, `Request`, `ClaimNow`; `updateMonitor` is `UpdateCommit`, `Load`,
`Request`, `ClaimNow`; `deleteMonitor` is `DeleteCommit` and only then `Forget`; `testMonitor` is
`TestLoad`, `TestClaim` and the run. A pass is `ScanStart` (one query, one clock reading; the rows that are not
enabled are passed over) and a `ScanStep` per row left, or `ScanFails`.

Statements fail (`Fails`): for lack of a row, or for any other reason, a credential that does not decrypt included.
`ReadSecret` then ends the run although `Claim` has used up the pending request, and `Load` leaves `updateMonitor`
without an immediate run and `createMonitor` with a zero monitor (below); `CreateSecret` deletes the monitor again, unless
that fails as well; a failed recording changes nothing. A failure that ends a request before it has
changed anything (the `INSERT` of the monitor, a transaction that is rolled back, the reads of a test) is no step.

Ids are given out as SQLite does for `INTEGER PRIMARY KEY` without `AUTOINCREMENT`: one more
than the largest in the table, so a deleted monitor's id comes back. `createMonitor` ignores
the error of the `monitorByID` that follows its inserts (`main.go:1237`); when the monitor has been
deleted meanwhile it requests and claims a run of the zero monitor, id 0, which the model keeps
as one more identity of the coordinator. The fields `gen` and `foreign` are history, and so is what the field `secret` says of a
credential that is there: no check has read it (`new`), nor will one before the monitor is due, because its immediate run was lost
to a failed statement or to the late `Forget` of a monitor that had the id (`missed`), or one has (`read`). Only properties and
the bookkeeping of history itself tell the three apart; the code's guards see whether there is a row (`HasSecret`).

### Incidents

One action per branch of `recordResult`; each is the whole transaction, with the transaction's
rollback as the reason why a branch that cannot find its incident is simply not enabled (the
property `VerdictMatchesIncidents` shows that this never happens). The thresholds are parameters
of a call, as they come from the caller's snapshot and may be old; an incident keeps the failure threshold it was opened under
(`threshold`, history). `check_results` is the variable
`log`, so that properties can compare what is stored with what was recorded.

### ConnectionPool

A connection is held from `Begin` to the end of the transaction, from a `SELECT` to the last of
its rows, and during a statement. `enqueueNotification` executes its `INSERT` inside the loop over
`rows`, so there and only there a caller that holds a connection waits for another. Every other
user takes one and returns it (all of them were read for nested use: `deliverNotifications`,
`history` and `incidents` read all their rows before their next statement, the dashboard
snapshot works on one connection). `Busy` is a write that fails because another writer holds the
lock past `busy_timeout`.

### Outbox

`Commit` is the end of `recordResult`'s transaction for a result with an event, `Enqueue` the
`INSERT` of `enqueueNotification` that follows it, `Fetch` the query of `deliverNotifications`; for each
job of the batch in turn `Accepted`, `Refused` or `AnswerLost` is the exchange with the server and
`Store` (or `StoreFails`) the `UPDATE` that records it. Between any two of them the operator may reset or
delete (`Reset`), switch the channel (`PutNtfy`), or the process may end (`Crash`), which loses the events
not queued yet and the batch but nothing that is in a table. Row ids come back as monitor ids do.
`tried`, `received`, `doubts` and the field `usurped` are history. The waiting times of `deliverNtfy`
are kept in units of two minutes, of which they are multiples.

### History

`recordResult`, `pruneHistory`, `resetHistory` and `migrateDatabase` are one transaction each and so one action each:
`Record`, `Prune`, `ResetHistory`, `Start`. A bucket is a function value: the `Summary` of the checks it covers, percentiles
included (`NearestRank`). `Refreshed` is `refreshRollupBucket` for a set of buckets, `Rebuilt` the two passes of
`rebuildRollups` (counters by `GROUP BY`, then the percentiles that are still `NULL`). What a result does to the verdict is
`Incidents`' subject; here it may do whatever some thresholds and streaks allow (`Verdicts`), which is all the events'
references to results need. A database may come from the releases before migrations 5 and 6, with results in it.

### StatusViews and IncidentViews

Every endpoint reads one state of the tables and changes nothing, so each is an operator on the state of `History` or
`Incidents`, and the properties compare the operators: with each other and with a definition over the raw checks.
`Coverage` is the overview's split into whole buckets and the raw rows of the bucket the window's start falls into, `Points`
the dashboard's range, `OverallStep` the switch of the provider loop in its order, `Page` one request of the paged list and
`Reading` all the requests of a reader who follows its cursors while the table changes.
In `IncidentViews`, availability is compared as seconds of downtime over seconds observed and not as their quotient.

### SignIn

Each lock and each statement is one action: a sign-in is `Login` (the lockout gate), `AcquireHashSlot` or `GiveUp`, `Verify`
(which gives the slot back), `RecordFailure` or `RecordSuccess`, `IssueInsert` or `IssueFails`, `IssuePublish`; a sign-out is
`Logout` (the map) and `RevokeDelete` or `RevokeFails`; a round of the worker is `PruneMemory`, `PruneTable`, `ForgetStale`,
all with the time of its start. A handler keeps the time it read when it began; `MaxWait` bounds how old that gets.
`Restart` keeps the table and nothing else. `issued`, `signedOut` and `doubted` are history.

## 3. Runs

| Run | Instance | Shows |
|---|---|---|
| `coordinator` | 3 ids, 2 slots, intervals 1 and 2, lags 0 and 1 | exact counting, no lost request or due run, under any callers; refinement of `CheckSlots` |
| `scheduler` | 2 ids, 2 handlers, 2 slots, 3 events (changes of the table, tests, failures), one tick of lag | one run per monitor, books equal to goroutines, an unread credential is waited for unless a statement failed or a `Forget` came late, refinement |
| `scheduler_liveness` | 1 id (and the zero monitor), 1 handler, 2 slots, 3 changes of the table, unlimited tests and failures, `FairSpec` | an enabled monitor is checked again and again; a disabled one is left to its operator's tests |
| `reused_id` (violation) | 2 ids, 1 handler, 3 events | a late result recorded under another monitor |
| `incidents` | 2 failures, thresholds 1 and 2 (both kinds), 6 results, clock to 3, list limit 2, bucket widths 2 and 3 | the properties of the state machine, and that the views of its incidents agree |
| `pool` | 3 checks, 2 others, 4 connections, `FairSpec` | conservation, no jam, every recording ends |
| `pool_jam` (violation) | 4 checks, 1 other, 4 connections | the jam of the default configuration |
| `outbox` | 1 monitor, batches of 2, 3 events, 1 reset, 1 fault, 2 counted attempts, `FairSpec` | nothing passes for delivered that was not received; first attempts in order; repeats only for a reason; what is queued is received in the end |
| `outbox_reset` (violation) | 2 monitors, 3 events, 1 reset, no faults | a message marked delivered in place of the one a reset removed |
| `history` | 2 monitors, widths 2 and 4, retention 2, 2 recorded results, clock to 4, databases of 3 releases | stored buckets equal the raw checks, evidence is its own, all views agree |
| `overall_state` (violation) | 2 monitors, no lag, the rest as above | an outage of which nothing is confirmed |
| `sign_in` | 2 handlers, 1 client, 2 sessions, 1 hash slot, threshold and window 2, clock to 4 | memory mirrors table, sign-out is final, slots come back, lockouts hold |

**Why the bounds are enough.** The coordinator couples monitors only through `active`: two slots
and three ids give an overlap, a full pool and a rejection of each kind in every combination of due and
requested. In `scheduler` two slots are one less than the ids the coordinator can meet (two
and the zero monitor); three events are what it takes to create a monitor, and then race two
operations on it or an operation and a failure, or to delete and create it again, against a pass with a snapshot from before.
`MaxEvents` bounds the events of the kinds in `Counted`: changes of the table always, tests and failures in the safety runs only.
In `scheduler_liveness` operators may test and statements fail for ever, so nothing comes to rest there because the model does; `MaxLag`
1 lets a tick fall into a pass. There is one worker more than there are slots, so that a run beyond the limit would be seen
and not excluded by the bound. Handlers are interchangeable and the run uses that as symmetry (as does `sign_in`; none of the
liveness runs does). Six results are enough to open (2), change (1), resolve (2) an
incident and start another, or to break a streak and build it again; a clock of 3 makes results share a second. In `outbox` three
events fill more than one batch, and one of them can be queued after a reset has removed another that is being sent; one fault is
enough because each of them takes its effect alone (a crash between acceptance and record, a lost answer, a failed update).
In `history` the narrow width divides the wide one and not the retention's position, so a cutoff straddles a bucket of one width
and not of the other; two old results and two new ones give a bucket of two percentile ranks, two checks of one second, and an
id given out again after a prune has emptied the table; the monitors meet only in the ids and in the overall state. The dashboard
range of the narrow width leaves checks out, that of the wide one covers a day. In `sign_in` the second handler is what the first
interleaves with; the clock passes a session's expiry, a window and the end of a lockout.
The safety properties of all the passing runs are also proved without any bound (section 4).

**Deadlock** is checked in every run: no state of any instance is without a step.

**Fairness.** `CheckScheduler!FairSpec` assumes that a goroutine that can run does (Go's scheduler
pre-empts), that the ticker keeps ticking, and that a provider call ends (every one has
`context.WithTimeout`), all of it weakly; and strongly that a pass begins, as its query of the monitors may fail (`ScanFails`) but
not at every tick for ever. It assumes nothing of operators and of no other statement that it succeeds. Hence what
`EnabledMonitorsAreChecked` promises is that a run begins, or an operator's test, which the pass takes for one;
and `DisabledMonitorsGoQuiet` that no check is left but tests, which `testMonitor` allows on a disabled monitor. The two slots
are one for the monitor and one for the zero monitor. `ConnectionPool!FairSpec`
assumes weakly that a running statement ends, and strongly that a waiting request for a connection is
served when connections keep being returned: `database/sql` picks one of the waiting requests at
random for each returned connection. It assumes nothing of `Begin`, as nothing makes a check have a
result.

`Outbox!FairSpec` assumes weakly that the worker's ticker, its updates and the clock go on and that the worker tries the job it
has come to (the client has a timeout, so an exchange ends in an acceptance, a refusal or a lost answer), and strongly that the
server accepts a message that is tried again and again: without that nothing could be said of any retry. Crashes and failed
updates are bounded by `MaxFaults`; a refusal is not.

### Findings

1. **The default configuration can jam** (`pool_jam`). Four checks may run (`scheduler.go:22`),
   the pool has four connections (`database.go:15`), and each check that opens, changes or
   resolves an incident needs two at once. When an outage changes four verdicts together, each
   check holds one connection in `rows` and waits for ever for another, since no call there has a context; every
   other user of the database then waits too. The `pool` run and the theorem `SparePreventsJam` show that
   one connection more than checks excludes it; so would reading the channel ids before inserting.
2. **A result can be recorded under another monitor** (`reused_id`): delete a monitor while a check
   of it is in flight, create another one, and the late result is stored, and can open an incident,
   under the new one, because it got the same id.
3. **A reset can swallow a later notification** (`outbox_reset`): the worker updates rows by id after sending; when a reset
   deletes the row meanwhile and the next message is given its id, that message is marked delivered unsent. `AUTOINCREMENT`, or an
   update that also compares what was sent, would exclude it. Apart from it a delivered row has been received, which
   `DeliveredIsReceived` proves.
4. **An outage nobody has confirmed** (`overall_state`): the design document calls the overall state an outage when a provider is
   in a confirmed failure state. The switch of `dashboard.go:343` takes the first provider with an unconfirmed failure as
   degraded, but its first case asks for an overall state that is still healthy: the second such provider, or one after a provider
   without current data, falls into the case of the confirmed ones. That no confirmed failure is ever hidden holds
   (`OverallNeverHidesFailure`).

The models show some more that no document contradicts:

* With fewer slots than monitors the pass offers them in id order and a rejection for capacity leaves no trace, so a monitor late
  in the order can wait for ever while slots become free at other moments.
* The delivery query does not look at `enabled`: what is queued or being retried when the channel is switched off is still sent.
* A sign-out whose `DELETE` fails is answered like any other, and a restart brings the session back: the exception in
  `RevokedStaysOut`, and the only one.
* A failure is recorded with the time its request arrived, so one that was waiting for a hash slot can move the end of a lockout
  back by as long as it waited: the `MaxWait` in `LockoutHolds`.
* The health endpoint has a staleness rule (`2 * interval + timeout`) that the dashboard and the current status do not have;
  `ViewsAgree` says exactly where the three therefore differ.
* The overview reads its tables in several statements and not in one transaction, unlike the dashboard: its figures can be of
  different moments. `StatusViews` evaluates each figure in one state.
* The pulse of `seriesFromRollups` has no degraded buckets, which `docs/design/2026-08-21-dashboard-redesign.md:114` describes.

## 4. Proofs

All proofs are for arbitrary values of the constants under the named assumptions of the modules
(`LimitAssumption`, `TimeAssumption`, `SchedulerAssumption`, `StateAssumption`, `ThresholdAssumption`,
`BoundAssumption`, `ConnsAssumption`, `ActorAssumption`, `OutboxAssumption`, `HistoryAssumption`, `ViewsAssumption`, `SignInAssumption`). The bounds
that keep TLC finite (`MaxChecks`, `MaxTime`, `MaxId`, `MaxEvents` with `Counted`, `MaxResets`, `MaxFaults`, `MaxRecorded`) are
arbitrary numbers there.

**RunCoordinatorProofs.** `TypeCorrect`, `SlotsAreBounded`, `PendingIsOnlyServed`, `DueIsStable`,
`CoordinatorImplementsSlots`. `SlotsBounded` is inductive together with the type invariant: `active` is
tied to the cardinality of `inFlight` by each operation, which needs that adding a new or removing an old
element changes a finite set's cardinality by one. The two action properties and the refinement follow step by
step from that invariant.

**CheckSchedulerProofs.** `RunsAreExclusive`, `BooksAreTheGoroutines`, `SchedulerImplementsSlots`. The
invariant says that `inFlight` is the set of ids of the goroutines, `active` their number, and that no
two have the same id. Exclusivity alone is not inductive: a claim tests `inFlight`, so it needs the books to be
the goroutines; and the books alone are not, because a `Release` removes an *id*, which is right only if
no other goroutine has it. The refinement maps the pool of `CheckSlots` to the goroutines that exist and not to
the coordinator's own tables, so it says that checks really are bounded and exclusive
(docs/design/2026-08-21-dashboard-redesign.md:143).

`TypeCorrect` and `CredentialsAreChecked` build on that invariant. `CredentialInv` says of every id whose credential has not been
read that its handler is still to request a run, the request is pending, or a run that is still to read it is in flight. Whoever takes
a pending request away starts such a run, with one exception, `Forget`; and what is in flight reads the credential or fails. Those
two are the steps that mark a credential as missed (`MissedUnchecked`), so the theorem says that nothing else loses an immediate
run: no stale pass, no manual test, no overlap, no full pool. What is missed is not lost for good: it is read at the
monitor's interval or by the next update's run.

**IncidentsProofs.** `TypeCorrect`, `VerdictIsTheIncidents`, `StreaksAreCounted`, `IncidentsAreDisjoint`, `IncidentsAreGrounded`,
`EventsTell`. `VerdictMatchesIncidents`
is inductive with the type invariant: opening appends to a history all of whose incidents are
resolved, and changing or resolving finds its incident to be the last. `StreaksCountLog` needs in addition
that a monitor without a state row has an empty log; its steps rest on four lemmas about appending a result
to a sequence (`FailureCounted`, `RecoveryCounted`, `NoFailure`, `NoRecovery`). The other three are one invariant, `PastInv`, with
two more parts: every time stored in an incident is at most the time of the last result (`IncidentsTimed`), and a streak in
progress began after the last incident was resolved (`RowTimed`). An incident is then grounded because the streak that opens it
is the one the counters have counted, as long as the threshold of the call that opened it, and what grounds it stays in a log that only grows (`GroundedStays`).

`ViewsOfIncidentsAgree` takes the views from that invariant, for any window and any number of incidents. Incidents that are
disjoint are also in order (`IncidentsInOrder`), so a clipped period is a set of seconds, periods of different incidents share
none, and the overview's sum counts the seconds that are down (`DowntimeCounts`): that, and not the arithmetic of one period, is
what two overlapping incidents would break. The list's order is the order of the ids because opening times never decrease.

**ConnectionPoolProofs.** `TypeCorrect`, `ConnectionsConserved`, and `SparePreventsJam`: with fewer recorders than
connections the pool never jams. That the counters keep their types is itself a consequence of conservation, as nothing else
keeps `free` from exceeding the pool. `SparePreventsJam` follows by counting: if nobody who will
return a connection holds one, the recorders that wait in the loop hold one each, which is less than all.

**OutboxProofs.** `TypeCorrect`, `DeliveredIsReceived`, `ResentOnlyWhenInDoubt`, `FirstTriesInOrder`. That a delivered row was
received is not inductive: the update is
justified by what the worker remembers. The invariant adds that the row of a job is about the job's event unless its id was usurped
(`JobsMatch`), and that a job whose outcome is *accepted* has been received (`AcceptedIsReceived`). Repeats need `SendInv`: an
event is in one place (a check about to queue it, a row, or a row and its job: `OnePlace`), the worker holds no job of a delivered
row (`JobsAreOpen`), and an event that may still be sent was received no more often than that was in doubt (`Owed`). The order
needs `OrderInv`: a row that is not pending has been tried (`OnlyTriedChange`), an untried one is due (`PendingIsDue`), and below a
row in the batch every row is in the batch or has been tried (`NothingSkipped`), which is what `ORDER BY id LIMIT` gives.

**HistoryProofs.** `TypeSafety`, `RollupsStayExact`, `EvidenceStaysOwn`, for any number of monitors, any widths and any retention.
What is inductive is not the property but an equation, the table of buckets *is* the function computed from the raw results; each
operation refreshes some buckets, and the argument is that all others have the same checks as before. The straddling bucket of a
prune is the one case where checks go from a bucket that stays. `EvidenceIsOwn` needs that a result's id is new only with respect
to the table, and that a prune detaches the events of what it removes in the same transaction.

The views need one invariant more, `ViewInv`: the table is finite with unique ids, no stored time is in the future, and the state
row of a monitor carries what its latest result says (`RowsFollowResults`). The last is what makes the three status answers
comparable at all, as two read the row and one reads the results; it survives a prune because a prune removes the oldest.
`StatusViewsAgree` is then a case analysis. `SummariesAreExact` adds up columns of buckets: a bucket's counter is the size of a set
of checks, buckets of one width are disjoint, so the sum is the size of their union (`SumOfSizes`), and that union is shown to be
the checks of the range; the overview's straddling bucket is covered by raw rows from its start on. `OverallHidesNothing` follows
the provider loop through its table of intermediate words. `PagesListEveryCheckOnce` is by induction over the requests of a
reader: after each, the rows read are distinct and none is older than the cursor, and of the checks that stay every one not older
than it has been read (`Progress`); the reading ends because it cannot list more rows than there are checks. It holds for pages of any size
(`PagesOfAnySize`), of which the run checks one and two.

**SignInProofs.** `TypeSafety`, `SlotsComeBack`, `SessionsMirrored`, `SignOutIsFinal`, `LockoutsHold`. `SessionInv` relates the
map, the table and the handlers between the two: a session about to be published is in the table with the expiry it will have
(`PublishInv`), a sign-out in progress is no longer in the map (`RevokeInv`), and the worker's cutoff is not in the future.
`LimiterInv` bounds a lockout by the clock and says that no handler on its way can find a locked client's failures expired, since
it arrived at most `MaxWait` before now and the window is at least that.

**DataLemmas.** The proofs about the views are inductions over data: over the elements of a finite set, the steps of a fold, the
pages of a reader. The library's induction theorems take an operator as a parameter, which none of the provers can instantiate. The
inductions here take the *set of what the claim is true of* instead, and rest on the well-foundedness of strict inclusion between
finite sets (`SmallestSet`, `SubsetInduction`, `NatSetInduction`). A recursive function is a `CHOOSE` of which nothing is known
until a function of that shape is shown to exist; `FoldExists` and `ChainExists` do that once. On them rest the sums (`SumRemove`,
`SumAdd`, `SumOfSizes`), `MaxIsLargest`, and what an `ORDER BY` lists (`ListingProperties`: every row once, in order).

**Only model-checked.** Liveness (`EnabledMonitorsAreChecked`, `DisabledMonitorsGoQuiet`, `RecordingEnds`, `QueuedIsReceived`),
which is out of the prover's reach. Every other property of a passing run is stated by a theorem.

## 5. How the modules fit together

`CheckScheduler` instantiates `RunCoordinator`; both refine `CheckSlots`. `StatusViews` extends `History` and `IncidentViews`
extends `Incidents`, as the endpoints read what these write. The other modules share transactions and are kept apart where neither
reads what the other writes, and each states as an environment what another proves:

* `Outbox` takes one unresolved incident per monitor from `Incidents` (`VerdictIsTheIncidents`).
* `History` takes results of one monitor in the order of their times, from checks that do not overlap (`RunsAreExclusive`).
* `StatusViews` takes an incident to be open exactly while the verdict is not healthy (`VerdictIsTheIncidents`), and today's
  figures from buckets to be those of the checks (`RollupsStayExact`; the run checks both together).
* `ConnectionPool` takes the number of recorders from the slots (`SchedulerImplementsSlots`).

What could come next, in this order: `createMonitor` with a crash between its statements and a restart in `CheckScheduler`; the
abstract specification of the outbox (one message per event, received at least once); the browser client's refreshes.

## 6. Not modelled

* The browser client. No state of the service depends on it. Its one ordering hazard is in the list.
* The wording of summaries and messages, formatting, logging, compression, headers, routing and page rendering; the homepage
  widget as far as it formats the dashboard snapshot.
* Cryptography (AES-GCM for credentials, Argon2 for the password, session tokens and their signature): library calls without state.
* How a provider's response is classified: a pure function of that response; a check ends here with any outcome.
* Estimates: `weightedPercentile` and the 95th percentile of the overview's sample; transient timeout entries of the history.
* The schema itself and the migrations that only change it. Migrations 5 and 6, which compute data, are in `History`.
* Replacing the ntfy URL, and test messages, which bypass the outbox.
* Failing statements that end a call before it has changed anything, or roll its whole transaction back: such a call
  is a stutter. Those that leave something behind are modelled (in `CheckScheduler`, `ConnectionPool`, `Outbox` and `SignIn`).
* Shutdown: the process ends without waiting for check goroutines, and every transaction is atomic. Restarts are modelled where
  something in memory would be missed: in `Outbox`, `History` and `SignIn`. `CheckScheduler` starts with an empty database and runs
  on; after a restart its coordinator is the initial one and all monitors are due.

## 7. Running

    tlc -workers 2 -config MCRunCoordinator.cfg MCRunCoordinator
    tlapm RunCoordinatorProofs.tla

and likewise for the other pairs listed under `runs` in PROJECT.json.
