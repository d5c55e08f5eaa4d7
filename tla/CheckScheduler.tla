---------------------------- MODULE CheckScheduler ----------------------------
(***************************************************************************)
(* Everything that starts, runs and ends provider checks: the scheduler    *)
(* goroutine, the HTTP handlers that create, update, delete and test       *)
(* monitors, the goroutines of the checks themselves, and the monitors     *)
(* table they all read, around one shared RunCoordinator.                  *)
(*                                                                         *)
(* A step is what runs without releasing a lock: one call of the           *)
(* coordinator, or one statement or transaction of the database (writers   *)
(* serialise).  Between two steps of one goroutine anything may happen.    *)
(*                                                                         *)
(* Ids are allocated the way SQLite allocates an INTEGER PRIMARY KEY       *)
(* without AUTOINCREMENT: one more than the largest id in the table, so    *)
(* the id of a deleted monitor can be given out again.                     *)
(*                                                                         *)
(* Any statement may fail (a busy or full database, a credential that      *)
(* cannot be decrypted).  A failure that only ends a request before it has *)
(* changed anything is not a step.                                         *)
(***************************************************************************)
EXTENDS Integers, FiniteSets

CONSTANTS MaxId,         \* bound: largest id the monitors table gives out
          Handlers,      \* HTTP requests in progress at once
          Workers,       \* 1..n, slots for check goroutines: more than Limit
          Limit,         \* DEBRIDUP_MAX_CONCURRENT_CHECKS
          Intervals,     \* interval_seconds, in periods of the scheduler's ticker
          MaxLag,        \* bound: how long one scan takes
          Horizon,       \* MaxLag plus the longest interval
          MaxEvents,     \* bound: events of the kinds Counted in a behaviour
          Counted        \* of: monitors created, updated and deleted; tests; failures

ASSUME SchedulerAssumption ==
    /\ Limit \in Nat \ {0}
    /\ MaxId \in Nat /\ MaxEvents \in Nat
    /\ "change" \in Counted /\ Counted \subseteq {"change", "test", "failure"}
    /\ MaxLag \in Nat /\ Horizon \in Nat /\ Intervals \subseteq Nat
    /\ \A interval \in Intervals : MaxLag + interval =< Horizon
    /\ Workers \subseteq Nat

VARIABLES
    monitors,    \* the monitors and monitor_secrets tables, id -> row
    created,     \* rows created so far: gives each row a generation
    events,      \* events of the kinds Counted so far
    requests,    \* handler -> the request it is in the middle of
    scan,        \* id -> snapshot, the rest of the scheduler's current pass
    scanLag,     \* how long ago that pass read the clock
    ticked,      \* the 5 s ticker has fired and no pass has started since
    runs,        \* worker -> the check goroutine it executes
    lastRuns, inFlight, pendingImmediate, active

coordVars == <<lastRuns, inFlight, pendingImmediate, active>>
tableVars == <<monitors, created, events>>
scanVars  == <<scan, scanLag, ticked>>
vars == <<tableVars, requests, scanVars, runs, coordVars>>

Monitors == 1..MaxId

\* Id 0 is no monitor: it is the zero `monitor` createMonitor goes on with when
\* the row it has just inserted is gone by the time it loads it.
Coord == INSTANCE RunCoordinator WITH Ids <- 0..MaxId, Lags <- 0..MaxLag

Nothing == [k \in {} |-> {}]
Put(f, k, v) == [x \in DOMAIN f \cup {k} |-> IF x = k THEN v ELSE f[x]]
Remove(f, k) == [x \in DOMAIN f \ {k} |-> f[x]]

\* The row of a credential is missing or there; what became of the credential is
\* history: no check has read it yet ("new"), nor will one until the monitor is due,
\* as its immediate run was lost to an error or to the Forget of a monitor that had
\* the id before ("missed"), or one has ("read").  History too are gen, which
\* creation the row stems from, and foreign, whether a result of a monitor of
\* another generation has been recorded under it.
Row == [gen : Nat, enabled : BOOLEAN, interval : Intervals, foreign : BOOLEAN,
        secret : {"none", "new", "missed", "read"}]

Exists(id) == id \in DOMAIN monitors
HasSecret(id) == Exists(id) /\ monitors[id].secret # "none"

\* The bound on what operators do and what fails, where a kind of it is bounded.
Count(kind) == \/ kind \notin Counted /\ UNCHANGED events
               \/ kind \in Counted /\ events < MaxEvents /\ events' = events + 1

\* A statement finds no row it works on, or fails for any other reason.
Fails(norow) == \/ norow /\ UNCHANGED events
                \/ Count("failure")

Missed(id) == IF Exists(id) /\ monitors[id].secret = "new"
              THEN [monitors EXCEPT ![id].secret = "missed"] ELSE monitors

\* What Go code keeps of a row it has read (a `monitor` value).
Snapshot(id) == [id |-> id, gen |-> monitors[id].gen, interval |-> monitors[id].interval]
ZeroMonitor == [id |-> 0, gen |-> 0, interval |-> 0]

IsNextId(id) == /\ \A other \in DOMAIN monitors : other < id
                /\ id = 1 \/ Exists(id - 1)

Init == /\ monitors = Nothing
        /\ created = 0
        /\ events = 0
        /\ requests = Nothing
        /\ scan = Nothing
        /\ scanLag = 0
        /\ ticked = TRUE
        /\ runs = Nothing
        /\ Coord!Init

-------------------------------------------------------------------------------
(* The goroutine of one check: go func(m) { defer Release; runMonitor(m) } *)

\* Goroutines have no identity: a new one takes the lowest worker that is free.
Start(m, pc) == \E w \in Workers \ DOMAIN runs :
    /\ \A v \in Workers \ DOMAIN runs : w =< v
    /\ runs' = Put(runs, w, [id |-> m.id, gen |-> m.gen, pc |-> pc])

SecretRead(w) == LET id == runs[w].id IN
    /\ HasSecret(id)
    /\ monitors' = [monitors EXCEPT ![id].secret = "read"]
    /\ runs' = [runs EXCEPT ![w].pc = "auth"]
    /\ UNCHANGED events
SecretFails(w) == LET id == runs[w].id IN
    /\ Fails(~HasSecret(id))
    /\ monitors' = Missed(id)

ReadSecretFault(w) ==                       \* mutant: the error path returns without Release
    /\ runs[w].pc = "start"
    /\ \/ SecretRead(w)
       \/ SecretFails(w) /\ runs' = Remove(runs, w)
    /\ UNCHANGED <<created, requests, scanVars, coordVars>>

\* monitorSecret: no row, a failed read or a failed decryption is an error, and the
\* run ends there.
ReadSecret(w) ==
    /\ runs[w].pc = "start"
    /\ \/ SecretRead(w)
       \/ SecretFails(w) /\ runs' = [runs EXCEPT ![w].pc = "done"]
    /\ UNCHANGED <<created, requests, scanVars, coordVars>>

\* recordResult inserts under the id of the snapshot. Its errors are logged and
\* change nothing: the foreign key refuses an id that is not in the table.
Record(w) == LET id == runs[w].id IN
    \/ Fails(~Exists(id)) /\ UNCHANGED monitors
    \/ /\ Exists(id)
       /\ monitors' = [monitors EXCEPT ![id].foreign = @ \/ runs[w].gen # monitors[id].gen]
       /\ UNCHANGED events

\* authCheck, classifyConnectivity and the recording of their result; a public
\* check follows where the monitor has one.
FinishAuth(w) ==
    /\ runs[w].pc \in {"auth", "test"}
    /\ Record(w)
    /\ \E next \in {"public", "done"} :
          /\ runs[w].pc = "test" => next = "done"
          /\ runs' = [runs EXCEPT ![w].pc = next]
    /\ UNCHANGED <<created, requests, scanVars, coordVars>>

FinishPublic(w) ==
    /\ runs[w].pc = "public"
    /\ Record(w)
    /\ runs' = [runs EXCEPT ![w].pc = "done"]
    /\ UNCHANGED <<created, requests, scanVars, coordVars>>

EndRun(w) ==
    /\ runs[w].pc = "done"
    /\ Coord!Release(runs[w].id)
    /\ runs' = Remove(runs, w)
    /\ UNCHANGED <<tableVars, requests, scanVars>>

Run(w) == /\ w \in DOMAIN runs
          /\ ReadSecret(w) \/ FinishAuth(w) \/ FinishPublic(w) \/ EndRun(w)

-------------------------------------------------------------------------------
(* The scheduler goroutine *)

\* runDueMonitorsAt loads all rows in one query and reads the clock once.  The rows
\* that are not enabled are passed over.
Pass(ids) ==
    /\ ticked /\ scan = Nothing
    /\ scan' = [id \in ids |-> Snapshot(id)]
    /\ ticked' = FALSE
    /\ UNCHANGED <<scanLag, tableVars, requests, runs, coordVars>>

ScanDisabledFault == Pass(DOMAIN monitors)  \* mutant: the pass ignores m.Enabled

ScanStart == Pass({id \in DOMAIN monitors : monitors[id].enabled})

\* The query fails: there is no pass before the next tick.
ScanFails ==
    /\ ticked /\ scan = Nothing
    /\ Count("failure")
    /\ ticked' = FALSE
    /\ UNCHANGED <<scan, scanLag, monitors, created, requests, runs, coordVars>>

\* What Claim rejects stays as it is, until a later pass.
ClaimRejected(m, lag) == \/ Coord!ClaimNotDue(m.id, lag, m.interval)
                         \/ Coord!ClaimOverlap(m.id, lag, m.interval)
                         \/ Coord!ClaimCapacity(m.id, lag, m.interval)

ClaimRun(m, lag) == \/ /\ Coord!ClaimAccepted(m.id, lag, m.interval)
                       /\ Start(m, "start")
                    \/ /\ ClaimRejected(m, lag)
                       /\ UNCHANGED runs

\* The pass itself: the rows of the snapshot in id order.
ScanStep == \E id \in DOMAIN scan :
    /\ \A other \in DOMAIN scan : id =< other
    /\ ClaimRun(scan[id], scanLag)
    /\ scan' = Remove(scan, id)
    /\ scanLag' = IF DOMAIN scan = {id} THEN 0 ELSE scanLag
    /\ UNCHANGED <<ticked, tableVars, requests>>

\* A time unit is one period of the ticker.  A pass may still be running when the
\* ticker fires (at most MaxLag times), and otherwise starts within the unit.
Elapse == /\ Coord!Elapse
          /\ ticked' = TRUE
          /\ IF scan = Nothing
             THEN ~ticked /\ UNCHANGED scanLag
             ELSE scanLag < MaxLag /\ scanLag' = scanLag + 1
          /\ UNCHANGED <<scan, tableVars, requests, runs>>

-------------------------------------------------------------------------------
(* The HTTP handlers.  A request is its pc and the monitor it works on. *)

Accept(h, pc, m) == /\ h \notin DOMAIN requests
                    /\ requests' = Put(requests, h, [pc |-> pc, m |-> m])

At(h, pc) == requests[h].pc = pc
GoTo(h, pc, m) == requests' = Put(requests, h, [pc |-> pc, m |-> m])
Finish(h) == requests' = Remove(requests, h)

\* createMonitor: INSERT INTO monitors, on its own.
NewRow(interval) == [gen |-> created + 1, enabled |-> TRUE, interval |-> interval,
                     secret |-> "none", foreign |-> FALSE]

CreateInsertFault(h, id) ==                 \* mutant: no default for an interval of 0
    /\ IsNextId(id)
    /\ Count("change")
    /\ created' = created + 1
    /\ \E interval \in Intervals \cup {0} : monitors' = Put(monitors, id, NewRow(interval))
    /\ Accept(h, "secret", [ZeroMonitor EXCEPT !.id = id])
    /\ UNCHANGED <<scanVars, runs, coordVars>>

CreateInsert(h, id) ==
    /\ IsNextId(id)
    /\ Count("change")
    /\ created' = created + 1
    /\ \E interval \in Intervals : monitors' = Put(monitors, id, NewRow(interval))
    /\ Accept(h, "secret", [ZeroMonitor EXCEPT !.id = id])
    /\ UNCHANGED <<scanVars, runs, coordVars>>

\* INSERT INTO monitor_secrets.  When it fails the monitor row is deleted again,
\* unless that fails too: its error is ignored.
CreateSecret(h) ==
    LET id == requests[h].m.id IN
    /\ At(h, "secret")
    /\ \/ /\ Exists(id) /\ ~HasSecret(id)
          /\ monitors' = [monitors EXCEPT ![id].secret = "new"]
          /\ GoTo(h, "load", requests[h].m)
          /\ UNCHANGED events
       \/ /\ Fails(~Exists(id) \/ HasSecret(id))
          /\ monitors' = Remove(monitors, id)
          /\ Finish(h)
       \/ /\ Count("failure")
          /\ UNCHANGED monitors
          /\ Finish(h)
    /\ UNCHANGED <<created, scanVars, runs, coordVars>>

\* updateMonitor's transaction: the row, and the credential if a new one is given.
\* One that is kept and has not been read yet is to be checked at once as well.
Kept(id) == IF monitors[id].secret = "missed" THEN "new" ELSE monitors[id].secret

UpdateCommit(h, id) ==
    /\ Exists(id)
    /\ h \notin DOMAIN requests
    /\ Count("change")
    /\ \E enabled \in BOOLEAN, interval \in Intervals, secret \in {"new", Kept(id)} :
          /\ monitors' = [monitors EXCEPT ![id] =
                [@ EXCEPT !.enabled = enabled, !.interval = interval, !.secret = secret]]
          /\ \/ enabled /\ Accept(h, "reload", Snapshot(id))
             \/ ~enabled /\ UNCHANGED requests
    /\ UNCHANGED <<created, scanVars, runs, coordVars>>

\* monitorByID after the commit.  createMonitor ignores its error, be it a missing
\* row or any other, and goes on with a zero monitor; updateMonitor ends.
Load(h) ==
    LET id == requests[h].m.id IN
    /\ At(h, "load") \/ At(h, "reload")
    /\ \/ /\ Exists(id)
          /\ GoTo(h, "request", Snapshot(id))
          /\ UNCHANGED <<monitors, events>>
       \/ /\ Fails(~Exists(id))
          /\ monitors' = Missed(id)
          /\ \/ At(h, "load") /\ GoTo(h, "request", ZeroMonitor)
             \/ At(h, "reload") /\ Finish(h)
    /\ UNCHANGED <<created, scanVars, runs, coordVars>>

Request(h) ==
    /\ At(h, "request")
    /\ Coord!RequestImmediate(requests[h].m.id)
    /\ GoTo(h, "claim", requests[h].m)
    /\ UNCHANGED <<tableVars, scanVars, runs>>

ClaimNow(h) ==
    /\ At(h, "claim")
    /\ ClaimRun(requests[h].m, 0)
    /\ Finish(h)
    /\ UNCHANGED <<tableVars, scanVars>>

\* deleteMonitor: one transaction for the row and all that hangs off it, and
\* then, on its own, the coordinator's Forget.
DeleteCommit(h, id) ==
    /\ Exists(id)
    /\ Count("change")
    /\ monitors' = Remove(monitors, id)
    /\ Accept(h, "forget", [ZeroMonitor EXCEPT !.id = id])
    /\ UNCHANGED <<created, scanVars, runs, coordVars>>

Forget(h) ==
    /\ At(h, "forget")
    /\ Coord!Forget(requests[h].m.id)
    /\ monitors' = Missed(requests[h].m.id)
    /\ Finish(h)
    /\ UNCHANGED <<created, events, scanVars, runs>>

\* testMonitor: the monitor and its credential are read before the slot is
\* claimed (one step: nothing the test does depends on the order of the two).
TestLoad(h, id) ==
    /\ HasSecret(id)
    /\ Count("test")
    /\ Accept(h, "test", Snapshot(id))
    /\ UNCHANGED <<monitors, created, scanVars, runs, coordVars>>

\* The check then runs in the handler itself, with a deferred Release.
TestClaim(h) ==
    LET m == requests[h].m IN
    /\ At(h, "test")
    /\ \/ Coord!ManualRejected(m.id) /\ UNCHANGED runs
       \/ Coord!ManualAccepted(m.id, 0) /\ Start(m, "test")
    /\ Finish(h)
    /\ UNCHANGED <<tableVars, scanVars>>

NewRequest(h) == \E id \in Monitors : \/ CreateInsert(h, id)
                                      \/ UpdateCommit(h, id)
                                      \/ DeleteCommit(h, id)
                                      \/ TestLoad(h, id)
Handle(h) == /\ h \in DOMAIN requests
             /\ \/ CreateSecret(h) \/ Load(h) \/ Request(h) \/ ClaimNow(h)
                \/ Forget(h) \/ TestClaim(h)

Next == \/ \E h \in Handlers : NewRequest(h) \/ Handle(h)
        \/ ScanStart \/ ScanFails \/ ScanStep \/ Elapse
        \/ \E w \in Workers : Run(w)

\* Goroutines are never starved by the Go runtime, the ticker keeps ticking, every
\* provider call ends (its context has a timeout), and the query of the monitors
\* does not fail for ever.  Nothing is assumed of operators, or of other statements.
Fairness == /\ SF_vars(ScanStart) /\ WF_vars(ScanStep) /\ WF_vars(Elapse)
            /\ \A h \in Handlers : WF_vars(Handle(h))
            /\ \A w \in Workers : WF_vars(Run(w))

Spec == Init /\ [][Next]_vars
FairSpec == Spec /\ Fairness

-------------------------------------------------------------------------------
(* Properties *)

TypeOK ==
    /\ DOMAIN monitors \subseteq Monitors
    /\ \A id \in DOMAIN monitors : monitors[id] \in Row
    /\ created \in 0..events /\ events \in 0..MaxEvents
    /\ DOMAIN requests \subseteq Handlers
    /\ DOMAIN scan \subseteq Monitors
    /\ scanLag \in 0..MaxLag
    /\ ticked \in BOOLEAN
    /\ DOMAIN runs \subseteq Workers
    /\ \A w \in DOMAIN runs :
          runs[w].id \in 0..MaxId /\ runs[w].pc \in {"start", "auth", "test", "public", "done"}
    /\ Coord!TypeOK

\* No two check goroutines ever work for the same monitor id, whatever a manual
\* test, an update, a scheduler pass and a delete do to each other.
OneRunPerMonitor ==
    \A v, w \in DOMAIN runs : v # w => runs[v].id # runs[w].id

\* The coordinator's books are the goroutines that exist: every one of them holds
\* a slot until its deferred Release, on every path, and nothing else holds one.
BooksMatchRuns ==
    /\ inFlight = {runs[w].id : w \in DOMAIN runs}
    /\ active = Cardinality(DOMAIN runs)

\* The goroutines that run are a pool of Limit slots, one at most per monitor.
Slots == INSTANCE CheckSlots WITH
    Ids <- 0..MaxId,
    held <- {runs[w].id : w \in DOMAIN runs},
    free <- Limit - Cardinality(DOMAIN runs)
ImplementsCheckSlots == Slots!Spec

\* A stored credential that no check has used yet is always about to be checked:
\* the handler that stored it is still to ask for an immediate run, the request
\* is pending, or a run that has not read its credential yet is in flight.
\* Neither a stale scheduler pass that takes the request nor a manual test that
\* read the old credential lets it wait an interval.  Only two things do: a failed
\* statement of the handler or of the run, and the late Forget of a deleted monitor
\* whose id it has.
CredentialWillBeChecked ==
    \A id \in DOMAIN monitors :
        monitors[id].enabled /\ monitors[id].secret = "new" =>
            \/ id \in pendingImmediate
            \/ \E w \in DOMAIN runs : runs[w].id = id /\ runs[w].pc = "start"
            \/ \E h \in DOMAIN requests :
                  requests[h].m.id = id /\ requests[h].pc \in {"load", "reload", "request"}


\* Checked again and again: a run of an enabled monitor always begins again later,
\* also where an operator's tests or a credential that is never found get in the way.
EnabledMonitorsAreChecked ==
    \A id \in Monitors :
        []<>(\/ ~(Exists(id) /\ monitors[id].enabled)
             \/ \E w \in DOMAIN runs : runs[w].id = id /\ runs[w].pc \in {"start", "test"})

\* Once a monitor stays disabled it is no longer checked but by an operator's own
\* tests: neither a pass that read it enabled nor a request that is still pending
\* keeps the scheduler at it.
DisabledMonitorsGoQuiet ==
    \A id \in Monitors :
        <>[](Exists(id) /\ ~monitors[id].enabled) =>
            <>[](\A w \in DOMAIN runs : runs[w].id = id => runs[w].pc \in {"test", "done"})
===============================================================================
