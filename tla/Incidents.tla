------------------------------- MODULE Incidents -------------------------------
(***************************************************************************)
(* The life of one monitor's verdict: what recordResult does with each     *)
(* authenticated result, in monitor_states, incidents and incident_events, *)
(* and what resetHistory (and deleteMonitor, which deletes the same rows)  *)
(* takes away.                                                             *)
(*                                                                         *)
(* recordResult is one transaction that starts with a write, so the calls  *)
(* for a monitor are serial whatever goroutine makes them; an error rolls  *)
(* all of it back.  The thresholds are those of the caller's snapshot of   *)
(* the monitor and may differ from call to call, as an operator edits them *)
(* or a check of an older configuration finishes late.  Results are        *)
(* recorded in the order their checks started (CheckScheduler: one run per *)
(* monitor), so checked_at does not decrease; seconds may repeat.          *)
(*                                                                         *)
(* Left out: summaries and other texts, last_check_at, the rollups of the  *)
(* same transaction, and the notification queued after the commit.         *)
(***************************************************************************)
EXTENDS Integers, Sequences

CONSTANTS Failures,             \* the failing states: auth_failed, ...
          FailureThresholds,    \* monitors.failure_threshold, over time
          RecoveryThresholds,   \* monitors.recovery_threshold, over time
          MaxChecks, MaxTime    \* bounds: results since a reset, clock

Healthy == "healthy"
Unknown == "unknown"

ASSUME StateAssumption == Healthy \notin Failures /\ Unknown \notin Failures
ASSUME ThresholdAssumption == /\ FailureThresholds \subseteq Nat \ {0}
                              /\ RecoveryThresholds \subseteq Nat \ {0}
ASSUME BoundAssumption == MaxChecks \in Nat /\ MaxTime \in Nat

VARIABLES
    tracked,      \* monitor_states has a row
    ms,           \* that row, a monitorState
    incidents,    \* the monitor's incidents with their events, in id order
    log,          \* check_results, source authenticated, since the last reset
    clock         \* checked_at of the last result

vars == <<tracked, ms, incidents, log, clock>>

States == Failures \cup {Healthy, Unknown}

NULL == 0         \* no resolved_at; checked_at is positive
NoState == ""     \* no previous_state: only state_changed events have one
MonitorState == [current : Failures \cup {Healthy}, since : Nat, lastRaw : States,
                 failureStreak : Nat, recoveryStreak : Nat, failureStartedAt : Nat]
Event == [type : {"opened", "state_changed", "recovered"},
          previous : States \cup {NoState}, new : States, at : Nat]
\* threshold is history: the failure threshold of the call that opened the incident.
Incident == [opened : Nat, detected : Nat, resolved : Nat, threshold : FailureThresholds,
             initial : Failures, latest : Failures, events : Seq(Event)]

\* stateFor: the row, or the one it inserts for a monitor that has none.
Fresh(at) == [current |-> Healthy, since |-> at, lastRaw |-> Healthy,
              failureStreak |-> 0, recoveryStreak |-> 0, failureStartedAt |-> 0]
StateFor(at) == IF tracked THEN ms ELSE Fresh(at)

Init == /\ tracked = FALSE
        /\ ms = Fresh(0)
        /\ incidents = <<>>
        /\ log = <<>>
        /\ clock = 0

-------------------------------------------------------------------------------
(* openIncident, changeIncident, resolveIncident *)

OpenIncident(opened, detected, f, ft) ==
    incidents' = Append(incidents,
        [opened |-> opened, detected |-> detected, resolved |-> NULL, threshold |-> ft,
         initial |-> f, latest |-> f,
         events |-> <<[type |-> "opened", previous |-> NoState, new |-> f, at |-> detected]>>])

\* WHERE resolved_at IS NULL ORDER BY id DESC LIMIT 1.  Without such a row the
\* transaction fails and nothing of the result is recorded.
IsNewestOpen(i) == /\ incidents[i].resolved = NULL
                   /\ \A j \in DOMAIN incidents : incidents[j].resolved = NULL => j =< i

ResolveIncidentFault(at) ==                 \* mutant: the event is written, the row is not
    \E i \in DOMAIN incidents :
        /\ IsNewestOpen(i)
        /\ incidents' = [incidents EXCEPT
             ![i].events = Append(@, [type |-> "recovered", previous |-> NoState,
                                      new |-> Healthy, at |-> at])]

ResolveIncident(at) ==
    \E i \in DOMAIN incidents :
        /\ IsNewestOpen(i)
        /\ incidents' = [incidents EXCEPT
             ![i].resolved = at,
             ![i].events = Append(@, [type |-> "recovered", previous |-> NoState,
                                      new |-> Healthy, at |-> at])]

ChangeIncidentFault(f, at, previous) ==     \* mutant: the event is written, the row is not
    \E i \in DOMAIN incidents :
        /\ IsNewestOpen(i)
        /\ incidents' = [incidents EXCEPT
             ![i].events = Append(@, [type |-> "state_changed", previous |-> previous,
                                      new |-> f, at |-> at])]

ChangeIncident(f, at, previous) ==
    \E i \in DOMAIN incidents :
        /\ IsNewestOpen(i)
        /\ incidents' = [incidents EXCEPT
             ![i].latest = f,
             ![i].events = Append(@, [type |-> "state_changed", previous |-> previous,
                                      new |-> f, at |-> at])]

-------------------------------------------------------------------------------
(* recordResult, one action per branch *)

\* The INSERT into check_results that every branch starts with.
Checked(state, at) == /\ at >= clock
                      /\ clock' = at
                      /\ log' = Append(log, [state |-> state, at |-> at])
                      /\ tracked' = TRUE

\* A local connectivity failure says nothing about the provider.
RecordUnknownFault(at) ==                   \* mutant: the streaks survive
    /\ Checked(Unknown, at)
    /\ ms' = [StateFor(at) EXCEPT !.lastRaw = Unknown]
    /\ UNCHANGED incidents

RecordUnknownVerdictFault(at) ==            \* mutant: unknown becomes the verdict
    /\ Checked(Unknown, at)
    /\ ms' = [StateFor(at) EXCEPT !.failureStreak = 0, !.failureStartedAt = 0,
                                  !.recoveryStreak = 0, !.lastRaw = Unknown,
                                  !.current = Unknown]
    /\ UNCHANGED incidents

RecordUnknown(at) ==
    /\ Checked(Unknown, at)
    /\ ms' = [StateFor(at) EXCEPT !.failureStreak = 0, !.failureStartedAt = 0,
                                  !.recoveryStreak = 0, !.lastRaw = Unknown]
    /\ UNCHANGED incidents

Calm(at) == [StateFor(at) EXCEPT !.failureStreak = 0, !.failureStartedAt = 0,
                                 !.lastRaw = Healthy]

RecordHealthy(at) ==
    /\ Checked(Healthy, at)
    /\ StateFor(at).current = Healthy
    /\ ms' = [Calm(at) EXCEPT !.recoveryStreak = 0]
    /\ UNCHANGED incidents

RecordRecovering(at, rt) ==
    LET s == StateFor(at) IN
    /\ Checked(Healthy, at)
    /\ s.current # Healthy
    /\ s.recoveryStreak + 1 < rt
    /\ ms' = [Calm(at) EXCEPT !.recoveryStreak = s.recoveryStreak + 1]
    /\ UNCHANGED incidents

RecordRecovered(at, rt) ==
    LET s == StateFor(at) IN
    /\ Checked(Healthy, at)
    /\ s.current # Healthy
    /\ s.recoveryStreak + 1 >= rt
    /\ ms' = [Calm(at) EXCEPT !.recoveryStreak = 0, !.current = Healthy, !.since = at]
    /\ ResolveIncident(at)

\* The streak is of identical results: another kind of failure starts it again.
Failing(f, at) ==
    LET s == StateFor(at) IN
    [s EXCEPT !.recoveryStreak = 0, !.lastRaw = f,
              !.failureStreak = IF s.lastRaw = f THEN @ + 1 ELSE 1,
              !.failureStartedAt = IF s.lastRaw = f THEN @ ELSE at]

RecordFailing(f, at, ft) ==
    LET s == Failing(f, at) IN
    /\ Checked(f, at)
    /\ \/ s.current = Healthy /\ s.failureStreak < ft
       \/ s.current = f
    /\ ms' = s
    /\ UNCHANGED incidents

RecordOpenedFault(f, at, ft) ==             \* mutant: one failure too early
    LET s == Failing(f, at) IN
    /\ Checked(f, at)
    /\ s.current = Healthy /\ s.failureStreak + 1 >= ft
    /\ ms' = [s EXCEPT !.current = f, !.since = s.failureStartedAt]
    /\ OpenIncident(s.failureStartedAt, at, f, ft)

RecordOpened(f, at, ft) ==
    LET s == Failing(f, at) IN
    /\ Checked(f, at)
    /\ s.current = Healthy /\ s.failureStreak >= ft
    /\ ms' = [s EXCEPT !.current = f, !.since = s.failureStartedAt]
    /\ OpenIncident(s.failureStartedAt, at, f, ft)

\* During an incident a different failure changes the verdict at once.
RecordChanged(f, at) ==
    LET s == Failing(f, at) IN
    /\ Checked(f, at)
    /\ s.current # Healthy /\ s.current # f
    /\ ms' = [s EXCEPT !.current = f, !.since = at]
    /\ ChangeIncident(f, at, s.current)

ResetHistoryFault ==                        \* mutant: the state row is left behind
    /\ incidents' = <<>>
    /\ log' = <<>>
    /\ UNCHANGED <<tracked, ms, clock>>

\* resetHistory deletes incidents, results and the state row in one transaction.
ResetHistory ==
    /\ tracked' = FALSE
    /\ ms' = Fresh(0)
    /\ incidents' = <<>>
    /\ log' = <<>>
    /\ UNCHANGED clock

Record(at) ==
    \/ RecordUnknown(at)
    \/ RecordHealthy(at)
    \/ \E rt \in RecoveryThresholds : RecordRecovering(at, rt) \/ RecordRecovered(at, rt)
    \/ \E f \in Failures :
          \/ \E ft \in FailureThresholds : RecordFailing(f, at, ft) \/ RecordOpened(f, at, ft)
          \/ RecordChanged(f, at)

Next == \/ /\ Len(log) < MaxChecks
           /\ \E at \in 1..MaxTime : Record(at)
        \/ ResetHistory

Spec == Init /\ [][Next]_vars

-------------------------------------------------------------------------------
(* Properties *)

TypeOK == /\ tracked \in BOOLEAN
          /\ ms \in MonitorState
          /\ incidents \in Seq(Incident)
          /\ log \in Seq([state : States, at : 1..MaxTime])
          /\ clock \in 0..MaxTime

\* The verdict and the incident table never disagree: a monitor is not healthy
\* exactly while its newest incident is unresolved, that incident's latest state
\* is the verdict, and every older one is resolved.  resolveIncident and
\* changeIncident therefore always find their row, and no result is ever lost to
\* their sql.ErrNoRows.
VerdictMatchesIncidents ==
    /\ ~tracked => incidents = <<>> /\ ms.current = Healthy
    /\ \A i \in DOMAIN incidents :
          incidents[i].resolved = NULL <=> i = Len(incidents) /\ ms.current # Healthy
    /\ ms.current # Healthy => /\ incidents # <<>>
                               /\ incidents[Len(incidents)].latest = ms.current

\* The stored counters are what a reader of check_results would count: the
\* failure streak is the run of identical failures that ends the log, it started
\* when its first result was checked, and the recovery streak of an unhealthy
\* monitor is the run of healthy results that ends the log.
StreaksCountLog ==
    LET n == Len(log)  k == ms.failureStreak  r == ms.recoveryStreak IN
    /\ n > 0 => ms.lastRaw = log[n].state
    /\ k =< n /\ (k > 0 <=> ms.lastRaw \in Failures)
    /\ \A i \in (n - k + 1)..n : log[i].state = ms.lastRaw
    /\ 0 < k /\ k < n => log[n - k].state # ms.lastRaw
    /\ k > 0 => ms.failureStartedAt = log[n - k + 1].at
    /\ r =< n /\ (ms.current = Healthy => r = 0)
    /\ \A i \in (n - r + 1)..n : log[i].state = Healthy
    /\ ms.current # Healthy => r < n /\ log[n - r].state # Healthy

\* Incidents do not overlap and follow each other in time: each one opens before
\* it is detected, is resolved after that, and the next opens no earlier.
IncidentsDisjoint ==
    \A i \in DOMAIN incidents :
        /\ incidents[i].opened =< incidents[i].detected
        /\ incidents[i].resolved # NULL => incidents[i].detected =< incidents[i].resolved
        /\ i > 1 => /\ incidents[i - 1].resolved # NULL
                    /\ incidents[i - 1].resolved =< incidents[i].opened

\* The recorded results justify each incident: there is an unbroken run of its
\* initial state that started when the incident was opened, and by the time it was
\* detected that run was as long as the failure threshold of the call that opened
\* it, whatever thresholds and other results came before or after.
IncidentsGrounded ==
    \A i \in DOMAIN incidents :
        \E first, last \in DOMAIN log :
            /\ log[first].at = incidents[i].opened
            /\ log[last].at = incidents[i].detected
            /\ \A k \in first..last : log[k].state = incidents[i].initial
            /\ first > 1 => log[first - 1].state # incidents[i].initial
            /\ last - first + 1 >= incidents[i].threshold

\* The events of an incident tell its story: it is opened with its initial state,
\* every change starts from the state the event before it ended in, the last one
\* carries the latest state or, exactly when the incident is resolved, says it
\* has recovered, and their times do not decrease.
EventsTellTheStory ==
    \A i \in DOMAIN incidents :
        LET e == incidents[i].events  n == Len(incidents[i].events) IN
        /\ n > 0
        /\ e[1].type = "opened" /\ e[1].new = incidents[i].initial
        /\ \A k \in 2..n : /\ e[k].new # e[k - 1].new
                           /\ e[k - 1].at =< e[k].at
                           /\ IF e[k].new = Healthy
                              THEN e[k].type = "recovered"
                              ELSE e[k].type = "state_changed" /\ e[k].previous = e[k - 1].new
        /\ \A k \in 1..(n - 1) : e[k].new # Healthy
        /\ IF incidents[i].resolved = NULL
           THEN e[n].new = incidents[i].latest
           ELSE e[n].new = Healthy /\ e[n].at = incidents[i].resolved
===============================================================================
