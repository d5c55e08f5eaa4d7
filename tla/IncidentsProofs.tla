---------------------------- MODULE IncidentsProofs ----------------------------
(***************************************************************************)
(* Proofs about Incidents for every set of failing states, every choice    *)
(* of thresholds from call to call, and histories of any length.  The      *)
(* invariant grows in three steps: Inv (the verdict is the incidents'),    *)
(* StreakInv (the counters count the log), and PastInv (the incidents and  *)
(* their events are grounded in the log and ordered in time).  What the    *)
(* views of IncidentViews say of the incidents follows from the last one.  *)
(***************************************************************************)
EXTENDS IncidentViews, DataLemmas, SequenceTheorems

\* The results that Record makes: StateFor is a state row whether or not the
\* table holds one.
LEMMA StateForType ==
    ASSUME TypeOK, NEW at \in 1..MaxTime
    PROVE  /\ StateFor(at) \in MonitorState
           /\ Failures \subseteq States
           /\ at \in Nat
<1>1. at \in Nat
  BY BoundAssumption
<1>2. Fresh(at) \in MonitorState
  BY <1>1 DEF Fresh, MonitorState, States
<1> QED
  BY <1>1, <1>2 DEF TypeOK, StateFor, States

LEMMA FailingType ==
    ASSUME TypeOK, NEW at \in 1..MaxTime, NEW f \in Failures
    PROVE  /\ Failing(f, at) \in MonitorState
           /\ Failing(f, at).current = StateFor(at).current
<1> DEFINE s == StateFor(at)
<1>1. s \in MonitorState /\ f \in States /\ at \in Nat
  BY StateForType
<1> DEFINE streak == IF s.lastRaw = f THEN s.failureStreak + 1 ELSE 1
           started == IF s.lastRaw = f THEN s.failureStartedAt ELSE at
<1>2. Failing(f, at) = [s EXCEPT !.recoveryStreak = 0, !.lastRaw = f,
                          !.failureStreak = streak, !.failureStartedAt = started]
  BY DEF Failing
<1>3. streak \in Nat /\ started \in Nat
  <2> HIDE DEF s
  <2> QED BY <1>1 DEF MonitorState
<1>4. Failing(f, at) \in MonitorState /\ Failing(f, at).current = s.current
  <2> DEFINE reset == [s EXCEPT !.recoveryStreak = 0, !.lastRaw = f]
  <2> HIDE DEF s, streak, started
  <2>1. reset \in MonitorState /\ reset.current = s.current
    BY <1>1 DEF MonitorState
  <2>2. Failing(f, at) = [reset EXCEPT !.failureStreak = streak, !.failureStartedAt = started]
    BY <1>2
  <2> HIDE DEF reset
  <2> QED
    BY <1>3, <2>1, <2>2 DEF MonitorState
<1> QED
  BY <1>4

LEMMA CalmType ==
    ASSUME TypeOK, NEW at \in 1..MaxTime
    PROVE  /\ Calm(at) \in MonitorState
           /\ Calm(at).current = StateFor(at).current
BY StateForType DEF Calm, MonitorState, States

-------------------------------------------------------------------------------
(* What openIncident, changeIncident and resolveIncident do to the table *)

LEMMA OpenType ==
    ASSUME incidents \in Seq(Incident), NEW opened \in Nat, NEW detected \in Nat,
           NEW f \in Failures, NEW ft \in FailureThresholds,
           OpenIncident(opened, detected, f, ft)
    PROVE  /\ incidents' \in Seq(Incident)
           /\ Len(incidents') = Len(incidents) + 1
           /\ \A i \in DOMAIN incidents : incidents'[i] = incidents[i]
           /\ incidents'[Len(incidents')].resolved = NULL
           /\ incidents'[Len(incidents')].latest = f
<1> DEFINE e == [type |-> "opened", previous |-> NoState, new |-> f, at |-> detected]
           new == [opened |-> opened, detected |-> detected, resolved |-> NULL,
                   threshold |-> ft, initial |-> f, latest |-> f, events |-> <<e>>]
<1>1. e \in Event
  BY DEF Event, States
<1>2. new \in Incident
  BY <1>1 DEF Incident, NULL
<1>3. incidents' = Append(incidents, new)
  BY DEF OpenIncident
<1> HIDE DEF new
<1>4. new.resolved = NULL /\ new.latest = f
  BY DEF new
<1> QED
  BY <1>2, <1>3, <1>4

\* Resolving and changing touch the newest unresolved incident alone.
LEMMA ResolveType ==
    ASSUME incidents \in Seq(Incident), NEW at \in Nat, ResolveIncident(at)
    PROVE  /\ incidents' \in Seq(Incident)
           /\ Len(incidents') = Len(incidents)
           /\ \E i \in DOMAIN incidents :
                /\ IsNewestOpen(i)
                /\ incidents'[i].resolved = at
                /\ \A j \in DOMAIN incidents \ {i} : incidents'[j] = incidents[j]
<1>1. PICK i \in DOMAIN incidents :
        /\ IsNewestOpen(i)
        /\ incidents' = [incidents EXCEPT
             ![i].resolved = at,
             ![i].events = Append(@, [type |-> "recovered", previous |-> NoState,
                                      new |-> Healthy, at |-> at])]
  BY DEF ResolveIncident
<1> DEFINE e == [type |-> "recovered", previous |-> NoState, new |-> Healthy, at |-> at]
           old == incidents[i]
           events == Append(old.events, e)
           new == [old EXCEPT !.resolved = at, !.events = events]
<1>2. e \in Event
  BY DEF Event, States
<1>3. old \in Incident
  BY <1>1
<1>4. events \in Seq(Event)
  BY <1>2, <1>3 DEF Incident
<1>5. new \in Incident /\ new.resolved = at
  <2> HIDE DEF old, events
  <2> QED BY <1>3, <1>4 DEF Incident
<1>6. incidents' = [incidents EXCEPT ![i] = new]
  BY <1>1
<1>7. incidents'[i] = new /\ \A j \in DOMAIN incidents \ {i} : incidents'[j] = incidents[j]
  <2> HIDE DEF new
  <2> QED BY <1>1, <1>6
<1> HIDE DEF new
<1>8. incidents' \in Seq(Incident) /\ Len(incidents') = Len(incidents)
  <2>1. i \in 1..Len(incidents)
    BY <1>1
  <2>2. /\ [incidents EXCEPT ![i] = new] \in Seq(Incident)
        /\ Len([incidents EXCEPT ![i] = new]) = Len(incidents)
    BY <2>1, <1>5, ExceptSeq
  <2> QED
    BY <2>2, <1>6
<1> QED
  BY <1>1, <1>5, <1>7, <1>8

LEMMA ChangeType ==
    ASSUME incidents \in Seq(Incident), NEW f \in Failures, NEW at \in Nat,
           NEW previous \in States, ChangeIncident(f, at, previous)
    PROVE  /\ incidents' \in Seq(Incident)
           /\ Len(incidents') = Len(incidents)
           /\ \E i \in DOMAIN incidents :
                /\ IsNewestOpen(i)
                /\ incidents'[i].resolved = incidents[i].resolved
                /\ incidents'[i].latest = f
                /\ \A j \in DOMAIN incidents \ {i} : incidents'[j] = incidents[j]
<1>1. PICK i \in DOMAIN incidents :
        /\ IsNewestOpen(i)
        /\ incidents' = [incidents EXCEPT
             ![i].latest = f,
             ![i].events = Append(@, [type |-> "state_changed", previous |-> previous,
                                      new |-> f, at |-> at])]
  BY DEF ChangeIncident
<1> DEFINE e == [type |-> "state_changed", previous |-> previous, new |-> f, at |-> at]
           old == incidents[i]
           events == Append(old.events, e)
           new == [old EXCEPT !.latest = f, !.events = events]
<1>2. e \in Event
  BY DEF Event, States
<1>3. old \in Incident
  BY <1>1
<1>4. events \in Seq(Event)
  BY <1>2, <1>3 DEF Incident
<1>5. new \in Incident /\ new.latest = f /\ new.resolved = old.resolved
  <2> HIDE DEF old, events
  <2> QED BY <1>3, <1>4 DEF Incident
<1>6. incidents' = [incidents EXCEPT ![i] = new]
  BY <1>1
<1>7. incidents'[i] = new /\ \A j \in DOMAIN incidents \ {i} : incidents'[j] = incidents[j]
  <2> HIDE DEF new
  <2> QED BY <1>1, <1>6
<1> HIDE DEF new
<1>8. incidents' \in Seq(Incident) /\ Len(incidents') = Len(incidents)
  <2>1. i \in 1..Len(incidents)
    BY <1>1
  <2>2. /\ [incidents EXCEPT ![i] = new] \in Seq(Incident)
        /\ Len([incidents EXCEPT ![i] = new]) = Len(incidents)
    BY <2>1, <1>5, ExceptSeq
  <2> QED
    BY <2>2, <1>6
<1> QED
  BY <1>1, <1>5, <1>7, <1>8

-------------------------------------------------------------------------------
(* The verdict and the incident table *)

Inv == TypeOK /\ VerdictMatchesIncidents

\* A monitor without a state row has no incident, so the row that stateFor
\* inserts carries the verdict on.
LEMMA VerdictKept ==
    ASSUME Inv, NEW at \in 1..MaxTime
    PROVE  StateFor(at).current = ms.current
BY DEF Inv, VerdictMatchesIncidents, StateFor, Fresh

\* The part of TypeOK that every branch of recordResult has in common.
LEMMA CheckedType ==
    ASSUME TypeOK, NEW at \in 1..MaxTime, NEW s \in States, Checked(s, at)
    PROVE  /\ tracked' = TRUE
           /\ log' \in Seq([state : States, at : 1..MaxTime])
           /\ clock' \in 0..MaxTime
<1>1. [state |-> s, at |-> at] \in [state : States, at : 1..MaxTime]
  OBVIOUS
<1>2. at \in 0..MaxTime
  BY BoundAssumption
<1> QED
  BY <1>1, <1>2 DEF TypeOK, Checked

\* A branch that leaves both the verdict and the incidents alone.
LEMMA QuietStep ==
    ASSUME Inv, NEW at \in 1..MaxTime, NEW s \in States, Checked(s, at),
           ms' \in MonitorState, ms'.current = ms.current, UNCHANGED incidents
    PROVE  Inv'
BY CheckedType DEF Inv, TypeOK, VerdictMatchesIncidents

LEMMA InitInv == Init => Inv
<1> SUFFICES ASSUME Init PROVE Inv
  OBVIOUS
<1>1. Fresh(0) \in MonitorState /\ Fresh(0).current = Healthy
  BY DEF Fresh, MonitorState, States
<1>2. 0 \in 0..MaxTime
  BY BoundAssumption
<1>3. TypeOK
  <2>1. incidents \in Seq(Incident) /\ log \in Seq([state : States, at : 1..MaxTime])
    BY DEF Init
  <2>2. tracked \in BOOLEAN /\ ms \in MonitorState /\ clock \in 0..MaxTime
    BY <1>1, <1>2 DEF Init
  <2> QED
    BY <2>1, <2>2 DEF TypeOK
<1>4. VerdictMatchesIncidents
  BY <1>1 DEF Init, VerdictMatchesIncidents
<1> QED
  BY <1>3, <1>4 DEF Inv

LEMMA RecoveredInv ==
    ASSUME Inv, NEW at \in 1..MaxTime, NEW rt \in RecoveryThresholds, RecordRecovered(at, rt)
    PROVE  Inv'
<1>1. TypeOK /\ at \in Nat /\ at # NULL
  BY StateForType DEF Inv, NULL
<1>2. ms' \in MonitorState /\ ms'.current = Healthy
  <2> DEFINE s == Calm(at)
  <2>1. s \in MonitorState /\ ms' = [s EXCEPT !.recoveryStreak = 0, !.current = Healthy, !.since = at]
    BY <1>1, CalmType DEF RecordRecovered
  <2> HIDE DEF s
  <2> QED
    BY <1>1, <2>1 DEF MonitorState
<1>3. /\ tracked' = TRUE
      /\ log' \in Seq([state : States, at : 1..MaxTime])
      /\ clock' \in 0..MaxTime
  BY <1>1, CheckedType DEF RecordRecovered, States
<1>4. incidents' \in Seq(Incident) /\ Len(incidents') = Len(incidents)
  BY <1>1, ResolveType DEF RecordRecovered, TypeOK
<1>5. TypeOK'
  BY <1>2, <1>3, <1>4 DEF TypeOK
<1>6. ms.current # Healthy
  BY VerdictKept DEF RecordRecovered
<1>7. PICK i \in DOMAIN incidents :
        /\ IsNewestOpen(i)
        /\ incidents'[i].resolved = at
        /\ \A j \in DOMAIN incidents \ {i} : incidents'[j] = incidents[j]
  BY <1>1, ResolveType DEF RecordRecovered, TypeOK
<1>8. i = Len(incidents)
  BY <1>6, <1>7 DEF Inv, VerdictMatchesIncidents, IsNewestOpen
<1>9. \A j \in DOMAIN incidents' : incidents'[j].resolved # NULL
  <2>1. DOMAIN incidents' = DOMAIN incidents
    BY <1>1, <1>4 DEF TypeOK
  <2>2. \A j \in DOMAIN incidents \ {i} : incidents[j].resolved # NULL
    BY <1>8 DEF Inv, VerdictMatchesIncidents
  <2> QED
    BY <1>1, <1>7, <2>1, <2>2
<1> QED
  BY <1>2, <1>3, <1>5, <1>9 DEF Inv, VerdictMatchesIncidents

LEMMA OpenedInv ==
    ASSUME Inv, NEW at \in 1..MaxTime, NEW f \in Failures, NEW ft \in FailureThresholds,
           RecordOpened(f, at, ft)
    PROVE  Inv'
<1> DEFINE s == Failing(f, at)
<1>1. TypeOK /\ at \in Nat /\ f \in States /\ f # Healthy
  BY StateForType, StateAssumption DEF Inv
<1>2. s \in MonitorState /\ s.current = ms.current
  BY <1>1, FailingType, VerdictKept
<1>3. /\ ms' = [s EXCEPT !.current = f, !.since = s.failureStartedAt]
      /\ ms.current = Healthy
      /\ OpenIncident(s.failureStartedAt, at, f, ft)
  BY <1>2 DEF RecordOpened
<1> HIDE DEF s
<1>4. ms' \in MonitorState /\ ms'.current = f /\ s.failureStartedAt \in Nat
  BY <1>2, <1>3 DEF MonitorState
<1>5. /\ tracked' = TRUE
      /\ log' \in Seq([state : States, at : 1..MaxTime])
      /\ clock' \in 0..MaxTime
  BY <1>1, CheckedType DEF RecordOpened
<1>6. /\ incidents' \in Seq(Incident)
      /\ Len(incidents') = Len(incidents) + 1
      /\ \A i \in DOMAIN incidents : incidents'[i] = incidents[i]
      /\ incidents'[Len(incidents')].resolved = NULL
      /\ incidents'[Len(incidents')].latest = f
  BY <1>1, <1>3, <1>4, OpenType DEF TypeOK
<1>7. TypeOK'
  BY <1>4, <1>5, <1>6 DEF TypeOK
<1>8. \A i \in DOMAIN incidents : incidents[i].resolved # NULL
  BY <1>3 DEF Inv, VerdictMatchesIncidents
<1>9. \A i \in DOMAIN incidents' : incidents'[i].resolved = NULL <=> i = Len(incidents')
  BY <1>1, <1>6, <1>8 DEF TypeOK
<1>10. incidents' # <<>>
  BY <1>1, <1>6 DEF TypeOK
<1> QED
  BY <1>1, <1>4, <1>5, <1>6, <1>7, <1>9, <1>10 DEF Inv, VerdictMatchesIncidents

LEMMA ChangedInv ==
    ASSUME Inv, NEW at \in 1..MaxTime, NEW f \in Failures, RecordChanged(f, at)
    PROVE  Inv'
<1> DEFINE s == Failing(f, at)
<1>1. TypeOK /\ at \in Nat /\ f \in States /\ f # Healthy
  BY StateForType, StateAssumption DEF Inv
<1>2. s \in MonitorState /\ s.current = ms.current
  BY <1>1, FailingType, VerdictKept
<1>3. /\ ms' = [s EXCEPT !.current = f, !.since = at]
      /\ ms.current # Healthy
      /\ ChangeIncident(f, at, s.current)
  BY <1>2 DEF RecordChanged
<1> HIDE DEF s
<1>4. ms' \in MonitorState /\ ms'.current = f /\ s.current \in States
  BY <1>1, <1>2, <1>3 DEF MonitorState, States
<1>5. /\ tracked' = TRUE
      /\ log' \in Seq([state : States, at : 1..MaxTime])
      /\ clock' \in 0..MaxTime
  BY <1>1, CheckedType DEF RecordChanged
<1>6. incidents' \in Seq(Incident) /\ Len(incidents') = Len(incidents)
  BY <1>1, <1>3, <1>4, ChangeType DEF TypeOK
<1>7. PICK i \in DOMAIN incidents :
        /\ IsNewestOpen(i)
        /\ incidents'[i].resolved = incidents[i].resolved
        /\ incidents'[i].latest = f
        /\ \A j \in DOMAIN incidents \ {i} : incidents'[j] = incidents[j]
  BY <1>1, <1>3, <1>4, ChangeType DEF TypeOK
<1>8. TypeOK'
  BY <1>4, <1>5, <1>6 DEF TypeOK
<1>9. i = Len(incidents)
  BY <1>3, <1>7 DEF Inv, VerdictMatchesIncidents, IsNewestOpen
<1>10. \A j \in DOMAIN incidents' : incidents'[j].resolved = NULL <=> j = Len(incidents')
  BY <1>1, <1>3, <1>6, <1>7 DEF Inv, TypeOK, VerdictMatchesIncidents
<1>11. incidents' # <<>> /\ incidents'[Len(incidents')].latest = f
  BY <1>1, <1>6, <1>7, <1>9 DEF TypeOK
<1> QED
  BY <1>1, <1>4, <1>5, <1>8, <1>10, <1>11 DEF Inv, VerdictMatchesIncidents

LEMMA RecordInv ==
    ASSUME Inv, NEW at \in 1..MaxTime, Record(at)
    PROVE  Inv'
<1>1. TypeOK /\ at \in Nat /\ Failures \subseteq States /\ Healthy \in States /\ Unknown \in States
  BY StateForType DEF Inv, States
<1>2. Calm(at) \in MonitorState /\ Calm(at).current = ms.current
  BY <1>1, CalmType, VerdictKept
<1>3. CASE RecordUnknown(at)
  <2> DEFINE s == StateFor(at)
  <2>1. s \in MonitorState /\ s.current = ms.current
    BY <1>1, StateForType, VerdictKept
  <2>2. /\ ms' = [s EXCEPT !.failureStreak = 0, !.failureStartedAt = 0,
                           !.recoveryStreak = 0, !.lastRaw = Unknown]
        /\ Checked(Unknown, at) /\ UNCHANGED incidents
    BY <1>3 DEF RecordUnknown
  <2> HIDE DEF s
  <2>3. ms' \in MonitorState /\ ms'.current = ms.current
    BY <1>1, <2>1, <2>2 DEF MonitorState
  <2> QED
    BY <1>1, <2>2, <2>3, QuietStep
<1>4. CASE RecordHealthy(at)
  <2> DEFINE s == Calm(at)
  <2>1. ms' = [s EXCEPT !.recoveryStreak = 0] /\ Checked(Healthy, at) /\ UNCHANGED incidents
    BY <1>4 DEF RecordHealthy
  <2>2. s \in MonitorState /\ s.current = ms.current
    BY <1>2
  <2> HIDE DEF s
  <2>3. ms' \in MonitorState /\ ms'.current = ms.current
    BY <2>1, <2>2 DEF MonitorState
  <2> QED
    BY <1>1, <2>1, <2>3, QuietStep
<1>5. ASSUME NEW rt \in RecoveryThresholds, RecordRecovering(at, rt) PROVE Inv'
  <2> DEFINE s == Calm(at)
             r == StateFor(at).recoveryStreak
  <2>1. ms' = [s EXCEPT !.recoveryStreak = r + 1] /\ Checked(Healthy, at) /\ UNCHANGED incidents
    BY <1>5 DEF RecordRecovering
  <2>2. s \in MonitorState /\ s.current = ms.current /\ r \in Nat
    BY <1>1, <1>2, StateForType DEF MonitorState
  <2> HIDE DEF s, r
  <2>3. ms' \in MonitorState /\ ms'.current = ms.current
    BY <2>1, <2>2 DEF MonitorState
  <2> QED
    BY <1>1, <2>1, <2>3, QuietStep
<1>6. ASSUME NEW f \in Failures, NEW ft \in FailureThresholds, RecordFailing(f, at, ft)
      PROVE  Inv'
  <2>1. ms' = Failing(f, at) /\ Checked(f, at) /\ UNCHANGED incidents
    BY <1>6 DEF RecordFailing
  <2>2. ms' \in MonitorState /\ ms'.current = ms.current
    BY <1>1, <2>1, FailingType, VerdictKept
  <2> QED
    BY <1>1, <2>1, <2>2, QuietStep
<1> QED
  BY <1>3, <1>4, <1>5, <1>6, RecoveredInv, OpenedInv, ChangedInv DEF Record

LEMMA NextInv == Inv /\ [Next]_vars => Inv'
<1> SUFFICES ASSUME Inv, [Next]_vars PROVE Inv'
  OBVIOUS
<1>1. CASE Next
  <2>1. CASE ResetHistory
    <3>1. Fresh(0) \in MonitorState /\ Fresh(0).current = Healthy
      BY DEF Fresh, MonitorState, States
    <3>2. TypeOK'
      <4>1. incidents' \in Seq(Incident) /\ log' \in Seq([state : States, at : 1..MaxTime])
        BY <2>1 DEF ResetHistory
      <4>2. tracked' \in BOOLEAN /\ ms' \in MonitorState /\ clock' \in 0..MaxTime
        BY <2>1, <3>1 DEF ResetHistory, Inv, TypeOK
      <4> QED
        BY <4>1, <4>2 DEF TypeOK
    <3>3. VerdictMatchesIncidents'
      BY <2>1, <3>1 DEF ResetHistory, VerdictMatchesIncidents
    <3> QED
      BY <3>2, <3>3 DEF Inv
  <2>2. ASSUME NEW at \in 1..MaxTime, Record(at) PROVE Inv'
    BY <2>2, RecordInv
  <2> QED
    BY <1>1, <2>1, <2>2 DEF Next
<1>2. CASE UNCHANGED vars
  BY <1>2 DEF vars, Inv, TypeOK, VerdictMatchesIncidents
<1> QED
  BY <1>1, <1>2

\* Inv is inductive.
THEOREM InvAlways == Spec => []Inv
BY InitInv, NextInv, PTL DEF Spec

\* Types, for monitor_states, incidents, incident_events and check_results as
\* recordResult and resetHistory leave them.
THEOREM TypeCorrect == Spec => []TypeOK
<1>1. Inv => TypeOK
  BY DEF Inv
<1> QED
  BY <1>1, InvAlways, PTL

\* The verdict that recordResult stores and the incidents it opens, changes and
\* resolves never disagree, whatever the thresholds and however they change.
THEOREM VerdictIsTheIncidents == Spec => []VerdictMatchesIncidents
<1>1. Inv => VerdictMatchesIncidents
  BY DEF Inv
<1> QED
  BY <1>1, InvAlways, PTL

-------------------------------------------------------------------------------
(* The streak counters and the recorded results *)

Result == [state : States, at : 1..MaxTime]

\* StreaksCountLog, for any state row and any log.
FailureStreakIs(raw, k, started, l) ==
    LET n == Len(l) IN
    /\ n > 0 => raw = l[n].state
    /\ k =< n /\ (k > 0 <=> raw \in Failures)
    /\ \A i \in (n - k + 1)..n : l[i].state = raw
    /\ 0 < k /\ k < n => l[n - k].state # raw
    /\ k > 0 => started = l[n - k + 1].at

RecoveryStreakIs(current, r, l) ==
    LET n == Len(l) IN
    /\ r =< n /\ (current = Healthy => r = 0)
    /\ \A i \in (n - r + 1)..n : l[i].state = Healthy
    /\ current # Healthy => r < n /\ l[n - r].state # Healthy

Streaks(s, l) == /\ FailureStreakIs(s.lastRaw, s.failureStreak, s.failureStartedAt, l)
                 /\ RecoveryStreakIs(s.current, s.recoveryStreak, l)

\* A healthy or unknown result ends the failure streak.
LEMMA NoFailure ==
    ASSUME NEW l \in Seq(Result), NEW x \in Result, x.state \notin Failures, NEW started
    PROVE  FailureStreakIs(x.state, 0, started, Append(l, x))
BY DEF FailureStreakIs, Result

\* A failure continues the streak of its own kind or starts one.
LEMMA FailureCounted ==
    ASSUME NEW l \in Seq(Result), NEW x \in Result, x.state \in Failures,
           NEW raw, NEW k \in Nat, NEW started, FailureStreakIs(raw, k, started, l)
    PROVE  FailureStreakIs(x.state, IF raw = x.state THEN k + 1 ELSE 1,
                           IF raw = x.state THEN started ELSE x.at, Append(l, x))
<1> DEFINE m == Append(l, x)
           n == Len(l)
<1>1. Len(m) = n + 1 /\ m[n + 1] = x /\ n \in Nat /\ \A i \in 1..n : m[i] = l[i]
  OBVIOUS
<1> HIDE DEF m
<1>2. CASE raw = x.state
  <2>1. k > 0 /\ k =< n /\ n - k + 1 \in 1..n
    BY <1>1, <1>2 DEF FailureStreakIs
  <2>2. ASSUME NEW i \in (Len(m) - (k + 1) + 1)..Len(m) PROVE m[i].state = x.state
    <3>1. i = n + 1 \/ (i \in (n - k + 1)..n /\ i \in 1..n)
      BY <1>1, <2>1
    <3> QED
      BY <1>1, <1>2, <3>1 DEF FailureStreakIs
  <2>3. k + 1 < Len(m) => m[Len(m) - (k + 1)].state # x.state
    BY <1>1, <1>2, <2>1 DEF FailureStreakIs
  <2>4. started = m[Len(m) - (k + 1) + 1].at
    BY <1>1, <1>2, <2>1 DEF FailureStreakIs
  <2>5. x.state = m[Len(m)].state /\ k + 1 =< Len(m) /\ k + 1 > 0
    BY <1>1, <2>1
  <2>6. FailureStreakIs(x.state, k + 1, started, m)
    BY <2>2, <2>3, <2>4, <2>5 DEF FailureStreakIs
  <2> QED
    BY <1>2, <2>6 DEF m
<1>3. CASE raw # x.state
  <2>1. 1 < n + 1 => m[n].state # x.state
    BY <1>1, <1>3 DEF FailureStreakIs
  <2>2. FailureStreakIs(x.state, 1, x.at, m)
    BY <1>1, <2>1 DEF FailureStreakIs
  <2> QED
    BY <1>3, <2>2 DEF m
<1> QED
  BY <1>2, <1>3

\* Anything but a healthy result ends the recovery streak.
LEMMA NoRecovery ==
    ASSUME NEW l \in Seq(Result), NEW x \in Result, NEW current,
           x.state # Healthy \/ current = Healthy
    PROVE  RecoveryStreakIs(current, 0, Append(l, x))
BY DEF RecoveryStreakIs, Result

\* A healthy result of an unhealthy monitor continues the streak.
LEMMA RecoveryCounted ==
    ASSUME NEW l \in Seq(Result), NEW x \in Result, x.state = Healthy,
           NEW current, current # Healthy, NEW r \in Nat, RecoveryStreakIs(current, r, l)
    PROVE  RecoveryStreakIs(current, r + 1, Append(l, x))
<1> DEFINE m == Append(l, x)
           n == Len(l)
<1>1. Len(m) = n + 1 /\ m[n + 1] = x /\ n \in Nat /\ \A i \in 1..n : m[i] = l[i]
  OBVIOUS
<1> HIDE DEF m
<1>2. r < n /\ n - r \in 1..n
  BY <1>1 DEF RecoveryStreakIs
<1>3. ASSUME NEW i \in (n + 1 - (r + 1) + 1)..(n + 1) PROVE m[i].state = Healthy
  <2>1. i = n + 1 \/ (i \in (n - r + 1)..n /\ i \in 1..n)
    BY <1>1, <1>2
  <2> QED
    BY <1>1, <2>1 DEF RecoveryStreakIs
<1>4. m[n + 1 - (r + 1)].state # Healthy
  BY <1>1, <1>2 DEF RecoveryStreakIs
<1>5. RecoveryStreakIs(current, r + 1, m)
  BY <1>1, <1>2, <1>3, <1>4 DEF RecoveryStreakIs
<1> QED
  BY <1>5 DEF m

\* A monitor without a state row has no results either.
StreakInv == /\ Inv
             /\ ~tracked => log = <<>>
             /\ StreaksCountLog

LEMMA StreaksAreThese == StreaksCountLog <=> Streaks(ms, log)
BY DEF StreaksCountLog, Streaks, FailureStreakIs, RecoveryStreakIs

LEMMA FreshStreaks == ASSUME NEW at PROVE Streaks(Fresh(at), <<>>)
BY StateAssumption DEF Streaks, Fresh, FailureStreakIs, RecoveryStreakIs

\* What recordResult starts from.
LEMMA StateForStreaks ==
    ASSUME StreakInv, NEW at \in 1..MaxTime
    PROVE  /\ Streaks(StateFor(at), log)
           /\ StateFor(at) \in MonitorState
           /\ log \in Seq(Result)
<1>1. CASE tracked
  BY <1>1, StreaksAreThese, StateForType DEF StreakInv, Inv, TypeOK, StateFor, Result
<1>2. CASE ~tracked
  BY <1>2, FreshStreaks, StateForType DEF StreakInv, Inv, TypeOK, StateFor, Result
<1> QED
  BY <1>1, <1>2

\* A result x turns the state row s into the next one: the failure streak
\* restarts, ends or goes on, and the recovery streak ends or goes on.
LEMMA RecordStreaks ==
    ASSUME StreakInv, NEW at \in 1..MaxTime, Record(at)
    PROVE  Streaks(ms', log')
<1> DEFINE s == StateFor(at)
<1>1. s \in MonitorState /\ Streaks(s, log) /\ log \in Seq(Result)
  BY StateForStreaks
<1>2. Failures \subseteq States /\ Healthy \in States /\ Unknown \in States /\ Healthy # Unknown
  BY DEF States, Healthy, Unknown
<1>3. ASSUME NEW x \in States PROVE [state |-> x, at |-> at] \in Result
  BY DEF Result
<1>4. CASE RecordUnknown(at)
  <2> DEFINE x == [state |-> Unknown, at |-> at]
  <2>1. /\ ms' = [s EXCEPT !.failureStreak = 0, !.failureStartedAt = 0,
                           !.recoveryStreak = 0, !.lastRaw = Unknown]
        /\ log' = Append(log, x)
    BY <1>4 DEF RecordUnknown, Checked
  <2>2. x \in Result /\ x.state = Unknown
    BY <1>2, <1>3
  <2> HIDE DEF s, x
  <2>3. /\ ms'.lastRaw = Unknown /\ ms'.failureStreak = 0
        /\ ms'.current = s.current /\ ms'.recoveryStreak = 0
    BY <1>1, <2>1 DEF MonitorState
  <2>4. FailureStreakIs(Unknown, 0, ms'.failureStartedAt, Append(log, x))
    BY <1>1, <2>2, NoFailure, StateAssumption
  <2>5. RecoveryStreakIs(s.current, 0, Append(log, x))
    BY <1>1, <1>2, <2>2, NoRecovery
  <2> QED
    BY <2>1, <2>3, <2>4, <2>5 DEF Streaks
<1>5. ASSUME Checked(Healthy, at), ms'.lastRaw = Healthy, ms'.failureStreak = 0,
             \/ ms'.current = Healthy /\ ms'.recoveryStreak = 0
             \/ /\ s.current # Healthy /\ ms'.current = s.current
                /\ ms'.recoveryStreak = s.recoveryStreak + 1
      PROVE  Streaks(ms', log')
  <2> DEFINE x == [state |-> Healthy, at |-> at]
  <2>1. log' = Append(log, x)
    BY <1>5 DEF Checked
  <2>2. x \in Result /\ x.state = Healthy
    BY <1>2, <1>3
  <2> HIDE DEF s, x
  <2>3. FailureStreakIs(Healthy, 0, ms'.failureStartedAt, Append(log, x))
    BY <1>1, <2>2, NoFailure, StateAssumption
  <2>4. RecoveryStreakIs(ms'.current, ms'.recoveryStreak, Append(log, x))
    <3>1. CASE ms'.current = Healthy /\ ms'.recoveryStreak = 0
      BY <1>1, <2>2, <3>1, NoRecovery
    <3>2. CASE /\ s.current # Healthy /\ ms'.current = s.current
               /\ ms'.recoveryStreak = s.recoveryStreak + 1
      <4>1. s.recoveryStreak \in Nat /\ RecoveryStreakIs(s.current, s.recoveryStreak, log)
        BY <1>1 DEF MonitorState, Streaks
      <4> QED
        BY <1>1, <2>2, <3>2, <4>1, RecoveryCounted
    <3> QED
      BY <1>5, <3>1, <3>2
  <2> QED
    BY <1>5, <2>1, <2>3, <2>4 DEF Streaks
<1>6. CASE \/ RecordHealthy(at)
           \/ \E rt \in RecoveryThresholds : RecordRecovering(at, rt) \/ RecordRecovered(at, rt)
  <2> DEFINE c == Calm(at)
  <2>1. /\ c \in MonitorState /\ c.current = s.current
        /\ c.lastRaw = Healthy /\ c.failureStreak = 0
    <3>1. c = [s EXCEPT !.failureStreak = 0, !.failureStartedAt = 0, !.lastRaw = Healthy]
      BY DEF Calm
    <3> HIDE DEF s, c
    <3> QED
      BY <1>1, <1>2, <3>1 DEF MonitorState
  <2>2. CASE RecordHealthy(at)
    <3>1. Checked(Healthy, at) /\ s.current = Healthy /\ ms' = [c EXCEPT !.recoveryStreak = 0]
      BY <2>2 DEF RecordHealthy
    <3>2. /\ ms'.lastRaw = Healthy /\ ms'.failureStreak = 0
          /\ ms'.current = Healthy /\ ms'.recoveryStreak = 0
      <4> HIDE DEF c, s
      <4> QED BY <2>1, <3>1 DEF MonitorState
    <3> QED
      BY <1>5, <3>1, <3>2
  <2>3. ASSUME NEW rt \in RecoveryThresholds, RecordRecovering(at, rt)
        PROVE  Streaks(ms', log')
    <3>1. /\ Checked(Healthy, at) /\ s.current # Healthy
          /\ ms' = [c EXCEPT !.recoveryStreak = s.recoveryStreak + 1]
      BY <2>3 DEF RecordRecovering
    <3>2. /\ ms'.lastRaw = Healthy /\ ms'.failureStreak = 0
          /\ ms'.current = s.current /\ ms'.recoveryStreak = s.recoveryStreak + 1
      <4> HIDE DEF c, s
      <4> QED BY <2>1, <3>1 DEF MonitorState
    <3> QED
      BY <1>5, <3>1, <3>2
  <2>4. ASSUME NEW rt \in RecoveryThresholds, RecordRecovered(at, rt)
        PROVE  Streaks(ms', log')
    <3>1. /\ Checked(Healthy, at)
          /\ ms' = [c EXCEPT !.recoveryStreak = 0, !.current = Healthy, !.since = at]
      BY <2>4 DEF RecordRecovered
    <3>2. /\ ms'.lastRaw = Healthy /\ ms'.failureStreak = 0
          /\ ms'.current = Healthy /\ ms'.recoveryStreak = 0
      <4> HIDE DEF c, s
      <4> QED BY <2>1, <3>1 DEF MonitorState
    <3> QED
      BY <1>5, <3>1, <3>2
  <2> QED
    BY <1>6, <2>2, <2>3, <2>4
<1>7. ASSUME NEW f \in Failures,
             \/ \E ft \in FailureThresholds : RecordFailing(f, at, ft) \/ RecordOpened(f, at, ft)
             \/ RecordChanged(f, at)
      PROVE  Streaks(ms', log')
  <2> DEFINE x == [state |-> f, at |-> at]
             e == Failing(f, at)
             k == IF s.lastRaw = f THEN s.failureStreak + 1 ELSE 1
             t == IF s.lastRaw = f THEN s.failureStartedAt ELSE at
  <2>1. /\ e \in MonitorState /\ e.lastRaw = f /\ e.recoveryStreak = 0
        /\ e.failureStreak = k /\ e.failureStartedAt = t
    <3>1. e \in MonitorState
      BY FailingType DEF StreakInv, Inv
    <3>2. e = [s EXCEPT !.recoveryStreak = 0, !.lastRaw = f,
                        !.failureStreak = k, !.failureStartedAt = t]
      BY DEF Failing
    <3> HIDE DEF s, e, k, t
    <3> QED
      BY <1>1, <3>1, <3>2 DEF MonitorState
  <2>2. x \in Result /\ x.state = f /\ x.at = at /\ f # Healthy
    BY <1>2, <1>3, StateAssumption
  <2>3. \/ ms' = e
        \/ ms' = [e EXCEPT !.current = f, !.since = e.failureStartedAt]
        \/ ms' = [e EXCEPT !.current = f, !.since = at]
    BY <1>7 DEF RecordFailing, RecordOpened, RecordChanged
  <2>4. log' = Append(log, x)
    BY <1>7 DEF RecordFailing, RecordOpened, RecordChanged, Checked
  <2>5. /\ ms'.lastRaw = f /\ ms'.recoveryStreak = 0
        /\ ms'.failureStreak = k /\ ms'.failureStartedAt = t
    <3> HIDE DEF s, e, k, t
    <3> QED BY <2>1, <2>3 DEF MonitorState
  <2>6. FailureStreakIs(f, k, t, Append(log, x))
    <3>1. s.failureStreak \in Nat /\ FailureStreakIs(s.lastRaw, s.failureStreak, s.failureStartedAt, log)
      BY <1>1 DEF MonitorState, Streaks
    <3> HIDE DEF s, x
    <3> QED
      BY <1>1, <2>2, <3>1, FailureCounted
  <2>7. RecoveryStreakIs(ms'.current, 0, Append(log, x))
    BY <1>1, <2>2, NoRecovery
  <2> QED
    BY <2>4, <2>5, <2>6, <2>7 DEF Streaks
<1> QED
  BY <1>4, <1>6, <1>7 DEF Record

LEMMA InitStreaks == Init => StreakInv
<1> SUFFICES ASSUME Init PROVE StreakInv
  OBVIOUS
<1>1. Streaks(ms, log)
  BY FreshStreaks DEF Init
<1> QED
  BY <1>1, InitInv, StreaksAreThese DEF Init, StreakInv

LEMMA NextStreaks == StreakInv /\ [Next]_vars => StreakInv'
<1> SUFFICES ASSUME StreakInv, [Next]_vars PROVE StreakInv'
  OBVIOUS
<1>1. Inv'
  BY NextInv DEF StreakInv
<1>2. (~tracked => log = <<>>)' /\ Streaks(ms', log')
  <2>1. CASE ResetHistory
    BY <2>1, FreshStreaks DEF ResetHistory
  <2>2. ASSUME NEW at \in 1..MaxTime, Record(at)
        PROVE  (~tracked => log = <<>>)' /\ Streaks(ms', log')
    <3>1. tracked' = TRUE
      BY <2>2 DEF Record, RecordUnknown, RecordHealthy, RecordRecovering, RecordRecovered,
                  RecordFailing, RecordOpened, RecordChanged, Checked
    <3> QED
      BY <2>2, <3>1, RecordStreaks
  <2>3. CASE UNCHANGED vars
    BY <2>3, StreaksAreThese DEF vars, StreakInv
  <2> QED
    BY <2>1, <2>2, <2>3 DEF Next
<1>3. StreaksCountLog'
  BY <1>2 DEF StreaksCountLog, Streaks, FailureStreakIs, RecoveryStreakIs
<1> QED
  BY <1>1, <1>2, <1>3 DEF StreakInv

\* The counters that recordResult keeps in monitor_states count the recorded
\* results, for any history of results, thresholds and resets.
THEOREM StreaksAreCounted == Spec => []StreaksCountLog
<1>1. StreakInv => StreaksCountLog
  BY DEF StreakInv
<1> QED
  BY <1>1, InitStreaks, NextStreaks, PTL DEF Spec

-------------------------------------------------------------------------------
(* The history of the incidents: their order in time, the results they rest on  *)
(* and the story of their events                                                *)

\* Nothing is later than the last result.
IncidentsTimed ==
    \A i \in DOMAIN incidents :
        LET e == incidents[i].events IN
        /\ incidents[i].detected =< clock /\ incidents[i].resolved =< clock
        /\ e[Len(e)].at =< clock

\* A failure streak of a healthy monitor began after the last incident was resolved.
RowTimed ==
    ms.lastRaw \in Failures =>
        /\ ms.failureStartedAt =< clock
        /\ ms.current = Healthy =>
              \A i \in DOMAIN incidents : incidents[i].resolved =< ms.failureStartedAt

Past == IncidentsTimed /\ RowTimed /\ IncidentsDisjoint /\ EventsTellTheStory /\ IncidentsGrounded
PastInv == StreakInv /\ Past

LEMMA FailingFields ==
    ASSUME TypeOK, NEW at \in 1..MaxTime, NEW f \in Failures
    PROVE  LET s == StateFor(at) IN
           /\ Failing(f, at).lastRaw = f
           /\ Failing(f, at).failureStreak = IF s.lastRaw = f THEN s.failureStreak + 1 ELSE 1
           /\ Failing(f, at).failureStartedAt = IF s.lastRaw = f THEN s.failureStartedAt ELSE at
<1> DEFINE s == StateFor(at)
           e == Failing(f, at)
           k == IF s.lastRaw = f THEN s.failureStreak + 1 ELSE 1
           t == IF s.lastRaw = f THEN s.failureStartedAt ELSE at
<1>1. s \in MonitorState
  BY StateForType
<1>2. e = [s EXCEPT !.recoveryStreak = 0, !.lastRaw = f, !.failureStreak = k, !.failureStartedAt = t]
  BY DEF Failing
<1>3. e.lastRaw = f /\ e.failureStreak = k /\ e.failureStartedAt = t
  <2> HIDE DEF s, e, k, t
  <2> QED BY <1>1, <1>2 DEF MonitorState
<1> QED
  BY <1>3

\* The row after a failure: when its streak began.
LEMMA FailedRow ==
    ASSUME TypeOK, NEW at \in 1..MaxTime, NEW f \in Failures,
           \/ \E ft \in FailureThresholds : RecordFailing(f, at, ft) \/ RecordOpened(f, at, ft)
           \/ RecordChanged(f, at)
    PROVE  /\ Checked(f, at)
           /\ ms'.lastRaw = f
           /\ ms'.failureStartedAt = Failing(f, at).failureStartedAt
<1> DEFINE e == Failing(f, at)
<1>1. e \in MonitorState /\ e.lastRaw = f
  BY FailingType, FailingFields
<1>2. \/ ms' = e
      \/ ms' = [e EXCEPT !.current = f, !.since = e.failureStartedAt]
      \/ ms' = [e EXCEPT !.current = f, !.since = at]
  BY DEF RecordFailing, RecordOpened, RecordChanged
<1>3. Checked(f, at)
  BY DEF RecordFailing, RecordOpened, RecordChanged
<1> HIDE DEF e
<1>4. ms'.lastRaw = f /\ ms'.failureStartedAt = e.failureStartedAt
  BY <1>1, <1>2 DEF MonitorState
<1> QED
  BY <1>3, <1>4 DEF e

\* That streak is not later than the result, and not earlier than any incident
\* that was resolved before.
LEMMA StreakBegan ==
    ASSUME PastInv, NEW at \in 1..MaxTime, NEW f \in Failures, at >= clock
    PROVE  LET t == Failing(f, at).failureStartedAt IN
           /\ t \in Nat /\ t =< at
           /\ StateFor(at).current = Healthy =>
                 \A i \in DOMAIN incidents : incidents[i].resolved =< t
<1> DEFINE t == Failing(f, at).failureStartedAt
           s == StateFor(at)
<1>1. TypeOK /\ Inv
  BY DEF PastInv, StreakInv, Inv
<1>2. Failing(f, at) \in MonitorState /\ at \in Nat /\ s.current = ms.current
  BY <1>1, FailingType, StateForType, VerdictKept
<1>3. t \in Nat
  BY <1>2 DEF MonitorState
<1>4. t = IF s.lastRaw = f THEN s.failureStartedAt ELSE at
  BY <1>1, FailingFields
<1>5. clock \in Nat /\ \A i \in DOMAIN incidents : incidents[i].resolved \in Nat
  <2>1. clock \in Nat
    BY <1>1, BoundAssumption DEF TypeOK
  <2>2. \A i \in DOMAIN incidents : incidents[i] \in Incident
    BY <1>1 DEF TypeOK
  <2> QED
    BY <2>1, <2>2 DEF Incident
<1>6. CASE s.lastRaw = f
  <2>1. s = ms
    BY <1>6, StateAssumption DEF StateFor, Fresh
  <2> QED
    BY <1>2, <1>3, <1>4, <1>5, <1>6, <2>1 DEF PastInv, Past, IncidentsTimed, RowTimed
<1>7. CASE s.lastRaw # f
  BY <1>2, <1>3, <1>4, <1>5, <1>7 DEF PastInv, Past, IncidentsTimed, RowTimed
<1> HIDE DEF t, s
<1> QED
  BY <1>3, <1>6, <1>7 DEF t, s

\* The results an incident rests on stay when others are appended.
GroundedIn(incident, l) ==
    \E first, last \in DOMAIN l :
        /\ l[first].at = incident.opened
        /\ l[last].at = incident.detected
        /\ \A k \in first..last : l[k].state = incident.initial
        /\ first > 1 => l[first - 1].state # incident.initial
        /\ last - first + 1 >= incident.threshold

LEMMA GroundedStays ==
    ASSUME NEW incident, NEW l \in Seq(Result), NEW x \in Result, GroundedIn(incident, l)
    PROVE  GroundedIn(incident, Append(l, x))
<1> DEFINE m == Append(l, x)
<1>1. DOMAIN l \subseteq DOMAIN m /\ DOMAIN l = 1..Len(l) /\ \A i \in DOMAIN l : m[i] = l[i]
  OBVIOUS
<1> HIDE DEF m
<1>2. PICK first \in DOMAIN l, last \in DOMAIN l :
        /\ l[first].at = incident.opened
        /\ l[last].at = incident.detected
        /\ \A k \in first..last : l[k].state = incident.initial
        /\ first > 1 => l[first - 1].state # incident.initial
        /\ last - first + 1 >= incident.threshold
  BY DEF GroundedIn
<1>3. \A k \in first..last : k \in DOMAIN l
  BY <1>1
<1>4. first > 1 => first - 1 \in DOMAIN l
  BY <1>1
<1>5. GroundedIn(incident, m)
  BY <1>1, <1>2, <1>3, <1>4 DEF GroundedIn
<1> QED
  BY <1>5 DEF m

\* The story of one incident.
Tells(i) ==
    LET e == i.events  n == Len(i.events) IN
    /\ n > 0
    /\ e[1].type = "opened" /\ e[1].new = i.initial
    /\ \A k \in 2..n : /\ e[k].new # e[k - 1].new
                       /\ e[k - 1].at =< e[k].at
                       /\ IF e[k].new = Healthy
                          THEN e[k].type = "recovered"
                          ELSE e[k].type = "state_changed" /\ e[k].previous = e[k - 1].new
    /\ \A k \in 1..(n - 1) : e[k].new # Healthy
    /\ IF i.resolved = NULL
       THEN e[n].new = i.latest
       ELSE e[n].new = Healthy /\ e[n].at = i.resolved

\* An event that changes or resolves an unresolved incident continues its story.
LEMMA StoryGoesOn ==
    ASSUME NEW old \in Incident, NEW new, NEW e \in Event,
           Tells(old), old.resolved = NULL, old.latest # Healthy,
           old.events[Len(old.events)].at =< e.at,
           new.events = Append(old.events, e), new.initial = old.initial,
           e.new # old.latest,
           \/ /\ e.type = "recovered" /\ e.new = Healthy
              /\ new.resolved = e.at /\ new.resolved # NULL
           \/ /\ e.type = "state_changed" /\ e.new # Healthy /\ e.previous = old.latest
              /\ new.resolved = NULL /\ new.latest = e.new
    PROVE  Tells(new)
<1> DEFINE es == new.events
           n == Len(old.events)
<1>1. /\ Len(es) = n + 1 /\ es[n + 1] = e /\ n \in Nat
      /\ \A k \in 1..n : es[k] = old.events[k]
  BY DEF Incident
<1>2. n > 0 /\ old.events[n].new = old.latest
  BY DEF Tells
<1>3. es[1].type = "opened" /\ es[1].new = new.initial
  BY <1>1, <1>2 DEF Tells
<1>4. ASSUME NEW k \in 2..(n + 1)
      PROVE  /\ es[k].new # es[k - 1].new
             /\ es[k - 1].at =< es[k].at
             /\ IF es[k].new = Healthy
                THEN es[k].type = "recovered"
                ELSE es[k].type = "state_changed" /\ es[k].previous = es[k - 1].new
  <2>1. CASE k = n + 1
    <3>1. es[k] = e /\ es[k - 1] = old.events[n]
      BY <1>1, <1>2, <2>1
    <3> HIDE DEF es
    <3> QED
      BY <1>2, <3>1
  <2>2. CASE k # n + 1
    <3>1. k \in 2..n /\ es[k] = old.events[k] /\ es[k - 1] = old.events[k - 1]
      BY <1>1, <2>2
    <3> HIDE DEF es
    <3> QED
      BY <3>1 DEF Tells
  <2> QED
    BY <2>1, <2>2
<1>5. \A k \in 1..n : es[k].new # Healthy
  BY <1>1, <1>2 DEF Tells
<1>6. IF new.resolved = NULL
      THEN es[n + 1].new = new.latest
      ELSE es[n + 1].new = Healthy /\ es[n + 1].at = new.resolved
  BY <1>1
<1> HIDE DEF n
<1>7. Len(new.events) = n + 1 /\ n + 1 > 0 /\ (n + 1) - 1 = n
  BY <1>1, <1>2
<1> QED
  BY <1>3, <1>4, <1>5, <1>6, <1>7 DEF Tells

\* What resolving and changing do to the newest incident.
LEMMA ResolvedRow ==
    ASSUME Inv, NEW at \in Nat, ms.current # Healthy, ResolveIncident(at)
    PROVE  LET n == Len(incidents)
               e == [type |-> "recovered", previous |-> NoState, new |-> Healthy, at |-> at] IN
           /\ n \in DOMAIN incidents /\ DOMAIN incidents' = DOMAIN incidents
           /\ \A i \in DOMAIN incidents : i # n => incidents'[i] = incidents[i]
           /\ incidents'[n].opened = incidents[n].opened
           /\ incidents'[n].detected = incidents[n].detected
           /\ incidents'[n].initial = incidents[n].initial
           /\ incidents'[n].threshold = incidents[n].threshold
           /\ incidents'[n].resolved = at
           /\ incidents'[n].events = Append(incidents[n].events, e)
<1> DEFINE n == Len(incidents)
           e == [type |-> "recovered", previous |-> NoState, new |-> Healthy, at |-> at]
<1>1. PICK i \in DOMAIN incidents :
        /\ IsNewestOpen(i)
        /\ incidents' = [incidents EXCEPT ![i].resolved = at, ![i].events = Append(@, e)]
  BY DEF ResolveIncident
<1>2. i = n
  BY <1>1 DEF Inv, VerdictMatchesIncidents, IsNewestOpen
<1> DEFINE old == incidents[n]
           events == Append(old.events, e)
           new == [old EXCEPT !.resolved = at, !.events = events]
<1>3. n \in DOMAIN incidents /\ old \in Incident
  BY <1>1, <1>2 DEF Inv, TypeOK
<1>4. incidents' = [incidents EXCEPT ![n] = new]
  BY <1>1, <1>2
<1>5. /\ new.opened = old.opened /\ new.detected = old.detected /\ new.initial = old.initial
      /\ new.threshold = old.threshold /\ new.resolved = at /\ new.events = events
  <2> HIDE DEF old, events
  <2> QED BY <1>3 DEF Incident
<1>6. /\ DOMAIN incidents' = DOMAIN incidents /\ incidents'[n] = new
      /\ \A j \in DOMAIN incidents : j # n => incidents'[j] = incidents[j]
  <2> HIDE DEF new
  <2> QED BY <1>3, <1>4
<1> HIDE DEF n, new
<1> QED
  BY <1>3, <1>5, <1>6 DEF n

LEMMA ChangedRow ==
    ASSUME Inv, NEW f \in Failures, NEW at \in Nat, NEW previous, ms.current # Healthy,
           ChangeIncident(f, at, previous)
    PROVE  LET n == Len(incidents)
               e == [type |-> "state_changed", previous |-> previous, new |-> f, at |-> at] IN
           /\ n \in DOMAIN incidents /\ DOMAIN incidents' = DOMAIN incidents
           /\ \A i \in DOMAIN incidents : i # n => incidents'[i] = incidents[i]
           /\ incidents'[n].opened = incidents[n].opened
           /\ incidents'[n].detected = incidents[n].detected
           /\ incidents'[n].initial = incidents[n].initial
           /\ incidents'[n].threshold = incidents[n].threshold
           /\ incidents'[n].resolved = incidents[n].resolved
           /\ incidents'[n].latest = f
           /\ incidents'[n].events = Append(incidents[n].events, e)
<1> DEFINE n == Len(incidents)
           e == [type |-> "state_changed", previous |-> previous, new |-> f, at |-> at]
<1>1. PICK i \in DOMAIN incidents :
        /\ IsNewestOpen(i)
        /\ incidents' = [incidents EXCEPT ![i].latest = f, ![i].events = Append(@, e)]
  BY DEF ChangeIncident
<1>2. i = n
  BY <1>1 DEF Inv, VerdictMatchesIncidents, IsNewestOpen
<1> DEFINE old == incidents[n]
           events == Append(old.events, e)
           new == [old EXCEPT !.latest = f, !.events = events]
<1>3. n \in DOMAIN incidents /\ old \in Incident
  BY <1>1, <1>2 DEF Inv, TypeOK
<1>4. incidents' = [incidents EXCEPT ![n] = new]
  BY <1>1, <1>2
<1>5. /\ new.opened = old.opened /\ new.detected = old.detected /\ new.initial = old.initial
      /\ new.threshold = old.threshold /\ new.resolved = old.resolved /\ new.latest = f /\ new.events = events
  <2> HIDE DEF old, events
  <2> QED BY <1>3 DEF Incident
<1>6. /\ DOMAIN incidents' = DOMAIN incidents /\ incidents'[n] = new
      /\ \A j \in DOMAIN incidents : j # n => incidents'[j] = incidents[j]
  <2> HIDE DEF new
  <2> QED BY <1>3, <1>4
<1> HIDE DEF n, new
<1> QED
  BY <1>3, <1>5, <1>6 DEF n

\* What the steps below start from.
LEMMA PastTypes ==
    ASSUME PastInv, NEW at \in 1..MaxTime
    PROVE  /\ Inv /\ TypeOK
           /\ at \in Nat /\ at # NULL /\ clock \in Nat
           /\ log \in Seq(Result)
           /\ \A i \in DOMAIN incidents : incidents[i] \in Incident
           /\ DOMAIN incidents = 1..Len(incidents) /\ Len(incidents) \in Nat
<1>1. Inv /\ TypeOK
  BY DEF PastInv, StreakInv, Inv
<1>2. at \in Nat /\ at # NULL /\ clock \in Nat
  BY <1>1, BoundAssumption DEF TypeOK, NULL
<1>3. log \in Seq(Result)
  BY <1>1 DEF TypeOK, Result
<1> QED
  BY <1>1, <1>2, <1>3 DEF TypeOK

\* A result leaves the incidents that are there as well grounded as they were.
LEMMA GroundedKept ==
    ASSUME PastInv, NEW at \in 1..MaxTime, NEW x \in States, Checked(x, at),
           NEW i \in DOMAIN incidents, NEW incident,
           incident.opened = incidents[i].opened,
           incident.detected = incidents[i].detected,
           incident.initial = incidents[i].initial,
           incident.threshold = incidents[i].threshold
    PROVE  GroundedIn(incident, log')
<1>1. log' = Append(log, [state |-> x, at |-> at])
  BY DEF Checked
<1>2. [state |-> x, at |-> at] \in Result /\ log \in Seq(Result)
  BY PastTypes DEF Result
<1>3. GroundedIn(incidents[i], log)
  BY DEF PastInv, Past, IncidentsGrounded, GroundedIn
<1>4. GroundedIn(incident, log)
  BY <1>3 DEF GroundedIn
<1> QED
  BY <1>1, <1>2, <1>4, GroundedStays

LEMMA QuietPast ==
    ASSUME PastInv, NEW at \in 1..MaxTime, NEW x \in States, Checked(x, at),
           UNCHANGED incidents, RowTimed'
    PROVE  Past'
<1>1. clock' = at /\ clock =< at /\ at \in Nat /\ clock \in Nat
  BY PastTypes DEF Checked
<1>2. IncidentsTimed'
  <2> SUFFICES ASSUME NEW i \in DOMAIN incidents
               PROVE  LET e == incidents[i].events IN
                      /\ incidents[i].detected =< at /\ incidents[i].resolved =< at
                      /\ e[Len(e)].at =< at
    BY <1>1 DEF IncidentsTimed
  <2>1. incidents[i] \in Incident /\ Tells(incidents[i])
    BY PastTypes DEF PastInv, Past, EventsTellTheStory, Tells
  <2> DEFINE e == incidents[i].events
  <2>2. e \in Seq(Event) /\ Len(e) > 0
    BY <2>1 DEF Incident, Tells
  <2>3. e[Len(e)] \in Event
    BY <2>2
  <2>4. /\ incidents[i].detected \in Nat /\ incidents[i].resolved \in Nat
        /\ e[Len(e)].at \in Nat
    BY <2>1, <2>3 DEF Incident, Event
  <2> QED
    BY <1>1, <2>4 DEF PastInv, Past, IncidentsTimed
<1>3. IncidentsDisjoint' /\ EventsTellTheStory'
  BY DEF PastInv, Past, IncidentsDisjoint, EventsTellTheStory
<1>4. IncidentsGrounded'
  BY GroundedKept DEF IncidentsGrounded, GroundedIn
<1> QED
  BY <1>2, <1>3, <1>4 DEF Past

\* The last event of an incident is not later than the clock.
LEMMA LastEvent ==
    ASSUME PastInv, NEW at \in 1..MaxTime, NEW i \in DOMAIN incidents
    PROVE  LET e == incidents[i].events IN
           /\ Tells(incidents[i]) /\ e \in Seq(Event) /\ Len(e) > 0
           /\ e[Len(e)].at \in Nat /\ e[Len(e)].at =< clock
           /\ incidents[i].opened \in Nat
           /\ incidents[i].detected \in Nat /\ incidents[i].detected =< clock
           /\ incidents[i].resolved \in Nat /\ incidents[i].resolved =< clock
<1> DEFINE e == incidents[i].events
<1>1. incidents[i] \in Incident /\ Tells(incidents[i])
  BY PastTypes DEF PastInv, Past, EventsTellTheStory, Tells
<1>2. e \in Seq(Event) /\ Len(e) > 0
  BY <1>1 DEF Incident, Tells
<1>3. e[Len(e)] \in Event
  BY <1>2
<1>4. /\ incidents[i].opened \in Nat /\ incidents[i].detected \in Nat
      /\ incidents[i].resolved \in Nat /\ e[Len(e)].at \in Nat
  BY <1>1, <1>3 DEF Incident, Event
<1> QED
  BY <1>1, <1>2, <1>4 DEF PastInv, Past, IncidentsTimed

\* The newest incident continues: it is resolved or changes, with one more event.
LEMMA NewestPast ==
    ASSUME PastInv, NEW at \in 1..MaxTime, NEW x \in States, Checked(x, at), RowTimed',
           incidents # <<>>,
           LET n == Len(incidents) IN
           /\ DOMAIN incidents' = DOMAIN incidents
           /\ \A i \in DOMAIN incidents : i # n => incidents'[i] = incidents[i]
           /\ incidents'[n].opened = incidents[n].opened
           /\ incidents'[n].detected = incidents[n].detected
           /\ incidents'[n].initial = incidents[n].initial
           /\ incidents'[n].threshold = incidents[n].threshold
           /\ incidents'[n].resolved \in {NULL, at}
           /\ \E e \in Event : e.at = at /\ incidents'[n].events = Append(incidents[n].events, e)
           /\ Tells(incidents'[n])
    PROVE  Past'
<1> DEFINE n == Len(incidents)
<1>1. clock' = at /\ clock =< at /\ at \in Nat /\ at # NULL /\ clock \in Nat /\ NULL \in Nat /\ NULL =< at
  BY PastTypes DEF Checked, NULL
<1>2. n \in DOMAIN incidents /\ DOMAIN incidents = 1..n /\ n \in Nat
  BY PastTypes
<1>3. IncidentsTimed'
  <2> SUFFICES ASSUME NEW i \in DOMAIN incidents
               PROVE  LET e == incidents'[i].events IN
                      /\ incidents'[i].detected =< at /\ incidents'[i].resolved =< at
                      /\ e[Len(e)].at =< at
    BY <1>1 DEF IncidentsTimed
  <2>1. CASE i = n
    <3>1. PICK e \in Event : e.at = at /\ incidents'[n].events = Append(incidents[n].events, e)
      OBVIOUS
    <3>2. incidents[n].events \in Seq(Event) /\ incidents[n].detected \in Nat
          /\ incidents[n].detected =< clock
      BY <1>2, LastEvent
    <3>3. incidents'[n].events[Len(incidents'[n].events)] = e
      BY <3>1, <3>2
    <3>4. incidents'[i].detected =< at /\ incidents'[i].resolved =< at
      BY <1>1, <2>1, <3>2
    <3> QED
      BY <1>1, <2>1, <3>1, <3>3, <3>4
  <2>2. CASE i # n
    BY <1>1, <2>2, LastEvent
  <2> QED
    BY <2>1, <2>2
<1>4. IncidentsDisjoint'
  <2> SUFFICES ASSUME NEW i \in DOMAIN incidents
               PROVE  /\ incidents'[i].opened =< incidents'[i].detected
                      /\ incidents'[i].resolved # NULL =>
                            incidents'[i].detected =< incidents'[i].resolved
                      /\ i > 1 => /\ incidents'[i - 1].resolved # NULL
                                  /\ incidents'[i - 1].resolved =< incidents'[i].opened
    BY DEF IncidentsDisjoint
  <2>1. /\ incidents'[i].opened = incidents[i].opened
        /\ incidents'[i].detected = incidents[i].detected
        /\ incidents[i].opened =< incidents[i].detected
    BY DEF PastInv, Past, IncidentsDisjoint
  <2>2. incidents'[i].resolved # NULL => incidents[i].detected =< incidents'[i].resolved
    <3>1. CASE i = n
      BY <1>1, <3>1, LastEvent
    <3>2. CASE i # n
      BY <3>2 DEF PastInv, Past, IncidentsDisjoint
    <3> QED
      BY <3>1, <3>2
  <2>3. i > 1 => i - 1 \in DOMAIN incidents /\ i - 1 # n
    BY <1>2
  <2>4. i > 1 => /\ incidents'[i - 1].resolved # NULL
                 /\ incidents'[i - 1].resolved =< incidents[i].opened
    BY <2>3 DEF PastInv, Past, IncidentsDisjoint
  <2> QED
    BY <2>1, <2>2, <2>4
<1>5. EventsTellTheStory'
  <2>1. \A i \in DOMAIN incidents : Tells(incidents'[i])
    BY LastEvent
  <2> QED
    BY <2>1 DEF EventsTellTheStory, Tells
<1>6. IncidentsGrounded'
  <2>1. \A i \in DOMAIN incidents : GroundedIn(incidents'[i], log')
    BY GroundedKept
  <2> QED
    BY <2>1 DEF IncidentsGrounded, GroundedIn
<1> QED
  BY <1>3, <1>4, <1>5, <1>6 DEF Past

\* The incident that opens starts its story, where its streak of results began.
LEMMA OpenedPast ==
    ASSUME PastInv, NEW at \in 1..MaxTime, NEW f \in Failures, NEW ft \in FailureThresholds,
           RecordOpened(f, at, ft)
    PROVE  Past'
<1> DEFINE s == Failing(f, at)
           t == s.failureStartedAt
           n == Len(incidents)
           e == [type |-> "opened", previous |-> NoState, new |-> f, at |-> at]
           new == [opened |-> t, detected |-> at, resolved |-> NULL,
                   threshold |-> ft, initial |-> f, latest |-> f, events |-> <<e>>]
<1>1. TypeOK /\ Inv /\ at \in Nat /\ at # NULL /\ clock \in Nat /\ f \in States /\ f # Healthy
  BY PastTypes, StateForType, StateAssumption
<1>2. /\ Checked(f, at) /\ clock' = at /\ clock =< at
      /\ s.current = Healthy /\ s.failureStreak >= ft
      /\ ms'.current = f /\ ms'.failureStreak = s.failureStreak
      /\ ms'.lastRaw = f /\ ms'.failureStartedAt = t
      /\ incidents' = Append(incidents, new)
  <2>1. s \in MonitorState
    BY <1>1, FailingType
  <2>2. /\ Checked(f, at) /\ s.current = Healthy /\ s.failureStreak >= ft
        /\ ms' = [s EXCEPT !.current = f, !.since = t]
        /\ incidents' = Append(incidents, new)
    BY DEF RecordOpened, OpenIncident
  <2>3. ms'.current = f /\ ms'.failureStreak = s.failureStreak
    <3> HIDE DEF s, t
    <3> QED BY <2>1, <2>2 DEF MonitorState
  <2>4. ms'.lastRaw = f /\ ms'.failureStartedAt = t
    BY <1>1, FailedRow
  <2> QED
    BY <2>2, <2>3, <2>4 DEF Checked
<1>3. StateFor(at).current = Healthy /\ ms.current = Healthy
  BY <1>1, <1>2, FailingType, VerdictKept
<1>4. t \in Nat /\ t =< at /\ \A i \in DOMAIN incidents : incidents[i].resolved =< t
  BY <1>2, <1>3, StreakBegan
<1>5. /\ new.opened = t /\ new.detected = at /\ new.resolved = NULL
      /\ new.initial = f /\ new.latest = f /\ new.events = <<e>> /\ new.threshold = ft
      /\ e.type = "opened" /\ e.new = f /\ e.at = at
  OBVIOUS
<1>6. DOMAIN incidents = 1..n /\ n \in Nat
  BY PastTypes
<1> HIDE DEF new, t, s
<1>7. /\ DOMAIN incidents' = 1..(n + 1) /\ incidents'[n + 1] = new
      /\ \A i \in DOMAIN incidents : incidents'[i] = incidents[i]
  BY <1>1, <1>2, <1>6 DEF TypeOK
<1>8. \A i \in DOMAIN incidents' : i \in DOMAIN incidents \/ i = n + 1
  BY <1>6, <1>7
<1> HIDE DEF e
<1>9. new.events[Len(new.events)] = e /\ Len(new.events) = 1 /\ new.events[1] = e
  BY <1>5
<1>10. IncidentsTimed'
  <2>1. \A i \in DOMAIN incidents :
           LET es == incidents[i].events IN
           /\ incidents[i].detected =< at /\ incidents[i].resolved =< at
           /\ es[Len(es)].at =< at
    BY <1>1, <1>2, LastEvent
  <2>2. new.detected =< at /\ new.resolved =< at /\ new.events[Len(new.events)].at =< at
    BY <1>1, <1>5, <1>9 DEF NULL
  <2> QED
    BY <1>2, <1>7, <1>8, <2>1, <2>2 DEF IncidentsTimed
<1>11. RowTimed'
  BY <1>1, <1>2, <1>4 DEF RowTimed
<1>12. IncidentsDisjoint'
  <2>1. ASSUME NEW i \in DOMAIN incidents
        PROVE  /\ incidents'[i] = incidents[i]
               /\ i > 1 => incidents'[i - 1] = incidents[i - 1]
    <3>1. i > 1 => i - 1 \in DOMAIN incidents
      BY <1>6
    <3> QED
      BY <1>7, <3>1
  <2>2. new.opened =< new.detected /\ new.resolved = NULL
    BY <1>4, <1>5
  <2>3. n + 1 > 1 => /\ incidents'[n + 1 - 1].resolved # NULL
                     /\ incidents'[n + 1 - 1].resolved =< new.opened
    <3>1. n + 1 > 1 => n \in DOMAIN incidents /\ n + 1 - 1 = n
      BY <1>6
    <3>2. \A i \in DOMAIN incidents : incidents[i].resolved # NULL
      BY <1>1, <1>3 DEF Inv, VerdictMatchesIncidents
    <3> QED
      BY <1>4, <1>5, <1>7, <3>1, <3>2
  <2> QED
    BY <1>7, <1>8, <2>1, <2>2, <2>3 DEF PastInv, Past, IncidentsDisjoint
<1>13. EventsTellTheStory'
  <2>1. Tells(new)
    BY <1>5, <1>9 DEF Tells
  <2>2. \A i \in DOMAIN incidents : Tells(incidents[i])
    BY LastEvent
  <2>3. \A i \in DOMAIN incidents' : Tells(incidents'[i])
    BY <1>7, <1>8, <2>1, <2>2
  <2> QED
    BY <2>3 DEF EventsTellTheStory, Tells
<1>14. IncidentsGrounded'
  <2>1. \A i \in DOMAIN incidents : GroundedIn(incidents[i], log')
    BY <1>1, <1>2, GroundedKept
  <2>2. GroundedIn(new, log')
    <3> DEFINE k == s.failureStreak
               m == Len(log')
    <3>1. FailureStreakIs(f, k, t, log')
      <4>1. Record(at)
        BY DEF Record
      <4>2. Streaks(ms', log')
        BY <4>1, RecordStreaks DEF PastInv
      <4> QED
        BY <1>2, <4>2 DEF Streaks
    <3>2. log' = Append(log, [state |-> f, at |-> at]) /\ log \in Seq(Result)
      BY <1>2, PastTypes DEF Checked
    <3>3. /\ m \in Nat /\ m > 0 /\ DOMAIN log' = 1..m
          /\ log'[m].at = at
      BY <3>2
    <3>4. k \in Nat /\ k > 0 /\ ft \in Nat /\ k >= ft
      <4>1. s \in MonitorState
        BY <1>1, FailingType DEF s
      <4> QED
        BY <1>2, <4>1, ThresholdAssumption DEF MonitorState
    <3>5. k =< m
      BY <3>1 DEF FailureStreakIs
    <3> DEFINE p == m - k + 1
    <3>6. p \in 1..m /\ m - p + 1 >= ft /\ p - 1 = m - k
      BY <3>3, <3>4, <3>5
    <3>7. /\ log'[p].at = t
          /\ \A i \in p..m : log'[i].state = f
          /\ p > 1 => log'[p - 1].state # f
      <4>1. p > 1 => k < m
        BY <3>3, <3>4
      <4> QED
        BY <3>1, <3>4, <3>6, <4>1 DEF FailureStreakIs
    <3> HIDE DEF k, m, p
    <3>8. /\ p \in DOMAIN log' /\ m \in DOMAIN log'
          /\ log'[p].at = new.opened /\ log'[m].at = new.detected
          /\ \A i \in p..m : log'[i].state = new.initial
          /\ p > 1 => log'[p - 1].state # new.initial
          /\ m - p + 1 >= new.threshold
      BY <1>5, <3>3, <3>6, <3>7
    <3> QED
      BY <3>8 DEF GroundedIn
  <2> QED
    BY <1>7, <1>8, <2>1, <2>2 DEF IncidentsGrounded, GroundedIn
<1> QED
  BY <1>10, <1>11, <1>12, <1>13, <1>14 DEF Past

LEMMA RecoveredPast ==
    ASSUME PastInv, NEW at \in 1..MaxTime, NEW rt \in RecoveryThresholds, RecordRecovered(at, rt)
    PROVE  Past'
<1> DEFINE n == Len(incidents)
           e == [type |-> "recovered", previous |-> NoState, new |-> Healthy, at |-> at]
           old == incidents[n]
<1>1. TypeOK /\ Inv /\ at \in Nat /\ at # NULL /\ Healthy \in States
  BY PastTypes DEF States
<1>2. Checked(Healthy, at) /\ clock =< at /\ ms.current # Healthy /\ ResolveIncident(at)
  BY <1>1, VerdictKept, PastTypes DEF RecordRecovered, Checked
<1>3. RowTimed'
  <2> DEFINE s == Calm(at)
  <2>1. s \in MonitorState /\ s.lastRaw = Healthy
    <3>1. StateFor(at) \in MonitorState
      BY <1>1, StateForType
    <3>2. s \in MonitorState
      BY <1>1, CalmType
    <3> QED
      BY <3>1, <3>2 DEF Calm, MonitorState
  <2>2. ms' = [s EXCEPT !.recoveryStreak = 0, !.current = Healthy, !.since = at]
    BY DEF RecordRecovered
  <2> HIDE DEF s
  <2>3. ms'.lastRaw = Healthy
    BY <2>1, <2>2 DEF MonitorState
  <2> QED
    BY <2>3, StateAssumption DEF RowTimed
<1>4. /\ n \in DOMAIN incidents /\ DOMAIN incidents' = DOMAIN incidents
      /\ \A i \in DOMAIN incidents : i # n => incidents'[i] = incidents[i]
      /\ incidents'[n].opened = incidents[n].opened
      /\ incidents'[n].detected = incidents[n].detected
      /\ incidents'[n].initial = incidents[n].initial
      /\ incidents'[n].threshold = incidents[n].threshold
      /\ incidents'[n].resolved = at
      /\ incidents'[n].events = Append(incidents[n].events, e)
  BY <1>1, <1>2, ResolvedRow
<1>5. e \in Event /\ e.type = "recovered" /\ e.new = Healthy /\ e.at = at
  BY <1>1 DEF Event, States
<1>6. old.resolved = NULL /\ old \in Incident /\ old.latest # Healthy
  <2>1. old.resolved = NULL /\ old.latest = ms.current
    BY <1>1, <1>2, <1>4 DEF Inv, VerdictMatchesIncidents
  <2>2. old \in Incident
    BY <1>4, PastTypes
  <2> QED
    BY <1>2, <2>1, <2>2
<1>7. Tells(old) /\ old.events[Len(old.events)].at =< at
  BY <1>1, <1>2, <1>4, LastEvent, PastTypes
<1> HIDE DEF e
<1>8. Tells(incidents'[n])
  BY <1>1, <1>4, <1>5, <1>6, <1>7, StoryGoesOn
<1> QED
  BY <1>1, <1>2, <1>3, <1>4, <1>5, <1>8, NewestPast

LEMMA ChangedPast ==
    ASSUME PastInv, NEW at \in 1..MaxTime, NEW f \in Failures, RecordChanged(f, at)
    PROVE  Past'
<1> DEFINE n == Len(incidents)
           e == [type |-> "state_changed", previous |-> ms.current, new |-> f, at |-> at]
           old == incidents[n]
<1>1. TypeOK /\ Inv /\ at \in Nat /\ at # NULL /\ f \in States /\ f # Healthy
  BY PastTypes, StateForType, StateAssumption
<1>2. Failing(f, at) \in MonitorState /\ Failing(f, at).current = ms.current
  BY <1>1, FailingType, VerdictKept
<1>3. /\ Checked(f, at) /\ clock =< at /\ clock' = at
      /\ ms.current # Healthy /\ ms.current # f
      /\ ChangeIncident(f, at, ms.current)
  BY <1>2 DEF RecordChanged, Checked
<1>4. /\ n \in DOMAIN incidents /\ DOMAIN incidents' = DOMAIN incidents
      /\ \A i \in DOMAIN incidents : i # n => incidents'[i] = incidents[i]
      /\ incidents'[n].opened = incidents[n].opened
      /\ incidents'[n].detected = incidents[n].detected
      /\ incidents'[n].initial = incidents[n].initial
      /\ incidents'[n].threshold = incidents[n].threshold
      /\ incidents'[n].resolved = incidents[n].resolved
      /\ incidents'[n].latest = f
      /\ incidents'[n].events = Append(incidents[n].events, e)
  BY <1>1, <1>3, ChangedRow
<1>5. RowTimed'
  <2>1. ms'.lastRaw = f /\ ms'.failureStartedAt = Failing(f, at).failureStartedAt
    BY <1>1, FailedRow
  <2>2. ms'.current = f
    <3> DEFINE s == Failing(f, at)
    <3>1. s \in MonitorState /\ ms' = [s EXCEPT !.current = f, !.since = at]
      BY <1>2 DEF RecordChanged
    <3> HIDE DEF s
    <3> QED
      BY <3>1 DEF MonitorState
  <2> QED
    BY <1>1, <1>3, <2>1, <2>2, StreakBegan DEF RowTimed
<1>6. e \in Event /\ e.type = "state_changed" /\ e.new = f /\ e.at = at /\ e.previous = ms.current
  BY <1>1 DEF Event, States, TypeOK, MonitorState
<1>7. old.resolved = NULL /\ old \in Incident /\ old.latest = ms.current
  <2>1. old.resolved = NULL /\ old.latest = ms.current
    BY <1>1, <1>3, <1>4 DEF Inv, VerdictMatchesIncidents
  <2>2. old \in Incident
    BY <1>4, PastTypes
  <2> QED
    BY <2>1, <2>2
<1>8. Tells(old) /\ old.events[Len(old.events)].at =< at
  BY <1>1, <1>3, <1>4, LastEvent, PastTypes
<1> HIDE DEF e
<1>9. Tells(incidents'[n])
  BY <1>1, <1>3, <1>4, <1>6, <1>7, <1>8, StoryGoesOn
<1> QED
  BY <1>1, <1>3, <1>4, <1>5, <1>6, <1>7, <1>9, NewestPast

LEMMA RecordPast ==
    ASSUME PastInv, NEW at \in 1..MaxTime, Record(at)
    PROVE  Past'
<1>1. TypeOK /\ Inv /\ Healthy \in States /\ Unknown \in States /\ Failures \subseteq States
  BY PastTypes, StateForType DEF States
<1>2. CASE RecordUnknown(at)
  <2> DEFINE s == StateFor(at)
  <2>1. /\ ms' = [s EXCEPT !.failureStreak = 0, !.failureStartedAt = 0,
                           !.recoveryStreak = 0, !.lastRaw = Unknown]
        /\ s \in MonitorState /\ Checked(Unknown, at) /\ UNCHANGED incidents
    BY <1>1, <1>2, StateForType DEF RecordUnknown
  <2> HIDE DEF s
  <2>2. ms'.lastRaw = Unknown
    BY <2>1 DEF MonitorState
  <2> QED
    BY <1>1, <2>1, <2>2, QuietPast, StateAssumption DEF RowTimed
<1>3. CASE RecordHealthy(at) \/ \E rt \in RecoveryThresholds : RecordRecovering(at, rt)
  <2> DEFINE s == Calm(at)
  <2>1. s \in MonitorState /\ s.lastRaw = Healthy
    <3>1. StateFor(at) \in MonitorState /\ s \in MonitorState
      BY <1>1, StateForType, CalmType
    <3> QED
      BY <3>1 DEF Calm, MonitorState
  <2>2. /\ \E r : ms' = [s EXCEPT !.recoveryStreak = r]
        /\ Checked(Healthy, at) /\ UNCHANGED incidents
    BY <1>3 DEF RecordHealthy, RecordRecovering
  <2> HIDE DEF s
  <2>3. ms'.lastRaw = Healthy
    BY <2>1, <2>2 DEF MonitorState
  <2> QED
    BY <1>1, <2>2, <2>3, QuietPast, StateAssumption DEF RowTimed
<1>4. ASSUME NEW f \in Failures, NEW ft \in FailureThresholds, RecordFailing(f, at, ft)
      PROVE  Past'
  <2>1. Checked(f, at) /\ ms' = Failing(f, at) /\ UNCHANGED incidents /\ clock =< at /\ clock' = at
    BY <1>4, PastTypes DEF RecordFailing, Checked
  <2>2. Failing(f, at).current = StateFor(at).current /\ Failing(f, at).lastRaw = f
    BY <1>1, FailingType, FailingFields
  <2>3. RowTimed'
    BY <2>1, <2>2, PastTypes, StreakBegan DEF RowTimed
  <2> QED
    BY <1>1, <2>1, <2>3, QuietPast
<1> QED
  BY <1>2, <1>3, <1>4, OpenedPast, RecoveredPast, ChangedPast DEF Record

LEMMA InitPast == Init => PastInv
<1> SUFFICES ASSUME Init PROVE PastInv
  OBVIOUS
<1>1. Past
  BY StateAssumption DEF Init, Past, IncidentsTimed, RowTimed, IncidentsDisjoint,
     EventsTellTheStory, IncidentsGrounded, Fresh
<1> QED
  BY <1>1, InitStreaks DEF PastInv

LEMMA NextPast == PastInv /\ [Next]_vars => PastInv'
<1> SUFFICES ASSUME PastInv, [Next]_vars PROVE PastInv'
  OBVIOUS
<1>1. StreakInv'
  BY NextStreaks DEF PastInv
<1>2. Past'
  <2>1. CASE ResetHistory
    BY <2>1, StateAssumption DEF ResetHistory, Past, IncidentsTimed, RowTimed, IncidentsDisjoint,
       EventsTellTheStory, IncidentsGrounded, Fresh
  <2>2. ASSUME NEW at \in 1..MaxTime, Record(at) PROVE Past'
    BY <2>2, RecordPast
  <2>3. CASE UNCHANGED vars
    BY <2>3 DEF vars, PastInv, Past, IncidentsTimed, RowTimed, IncidentsDisjoint,
       EventsTellTheStory, IncidentsGrounded
  <2> QED
    BY <2>1, <2>2, <2>3 DEF Next
<1> QED
  BY <1>1, <1>2 DEF PastInv

\* Incidents never overlap and follow each other in time.
THEOREM IncidentsAreDisjoint == Spec => []IncidentsDisjoint
<1>1. PastInv => IncidentsDisjoint
  BY DEF PastInv, Past
<1> QED
  BY <1>1, InitPast, NextPast, PTL DEF Spec

\* Every incident rests on an unbroken run of results as long as a threshold that
\* was in force.
THEOREM IncidentsAreGrounded == Spec => []IncidentsGrounded
<1>1. PastInv => IncidentsGrounded
  BY DEF PastInv, Past
<1> QED
  BY <1>1, InitPast, NextPast, PTL DEF Spec

\* The events of every incident tell its story from its opening to its recovery.
THEOREM EventsTell == Spec => []EventsTellTheStory
<1>1. PastInv => EventsTellTheStory
  BY DEF PastInv, Past
<1> QED
  BY <1>1, InitPast, NextPast, PTL DEF Spec

-------------------------------------------------------------------------------
(* The views of the incidents *)

\* What the views rely on, of the incidents in the order they were opened.
LEMMA IncidentFacts ==
    ASSUME PastInv
    PROVE  /\ Len(incidents) \in Nat /\ DOMAIN incidents = 1..Len(incidents)
           /\ IsFiniteSet(DOMAIN incidents) /\ Cardinality(DOMAIN incidents) = Len(incidents)
           /\ clock \in Nat
           /\ \A i \in DOMAIN incidents :
                 /\ incidents[i].opened \in Nat /\ incidents[i].resolved \in Nat
                 /\ incidents[i].opened =< clock
                 /\ incidents[i].resolved = NULL <=> i = Len(incidents) /\ ms.current # Healthy
                 /\ incidents[i].resolved # NULL => incidents[i].opened =< incidents[i].resolved
           /\ \A i \in 2..Len(incidents) :
                 /\ incidents[i - 1].resolved # NULL
                 /\ incidents[i - 1].resolved =< incidents[i].opened
<1>1. Inv /\ TypeOK /\ IncidentsTimed /\ IncidentsDisjoint /\ VerdictMatchesIncidents
  BY DEF PastInv, StreakInv, Inv, Past
<1>2. incidents \in Seq(Incident) /\ clock \in Nat
  BY <1>1, BoundAssumption DEF TypeOK
<1>3. /\ Len(incidents) \in Nat /\ DOMAIN incidents = 1..Len(incidents)
      /\ \A i \in DOMAIN incidents : incidents[i] \in Incident
  BY <1>2, LenProperties
<1>4. IsFiniteSet(DOMAIN incidents) /\ Cardinality(DOMAIN incidents) = Len(incidents)
  <2>1. 1 \in Int /\ Len(incidents) \in Int
    BY <1>3
  <2>2. IsFiniteSet(1..Len(incidents))
        /\ Cardinality(1..Len(incidents)) = IF 1 > Len(incidents) THEN 0 ELSE Len(incidents) - 1 + 1
    BY <2>1, FS_Interval
  <2> QED
    BY <1>3, <2>2
<1>5. ASSUME NEW i \in DOMAIN incidents
      PROVE  /\ incidents[i].opened \in Nat /\ incidents[i].resolved \in Nat
             /\ incidents[i].opened =< clock
             /\ incidents[i].resolved = NULL <=> i = Len(incidents) /\ ms.current # Healthy
             /\ incidents[i].resolved # NULL => incidents[i].opened =< incidents[i].resolved
  <2>1. /\ incidents[i].opened \in Nat /\ incidents[i].resolved \in Nat
        /\ incidents[i].detected \in Nat
    BY <1>3 DEF Incident
  <2>2. /\ incidents[i].opened =< incidents[i].detected /\ incidents[i].detected =< clock
        /\ incidents[i].resolved # NULL => incidents[i].detected =< incidents[i].resolved
    BY <1>1 DEF IncidentsTimed, IncidentsDisjoint
  <2>3. incidents[i].resolved = NULL <=> i = Len(incidents) /\ ms.current # Healthy
    BY <1>1 DEF VerdictMatchesIncidents
  <2> QED
    BY <1>2, <2>1, <2>2, <2>3
<1>6. ASSUME NEW i \in 2..Len(incidents)
      PROVE  /\ incidents[i - 1].resolved # NULL
             /\ incidents[i - 1].resolved =< incidents[i].opened
  <2>1. i \in DOMAIN incidents /\ i > 1
    BY <1>3
  <2> QED
    BY <1>1, <2>1 DEF IncidentsDisjoint
<1> QED
  BY <1>2, <1>3, <1>4, <1>5, <1>6

\* An older incident is over before a newer one opens, and opened no later.
LEMMA IncidentsInOrder ==
    ASSUME PastInv
    PROVE  \A i, j \in DOMAIN incidents :
              i < j => /\ incidents[i].opened =< incidents[j].opened
                       /\ incidents[i].resolved # NULL
                       /\ incidents[i].resolved =< incidents[j].opened
<1> DEFINE n == Len(incidents)
           opened == [i \in 1..n |-> incidents[i].opened]
<1>1. \A i \in 1..n : opened[i] \in Int
  BY IncidentFacts
<1>2. ASSUME NEW i \in 2..n PROVE opened[i - 1] =< opened[i]
  <2>1. i - 1 \in DOMAIN incidents /\ i \in DOMAIN incidents /\ DOMAIN incidents = 1..n
    BY IncidentFacts
  <2>2. /\ incidents[i - 1].resolved # NULL
        /\ incidents[i - 1].opened =< incidents[i - 1].resolved
        /\ incidents[i - 1].resolved =< incidents[i].opened
    BY <2>1, IncidentFacts
  <2>3. /\ incidents[i - 1].opened \in Nat /\ incidents[i - 1].resolved \in Nat
        /\ incidents[i].opened \in Nat
    BY <2>1, IncidentFacts
  <2> QED
    BY <2>1, <2>2, <2>3
<1>3. \A i \in 1..n : opened[i] = incidents[i].opened
  OBVIOUS
<1>4. n \in Nat /\ DOMAIN incidents = 1..n
  BY IncidentFacts
<1> HIDE DEF opened, n
<1>5. \A i, j \in 1..n : i =< j => opened[i] =< opened[j]
  BY <1>1, <1>2, <1>4, NeverDecreases
<1>6. ASSUME NEW i \in DOMAIN incidents, NEW j \in DOMAIN incidents, i < j
      PROVE  /\ incidents[i].opened =< incidents[j].opened
             /\ incidents[i].resolved # NULL
             /\ incidents[i].resolved =< incidents[j].opened
  <2>1. i + 1 \in 2..n /\ (i + 1) - 1 = i /\ i + 1 =< j /\ i + 1 \in 1..n /\ i =< j
    BY <1>4, <1>6
  <2>2. incidents[i].resolved # NULL /\ incidents[i].resolved =< incidents[i + 1].opened
    BY <2>1, IncidentFacts DEF n
  <2>3. /\ incidents[i + 1].opened =< incidents[j].opened
        /\ incidents[i].opened =< incidents[j].opened
    BY <1>3, <1>4, <1>5, <2>1
  <2>4. /\ incidents[i].resolved \in Nat /\ incidents[i + 1].opened \in Nat
        /\ incidents[j].opened \in Nat
    BY <1>4, <2>1, IncidentFacts
  <2> QED
    BY <2>2, <2>3, <2>4
<1> QED
  BY <1>6

\* The seconds of a request's window in which an incident is going on.
Seconds(i, start, now) ==
    {s \in start..(now - 1) : /\ incidents[i].opened =< s
                              /\ incidents[i].resolved = NULL \/ s < incidents[i].resolved}

LEMMA ClippedSeconds ==
    ASSUME PastInv, NEW i \in DOMAIN incidents, NEW start \in Nat, NEW now \in Nat, start =< now
    PROVE  /\ IsFiniteSet(Seconds(i, start, now))
           /\ Clipped(i, start, now) = Cardinality(Seconds(i, start, now))
<1> DEFINE from == Later(incidents[i].opened, start)
           to == Ends(i, now)
           opened == incidents[i].opened
           resolved == incidents[i].resolved
<1>1. opened \in Nat /\ resolved \in Nat
  BY IncidentFacts
<1> HIDE DEF opened, resolved
<1>2. /\ from \in Nat /\ start =< from /\ opened =< from /\ (from = start \/ from = opened)
      /\ from = Later(opened, start)
  BY <1>1 DEF Later, opened
<1>3. /\ to \in Nat /\ to =< now
      /\ \A s \in Nat : s < to <=> s < now /\ (resolved = NULL \/ s < resolved)
  BY <1>1 DEF Ends, resolved, NULL
<1>4. Clipped(i, start, now) = IF to > from THEN to - from ELSE 0
  <2>1. Clipped(i, start, now) = IF to - from > 0 THEN to - from ELSE 0
    BY DEF Clipped, Later
  <2> HIDE DEF from, to
  <2> QED
    BY <1>2, <1>3, <2>1
<1> HIDE DEF from, to
<1>5. Seconds(i, start, now) = from..(to - 1)
  <2>1. ASSUME NEW s
        PROVE  s \in Seconds(i, start, now) <=> /\ s \in start..(now - 1) /\ opened =< s
                                                /\ resolved = NULL \/ s < resolved
    BY DEF Seconds, opened, resolved
  <2>2. ASSUME NEW s \in Nat
        PROVE  s \in from..(to - 1) <=> s \in start..(now - 1) /\ opened =< s /\ (resolved = NULL \/ s < resolved)
    BY <1>1, <1>2, <1>3
  <2>3. \A s \in from..(to - 1) : s \in Nat
    BY <1>2, <1>3
  <2>4. \A s \in start..(now - 1) : s \in Nat
    OBVIOUS
  <2> QED
    BY <2>1, <2>2, <2>3, <2>4
<1>6. /\ IsFiniteSet(from..(to - 1))
      /\ Cardinality(from..(to - 1)) = IF from > to - 1 THEN 0 ELSE (to - 1) - from + 1
  <2>1. from \in Int /\ to - 1 \in Int
    BY <1>2, <1>3
  <2> QED
    BY <2>1, FS_Interval
<1> QED
  BY <1>2, <1>3, <1>4, <1>5, <1>6

\* The downtime of the overview counts each second of an incident once.
LEMMA DowntimeCounts ==
    ASSUME PastInv, NEW now \in Nat, NEW since \in Nat, log # <<>>, ObservedStart(since) =< now
    PROVE  Downtime(since, now) = Cardinality({s \in ObservedStart(since)..(now - 1) : Down(s)})
<1> DEFINE start == ObservedStart(since)
           periods == {i \in Overlapping(since, now) :
                          incidents[i].resolved = NULL \/ incidents[i].resolved > start}
           C == [i \in periods |-> Seconds(i, start, now)]
           f == [i \in periods |-> Clipped(i, start, now)]
<1>1. start \in Nat /\ since =< start
  <2>1. log \in Seq([state : States, at : 1..MaxTime])
    BY DEF PastInv, StreakInv, Inv, TypeOK
  <2>2. 1 \in 1..Len(log)
    BY <2>1, EmptySeq
  <2>3. log[1] \in [state : States, at : 1..MaxTime]
    BY <2>1, <2>2, ElementOfSeq
  <2>4. log[1].at \in 1..MaxTime
    BY <2>3
  <2>5. log[1].at \in Nat
    BY <2>4, BoundAssumption
  <2> QED
    BY <2>5 DEF ObservedStart, Later
<1>2. Downtime(since, now) = SumFunctionOnSet(f, periods)
  BY DEF Downtime
<1>3. start =< now
  OBVIOUS
<1> HIDE DEF start
<1>4. periods \subseteq DOMAIN incidents
  BY DEF Overlapping
<1>5. IsFiniteSet(periods)
  BY <1>4, FS_Subset, IncidentFacts
<1>6. \A i \in periods : C[i] = Seconds(i, start, now) /\ f[i] = Clipped(i, start, now)
  OBVIOUS
<1>7. ASSUME NEW i \in DOMAIN incidents, NEW s \in Seconds(i, start, now) PROVE i \in periods
  <2>1. /\ s \in start..(now - 1) /\ incidents[i].opened =< s
        /\ incidents[i].resolved = NULL \/ s < incidents[i].resolved
    BY DEF Seconds
  <2>2. incidents[i].opened \in Nat /\ incidents[i].resolved \in Nat
    BY IncidentFacts
  <2>3. /\ incidents[i].opened < now
        /\ incidents[i].resolved = NULL \/ incidents[i].resolved > start
        /\ incidents[i].resolved = NULL \/ incidents[i].resolved > since
    BY <1>1, <2>1, <2>2
  <2> QED
    BY <2>3 DEF Overlapping
<1> HIDE DEF periods, C, f
<1>8. \A i \in periods : IsFiniteSet(C[i]) /\ f[i] = Cardinality(C[i])
  BY <1>1, <1>3, <1>4, <1>6, ClippedSeconds
<1>9. ASSUME NEW i \in periods, NEW j \in periods, i # j PROVE C[i] \cap C[j] = {}
  <2>1. ASSUME NEW a \in DOMAIN incidents, NEW b \in DOMAIN incidents, a < b,
               NEW s \in Seconds(a, start, now), s \in Seconds(b, start, now)
        PROVE  FALSE
    <3>1. /\ s \in start..(now - 1) /\ incidents[b].opened =< s
          /\ incidents[a].resolved = NULL \/ s < incidents[a].resolved
      BY <2>1 DEF Seconds
    <3>2. incidents[a].resolved # NULL /\ incidents[a].resolved =< incidents[b].opened
      BY <2>1, IncidentsInOrder
    <3>3. incidents[a].resolved \in Nat /\ incidents[b].opened \in Nat
      BY IncidentFacts
    <3> QED
      BY <1>1, <3>1, <3>2, <3>3
  <2>2. i \in DOMAIN incidents /\ j \in DOMAIN incidents /\ (i < j \/ j < i)
    BY <1>4, <1>9, IncidentFacts
  <2> QED
    BY <1>6, <2>1, <2>2
<1>10. SumFunctionOnSet(f, periods) = Cardinality(Together(C, periods))
  BY <1>5, <1>8, <1>9, SumOfSizes
<1>11. Together(C, periods) = {s \in start..(now - 1) : Down(s)}
  <2>1. ASSUME NEW s
        PROVE  s \in Together(C, periods) <=> \E i \in DOMAIN incidents : s \in Seconds(i, start, now)
    BY <1>4, <1>6, <1>7 DEF Together
  <2>2. ASSUME NEW s
        PROVE  (\E i \in DOMAIN incidents : s \in Seconds(i, start, now))
                 <=> s \in start..(now - 1) /\ Down(s)
    BY DEF Seconds, Down
  <2> QED
    BY <2>1, <2>2
<1> QED
  BY <1>2, <1>10, <1>11 DEF start

\* The pulse shows every second of an incident.
LEMMA PulseShows ==
    ASSUME PastInv, NEW now \in Nat, NEW since \in Nat, NEW w \in BucketWidths,
           NEW s \in since..(now - 1), Down(s)
    PROVE  PulseState(s - (s % w), w, since, now) = "outage"
<1>1. w \in Nat \ {0} /\ s \in Nat
  BY ViewsAssumption
<1> DEFINE b == s - (s % w)
<1>2. b \in Int /\ b =< s /\ s < b + w
  <2>1. s % w \in 0..(w - 1)
    BY <1>1
  <2> HIDE DEF b
  <2> QED
    BY <1>1, <2>1 DEF b
<1> HIDE DEF b
<1>3. PICK i \in DOMAIN incidents :
         incidents[i].opened =< s /\ (incidents[i].resolved = NULL \/ s < incidents[i].resolved)
  BY DEF Down
<1>4. incidents[i].opened \in Nat /\ incidents[i].resolved \in Nat
  BY IncidentFacts
<1>5. /\ incidents[i].opened < now
      /\ incidents[i].resolved = NULL \/ incidents[i].resolved > since
      /\ incidents[i].opened < b + w
      /\ incidents[i].resolved = NULL \/ incidents[i].resolved > b
  BY <1>1, <1>2, <1>3, <1>4
<1>6. i \in Overlapping(since, now)
  BY <1>5 DEF Overlapping
<1>7. PulseState(b, w, since, now) = "outage"
  BY <1>5, <1>6 DEF PulseState
<1> QED
  BY <1>7 DEF b

LEMMA FlagShows ==
    ASSUME PastInv, NEW now \in Nat, NEW since \in Nat, clock < now
    PROVE  OpenIncidentFlag(since, now) <=> ms.current # Healthy
<1>1. OpenIncidentFlag(since, now) <=>
        \E i \in DOMAIN incidents : incidents[i].opened < now /\ incidents[i].resolved = NULL
  BY DEF OpenIncidentFlag, Overlapping
<1>2. \A i \in DOMAIN incidents : incidents[i].opened < now
  <2> TAKE i \in DOMAIN incidents
  <2>1. incidents[i].opened \in Nat /\ clock \in Nat /\ incidents[i].opened =< clock
    BY IncidentFacts
  <2> QED
    BY <2>1
<1>3. ms.current # Healthy => Len(incidents) \in DOMAIN incidents
  <2>1. ms.current # Healthy => incidents # <<>>
    BY DEF PastInv, StreakInv, Inv, VerdictMatchesIncidents
  <2>2. incidents \in Seq(Incident)
    BY DEF PastInv, StreakInv, Inv, TypeOK
  <2>3. incidents # <<>> => Len(incidents) \in Nat \ {0}
    BY <2>2, EmptySeq
  <2> QED
    BY <2>1, <2>3, IncidentFacts
<1> QED
  BY <1>1, <1>2, <1>3, IncidentFacts

\* What has i - 1 elements before it, when as many as that are smaller.
LEMMA PlaceIsNumber ==
    ASSUME NEW n \in Nat, NEW i \in 1..n
    PROVE  /\ Cardinality({j \in 1..n : j < i}) = i - 1
           /\ Cardinality({j \in 1..n : j > i}) = n - i
<1>1. i \in Int /\ i - 1 \in Int /\ i + 1 \in Int /\ 1 \in Int /\ n \in Int
  OBVIOUS
<1>2. {j \in 1..n : j < i} = 1..(i - 1) /\ {j \in 1..n : j > i} = (i + 1)..n
  OBVIOUS
<1>3. /\ Cardinality(1..(i - 1)) = IF 1 > i - 1 THEN 0 ELSE (i - 1) - 1 + 1
      /\ Cardinality((i + 1)..n) = IF i + 1 > n THEN 0 ELSE n - (i + 1) + 1
  BY <1>1, FS_Interval
<1>4. /\ Cardinality(1..(i - 1)) = i - 1
      /\ Cardinality((i + 1)..n) = n - i
  <2> DEFINE below == Cardinality(1..(i - 1))
             above == Cardinality((i + 1)..n)
  <2>1. /\ below = IF 1 > i - 1 THEN 0 ELSE (i - 1) - 1 + 1
        /\ above = IF i + 1 > n THEN 0 ELSE n - (i + 1) + 1
    BY <1>3
  <2> HIDE DEF below, above
  <2>2. below = i - 1 /\ above = n - i
    BY <2>1
  <2> QED
    BY <2>2 DEF below, above
<1> QED
  BY <1>2, <1>4

EventOrder(i) ==
    LET e == incidents[i].events
    IN  InOrder(DOMAIN e, LAMBDA a, b : e[a].at < e[b].at \/ (e[a].at = e[b].at /\ a < b))

\* The timeline of an incident is the events in the order they were written.
LEMMA TimelineIsEvents ==
    ASSUME PastInv, NEW i \in DOMAIN incidents
    PROVE  /\ Timeline(i) = [k \in DOMAIN incidents[i].events |-> incidents[i].events[k]]
           /\ Len(Timeline(i)) = Len(incidents[i].events)
<1> DEFINE e == incidents[i].events
           n == Len(e)
           at == [k \in 1..n |-> e[k].at]
           order == EventOrder(i)
<1>1. e \in Seq(Event) /\ Tells(incidents[i])
  <2>1. incidents \in Seq(Incident) /\ EventsTellTheStory
    BY DEF PastInv, StreakInv, Inv, TypeOK, Past
  <2>2. incidents[i] \in Incident
    BY <2>1
  <2> QED
    BY <2>1, <2>2 DEF Incident, EventsTellTheStory, Tells
<1>2. /\ n \in Nat /\ DOMAIN e = 1..n /\ \A k \in 1..n : e[k] \in Event
      /\ \A k \in 2..n : e[k - 1].at =< e[k].at
  BY <1>1, LenProperties DEF Tells
<1>3. Timeline(i) = [k \in DOMAIN e |-> e[order[k]]]
  BY DEF Timeline, EventOrder
<1>4. order = [k \in 1..Cardinality(DOMAIN e) |->
                 CHOOSE x \in DOMAIN e : Cardinality({y \in DOMAIN e :
                     e[y].at < e[x].at \/ (e[y].at = e[x].at /\ y < x)}) = k - 1]
  BY DEF EventOrder, InOrder
<1> HIDE DEF e, n, order
<1>5. \A k \in 1..n : at[k] \in Int /\ at[k] = e[k].at
  BY <1>2 DEF Event
<1> HIDE DEF at
<1>6. \A k, l \in 1..n : k =< l => at[k] =< at[l]
  <2>1. \A k \in 2..n : at[k - 1] =< at[k]
    BY <1>2, <1>5
  <2> QED
    BY <1>2, <1>5, <2>1, NeverDecreases
<1>7. ASSUME NEW k \in 1..n
      PROVE  {y \in DOMAIN e : e[y].at < e[k].at \/ (e[y].at = e[k].at /\ y < k)} = {y \in 1..n : y < k}
  <2>1. ASSUME NEW y \in 1..n
        PROVE  at[y] < at[k] \/ (at[y] = at[k] /\ y < k) <=> y < k
    <3>1. y =< k => at[y] =< at[k]
      BY <1>6
    <3>2. k =< y => at[k] =< at[y]
      BY <1>6
    <3>3. at[y] \in Int /\ at[k] \in Int /\ y \in Int /\ k \in Int
      BY <1>2, <1>5
    <3> QED
      BY <3>1, <3>2, <3>3
  <2> QED
    BY <1>2, <1>5, <2>1
<1>8. Cardinality(DOMAIN e) = n
  <2>1. 1 \in Int /\ n \in Int
    BY <1>2
  <2>2. Cardinality(1..n) = IF 1 > n THEN 0 ELSE n - 1 + 1
    BY <2>1, FS_Interval
  <2> QED
    BY <1>2, <2>2
<1>9. ASSUME NEW k \in 1..n PROVE order[k] = k
  <2> DEFINE Before(x) == {y \in DOMAIN e : e[y].at < e[x].at \/ (e[y].at = e[x].at /\ y < x)}
  <2>1. \A x \in 1..n : Cardinality(Before(x)) = x - 1
    BY <1>2, <1>7, PlaceIsNumber
  <2>2. order[k] = CHOOSE x \in DOMAIN e : Cardinality(Before(x)) = k - 1
    BY <1>4, <1>8
  <2> HIDE DEF Before
  <2>3. k \in DOMAIN e /\ Cardinality(Before(k)) = k - 1
    BY <1>2, <2>1
  <2>4. order[k] \in DOMAIN e /\ Cardinality(Before(order[k])) = k - 1
    BY <2>2, <2>3
  <2>5. order[k] \in 1..n /\ order[k] - 1 = k - 1
    BY <1>2, <2>1, <2>4
  <2> QED
    BY <1>2, <2>5
<1>10. Timeline(i) = [k \in DOMAIN e |-> e[k]]
  BY <1>2, <1>3, <1>9
<1>11. [k \in DOMAIN e |-> e[k]] = e
  BY <1>1, <1>2, LenProperties DEF e
<1> QED
  BY <1>10, <1>11 DEF e, n

\* The incident list shows the newest first.
IncidentOrder ==
    InOrder(DOMAIN incidents, LAMBDA i, j :
        \/ incidents[i].opened > incidents[j].opened
        \/ incidents[i].opened = incidents[j].opened /\ i > j)

LEMMA NewestIncidentFirst ==
    ASSUME PastInv, NEW k \in 1..Len(incidents)
    PROVE  IncidentOrder[k] = Len(incidents) - k + 1
<1> DEFINE n == Len(incidents)
           order == IncidentOrder
           Before(j) == {i \in DOMAIN incidents :
                            \/ incidents[i].opened > incidents[j].opened
                            \/ incidents[i].opened = incidents[j].opened /\ i > j}
<1>1. /\ n \in Nat /\ DOMAIN incidents = 1..n /\ Cardinality(DOMAIN incidents) = n
      /\ \A i \in 1..n : incidents[i].opened \in Nat
  BY IncidentFacts
<1>2. order[k] = CHOOSE j \in DOMAIN incidents : Cardinality(Before(j)) = k - 1
  BY <1>1 DEF IncidentOrder, InOrder
<1>3. ASSUME NEW j \in 1..n PROVE Before(j) = {i \in 1..n : i > j}
  <2>1. ASSUME NEW i \in 1..n
        PROVE  (incidents[i].opened > incidents[j].opened
                  \/ (incidents[i].opened = incidents[j].opened /\ i > j)) <=> i > j
    <3>1. i < j => incidents[i].opened =< incidents[j].opened
      BY <1>1, IncidentsInOrder
    <3>2. j < i => incidents[j].opened =< incidents[i].opened
      BY <1>1, IncidentsInOrder
    <3>3. incidents[i].opened \in Nat /\ incidents[j].opened \in Nat /\ i \in Int /\ j \in Int
      BY <1>1
    <3>4. i = j => incidents[i].opened = incidents[j].opened
      OBVIOUS
    <3> QED
      BY <3>1, <3>2, <3>3, <3>4
  <2> QED
    BY <1>1, <2>1
<1> HIDE DEF Before, n, order
<1>4. \A j \in 1..n : Cardinality(Before(j)) = n - j
  BY <1>1, <1>3, PlaceIsNumber
<1>5. n - k + 1 \in 1..n /\ Cardinality(Before(n - k + 1)) = k - 1
  <2>1. k \in 1..n
    BY DEF n
  <2>2. n - k + 1 \in 1..n /\ n - (n - k + 1) = k - 1
    BY <1>1, <2>1
  <2> QED
    BY <1>4, <2>2
<1>6. order[k] \in 1..n /\ Cardinality(Before(order[k])) = k - 1
  BY <1>1, <1>2, <1>5
<1>7. n - order[k] = k - 1
  BY <1>4, <1>6
<1>8. order[k] = n - k + 1
  <2>1. k \in Int
    OBVIOUS
  <2> QED
    BY <1>1, <1>6, <1>7, <2>1
<1> QED
  BY <1>8 DEF order, n

\* Each row of the list, with the events that it shows.
LEMMA ListRows ==
    ASSUME PastInv, NEW k \in DOMAIN IncidentList
    PROVE  /\ IncidentList[k].ongoing <=> k = 1 /\ ms.current # Healthy
           /\ IncidentList[k].ongoing => IncidentList[k].latest = ms.current
           /\ IncidentList[k].events[1].type = "opened"
           /\ ~IncidentList[k].ongoing
                <=> IncidentList[k].events[Len(IncidentList[k].events)].type = "recovered"
<1> DEFINE n == Len(incidents)
           i == n - k + 1
           e == incidents[i].events
           row == IncidentList[k]
<1>1. n \in Nat /\ DOMAIN incidents = 1..n /\ ListLimit \in Nat
  BY IncidentFacts, ViewsAssumption
<1>2. IncidentList = [l \in 1..(IF n > ListLimit THEN ListLimit ELSE n) |->
                        [ongoing |-> incidents[IncidentOrder[l]].resolved = NULL,
                         latest |-> incidents[IncidentOrder[l]].latest,
                         events |-> Timeline(IncidentOrder[l])]]
  BY DEF IncidentList, IncidentOrder
<1>3. k \in 1..(IF n > ListLimit THEN ListLimit ELSE n)
  <2> HIDE DEF n
  <2> QED
    BY <1>2
<1>4. k \in 1..n
  BY <1>1, <1>3
<1>5. IncidentOrder[k] = i /\ i \in DOMAIN incidents
  BY <1>1, <1>4, NewestIncidentFirst
<1>6. /\ row.ongoing <=> incidents[i].resolved = NULL
      /\ row.latest = incidents[i].latest /\ row.events = Timeline(i)
  <2> HIDE DEF i, n
  <2>1. row = [ongoing |-> incidents[i].resolved = NULL,
               latest |-> incidents[i].latest, events |-> Timeline(i)]
    BY <1>2, <1>3, <1>5
  <2> HIDE DEF row
  <2> QED
    BY <2>1
<1> HIDE DEF row
<1>7. incidents[i].resolved = NULL <=> k = 1 /\ ms.current # Healthy
  <2>1. incidents[i].resolved = NULL <=> i = n /\ ms.current # Healthy
    BY <1>5, IncidentFacts
  <2>2. i = n <=> k = 1
    BY <1>1, <1>4
  <2> QED
    BY <2>1, <2>2
<1>8. incidents[i].resolved = NULL => incidents[i].latest = ms.current
  <2>1. VerdictMatchesIncidents
    BY DEF PastInv, StreakInv, Inv
  <2> QED
    BY <1>5, <2>1 DEF VerdictMatchesIncidents
<1>9. /\ Tells(incidents[i]) /\ e \in Seq(Event) /\ incidents[i] \in Incident
  <2>1. incidents \in Seq(Incident) /\ EventsTellTheStory
    BY DEF PastInv, StreakInv, Inv, TypeOK, Past
  <2>2. incidents[i] \in Incident
    BY <1>5, <2>1
  <2> QED
    BY <1>5, <2>1, <2>2 DEF Incident, EventsTellTheStory, Tells
<1> HIDE DEF i
<1>10. /\ Len(e) \in Nat /\ Len(e) > 0 /\ DOMAIN e = 1..Len(e)
  BY <1>9, LenProperties DEF Tells
<1>11. /\ Len(row.events) = Len(e) /\ row.events[1] = e[1] /\ row.events[Len(e)] = e[Len(e)]
  BY <1>5, <1>6, <1>10, TimelineIsEvents
<1>12. e[1].type = "opened"
  BY <1>9 DEF Tells
<1>13. incidents[i].resolved # NULL <=> e[Len(e)].type = "recovered"
  <2>1. CASE incidents[i].resolved = NULL
    <3>1. e[Len(e)].new = incidents[i].latest /\ incidents[i].latest # Healthy
      BY <1>9, <2>1, StateAssumption DEF Tells, Incident
    <3>2. Len(e) = 1 \/ Len(e) \in 2..Len(e)
      <4> DEFINE l == Len(e)
      <4>1. l \in Nat /\ l > 0
        BY <1>10
      <4> HIDE DEF l
      <4>2. l = 1 \/ l \in 2..l
        BY <4>1
      <4> QED
        BY <4>2 DEF l
    <3>3. e[Len(e)].type \in {"opened", "state_changed"}
      BY <1>9, <1>12, <3>1, <3>2 DEF Tells
    <3> QED
      BY <2>1, <3>3
  <2>2. CASE incidents[i].resolved # NULL
    <3>1. e[Len(e)].new = Healthy /\ e[1].new # Healthy
      BY <1>9, <2>2, StateAssumption DEF Tells, Incident
    <3>2. Len(e) \in 2..Len(e)
      BY <1>10, <3>1
    <3>3. e[Len(e)].type = "recovered"
      BY <1>9, <3>1, <3>2 DEF Tells
    <3> QED
      BY <2>2, <3>3
  <2> QED
    BY <2>1, <2>2
<1>14. /\ row.ongoing <=> k = 1 /\ ms.current # Healthy
       /\ row.ongoing => row.latest = ms.current
       /\ row.events[1].type = "opened"
       /\ ~row.ongoing <=> row.events[Len(row.events)].type = "recovered"
  BY <1>6, <1>7, <1>8, <1>11, <1>12, <1>13
<1> QED
  BY <1>14 DEF row

\* The availability, the pulse, the flag of an open incident and the incident list
\* tell one story, for any window, any bucket width and any limit of the list.
THEOREM ViewsOfIncidentsAgree == Spec => []IncidentViewsAgree
<1>1. ASSUME PastInv PROVE IncidentViewsAgree
  <2>1. ASSUME NEW now \in clock..(MaxTime + 1), NEW since \in 0..MaxTime,
               log # <<>>, ObservedStart(since) =< now
        PROVE  /\ Downtime(since, now) =
                     Cardinality({s \in ObservedStart(since)..(now - 1) : Down(s)})
               /\ \A w \in BucketWidths, s \in since..(now - 1) :
                     Down(s) => PulseState(s - (s % w), w, since, now) = "outage"
               /\ clock < now => (OpenIncidentFlag(since, now) <=> ms.current # Healthy)
    <3>1. now \in Nat /\ since \in Nat
      BY <1>1, IncidentFacts, BoundAssumption
    <3> QED
      BY <1>1, <2>1, <3>1, DowntimeCounts, PulseShows, FlagShows
  <2>2. \A k \in DOMAIN IncidentList :
           /\ IncidentList[k].ongoing <=> k = 1 /\ ms.current # Healthy
           /\ IncidentList[k].ongoing => IncidentList[k].latest = ms.current
           /\ IncidentList[k].events[1].type = "opened"
           /\ ~IncidentList[k].ongoing
                <=> IncidentList[k].events[Len(IncidentList[k].events)].type = "recovered"
    BY <1>1, ListRows
  <2> QED
    BY <2>1, <2>2 DEF IncidentViewsAgree
<1> QED
  BY <1>1, InitPast, NextPast, PTL DEF Spec
===============================================================================
