---------------------------- MODULE IncidentViews ----------------------------
(***************************************************************************)
(* What the endpoints make of the incidents of a monitor: the overview's   *)
(* availability, the outages of the dashboard's pulse and the incident     *)
(* list.  Each is an operator on the tables and on the time of the request.*)
(*                                                                         *)
(* Downtime and observed time are compared instead of their quotient.      *)
(* Results that retention has removed are History's subject: here the      *)
(* first check is the first of the log.                                    *)
(***************************************************************************)
EXTENDS Incidents, Ordering, FiniteSetsExt, Functions

CONSTANTS BucketWidths,   \* of the dashboard's ranges
          ListLimit       \* LIMIT of listIncidents

ASSUME ViewsAssumption == BucketWidths \subseteq Nat \ {0} /\ ListLimit \in Nat \ {0}

Later(a, b) == IF a > b THEN a ELSE b
Ends(i, now) == IF incidents[i].resolved = NULL \/ incidents[i].resolved > now
                THEN now ELSE incidents[i].resolved

\* The incidents of the query for a time window, as overview and dashboard ask it.
Overlapping(since, now) ==
    {i \in DOMAIN incidents : /\ incidents[i].opened < now
                              /\ incidents[i].resolved = NULL \/ incidents[i].resolved > since}

-------------------------------------------------------------------------------
(* overview, confirmedAvailability *)

ObservedStart(cutoff) == Later(log[1].at, cutoff)

ClippedFault(i, start, now) == Later(Ends(i, now) - incidents[i].opened, 0)  \* mutant
Clipped(i, start, now) == Later(Ends(i, now) - Later(incidents[i].opened, start), 0)

\* The sum, before it is cut off at the observed seconds.
Downtime(cutoff, now) ==
    LET start == ObservedStart(cutoff)
        periods == {i \in Overlapping(cutoff, now) :
                       incidents[i].resolved = NULL \/ incidents[i].resolved > start}
    IN  SumFunctionOnSet([i \in periods |-> Clipped(i, start, now)], periods)

OpenIncidentFlag(cutoff, now) == \E i \in Overlapping(cutoff, now) : incidents[i].resolved = NULL

-------------------------------------------------------------------------------
(* seriesFromRollups, overlayIncidentStates *)

PulseState(bucket, width, since, now) ==
    IF \E i \in Overlapping(since, now) :
          /\ incidents[i].opened < bucket + width
          /\ incidents[i].resolved = NULL \/ incidents[i].resolved > bucket
    THEN "outage"
    ELSE IF \E k \in DOMAIN log : /\ log[k].state # Unknown
                                  /\ bucket =< log[k].at /\ log[k].at < bucket + width
    THEN Healthy ELSE Unknown

-------------------------------------------------------------------------------
(* listIncidents *)

\* ORDER BY created_at, id.
Timeline(i) ==
    LET e == incidents[i].events
        order == InOrder(DOMAIN e, LAMBDA a, b : e[a].at < e[b].at \/ (e[a].at = e[b].at /\ a < b))
    IN  [k \in DOMAIN e |-> e[order[k]]]

\* ORDER BY opened_at DESC, id DESC LIMIT.
IncidentList ==
    LET order == InOrder(DOMAIN incidents, LAMBDA i, j :
                    \/ incidents[i].opened > incidents[j].opened
                    \/ incidents[i].opened = incidents[j].opened /\ i > j)
        n == IF Len(incidents) > ListLimit THEN ListLimit ELSE Len(incidents)
    IN  [k \in 1..n |-> [ongoing |-> incidents[order[k]].resolved = NULL,
                         latest |-> incidents[order[k]].latest,
                         events |-> Timeline(order[k])]]

-------------------------------------------------------------------------------
(* Properties *)

Down(s) == \E i \in DOMAIN incidents :
              incidents[i].opened =< s /\ (incidents[i].resolved = NULL \/ s < incidents[i].resolved)

\* The three views of the incidents tell one story, at whatever time they are asked
\* and however the window cuts the incidents.  The downtime of the overview counts
\* every second inside an incident once, so it never exceeds the observed time; the
\* pulse shows an outage in every bucket that has such a second; and the list shows
\* the newest incident first, the ongoing one if the monitor is not healthy, each
\* with a timeline that opens it and, when it is over, ends in its recovery.
IncidentViewsAgree ==
    /\ \A now \in clock..(MaxTime + 1), since \in 0..MaxTime :
          log # <<>> /\ ObservedStart(since) =< now =>
             /\ Downtime(since, now) =
                   Cardinality({s \in ObservedStart(since)..(now - 1) : Down(s)})
             /\ \A w \in BucketWidths, s \in since..(now - 1) :
                   Down(s) => PulseState(s - (s % w), w, since, now) = "outage"
             /\ clock < now => (OpenIncidentFlag(since, now) <=> ms.current # Healthy)
    /\ LET list == IncidentList IN
       \A k \in DOMAIN list :
          /\ list[k].ongoing <=> k = 1 /\ ms.current # Healthy
          /\ list[k].ongoing => list[k].latest = ms.current
          /\ list[k].events[1].type = "opened"
          /\ ~list[k].ongoing <=> list[k].events[Len(list[k].events)].type = "recovered"
===============================================================================
