-------------------------------- MODULE Outbox --------------------------------
(***************************************************************************)
(* Notifications, from the commit of an incident event to the ntfy server: *)
(* enqueueNotification, which the check goroutine calls after the          *)
(* transaction of recordResult has committed, the notification worker,     *)
(* which reads a batch of due rows and sends one after the other, and the  *)
(* operator's resets and channel settings between any two of these steps.  *)
(*                                                                         *)
(* A step is one statement, one transaction or one HTTP exchange with the  *)
(* server.  Checks of one monitor do not overlap (CheckScheduler), so a    *)
(* monitor has at most one event between commit and queue.  Which events a *)
(* monitor can have is Incidents' subject: here an event belongs to the    *)
(* monitor's unresolved incident or opens one.  deleteMonitor removes what *)
(* resetHistory removes.                                                   *)
(*                                                                         *)
(* incidents.id and notification_outbox.id are given out like monitors.id: *)
(* one more than the largest in the table.                                 *)
(*                                                                         *)
(* Left out: message texts, the URL of the channel (replacing it), test    *)
(* messages (they bypass the outbox), and events nobody is told about      *)
(* because no channel was enabled.                                         *)
(***************************************************************************)
EXTENDS Integers, FiniteSets

CONSTANTS Monitors,
          BatchSize,      \* LIMIT of deliverNotifications
          MaxAttempts,    \* bound: attempts are counted up to here, 6 in the code
          MaxEvents,      \* bound: events in a behaviour
          MaxResets,      \* bound: resets and deletions
          MaxFaults       \* bound: crashes, lost answers, failed updates

ASSUME OutboxAssumption ==
    /\ BatchSize \in Nat \ {0} /\ MaxAttempts \in 1..6
    /\ MaxEvents \in Nat /\ MaxResets \in Nat /\ MaxFaults \in Nat

VARIABLES
    incidents,    \* incidents, id -> its monitor and whether it is unresolved
    outbox,       \* notification_outbox, id -> row
    channel,      \* the ntfy row of notification_channels
    enqueueing,   \* monitor -> the event its check has committed but not queued
    batch,        \* id -> job, what is left of the worker's batch
    outcome,      \* how the job the worker has just tried went, if it has
    events,       \* events committed so far: their number names an event
    resets, faults,
    tried,        \* history: the events the worker has tried to send
    received,     \* history: how often the server has accepted each event
    doubts        \* history: how often that was not recorded in the outbox

tableVars == <<incidents, outbox, channel>>
workVars  == <<enqueueing, batch, outcome>>
countVars == <<events, resets, faults>>
histVars  == <<tried, received, doubts>>
vars == <<tableVars, workVars, countVars, histVars>>

Events == 1..MaxEvents
Nothing == [k \in {} |-> {}]
Put(f, k, v) == [x \in DOMAIN f \cup {k} |-> IF x = k THEN v ELSE f[x]]
Keep(f, S) == [x \in DOMAIN f \cap S |-> f[x]]
Drop(f, S) == Keep(f, DOMAIN f \ S)

IsNextId(id, table) == /\ \A other \in DOMAIN table : other < id
                       /\ id = 1 \/ id - 1 \in DOMAIN table

\* The time to the next attempt, 1 << min(attempt, 6) minutes and at most an hour,
\* in units of two minutes.
Backoff == <<1, 2, 4, 8, 16, 30>>

\* usurped is history: the row was given an id the worker has a job for.
Row == [event : Events, incident : Events, status : {"pending", "retry", "delivered"},
        attempts : 0..MaxAttempts, wait : 0..30, usurped : BOOLEAN]
Job == [event : Events, attempts : 0..MaxAttempts]

Init == /\ incidents = Nothing
        /\ outbox = Nothing
        /\ channel = "none"
        /\ enqueueing = Nothing
        /\ batch = Nothing
        /\ outcome = "none"
        /\ events = 0 /\ resets = 0 /\ faults = 0
        /\ tried = {}
        /\ received = [e \in Events |-> 0]
        /\ doubts = [e \in Events |-> 0]

-------------------------------------------------------------------------------
(* The check goroutine *)

\* recordResult commits an event: it opens an incident, or changes or resolves
\* the unresolved one.
Commit(m) ==
    /\ m \notin DOMAIN enqueueing
    /\ events < MaxEvents
    /\ events' = events + 1
    /\ \E id \in Events :
          /\ \/ /\ id \in DOMAIN incidents
                /\ incidents[id].monitor = m /\ incidents[id].open
                /\ \E open \in BOOLEAN : incidents' = [incidents EXCEPT ![id].open = open]
             \/ /\ \A i \in DOMAIN incidents : incidents[i].monitor = m => ~incidents[i].open
                /\ IsNextId(id, incidents)
                /\ incidents' = Put(incidents, id, [monitor |-> m, open |-> TRUE])
          /\ enqueueing' = Put(enqueueing, m, [event |-> events + 1, incident |-> id])
    /\ UNCHANGED <<outbox, channel, batch, outcome, resets, faults, histVars>>

\* The INSERT.  Its error, as when the incident is gone by now, is ignored.
Enqueue(m) ==
    /\ m \in DOMAIN enqueueing
    /\ \/ /\ channel = "enabled" /\ enqueueing[m].incident \in DOMAIN incidents
          /\ \E id \in Events :
                /\ IsNextId(id, outbox)
                /\ outbox' = Put(outbox, id,
                      [event |-> enqueueing[m].event, incident |-> enqueueing[m].incident,
                       status |-> "pending", attempts |-> 0, wait |-> 0,
                       usurped |-> id \in DOMAIN batch])
       \/ /\ ~(channel = "enabled" /\ enqueueing[m].incident \in DOMAIN incidents)
          /\ UNCHANGED outbox
    /\ enqueueing' = Drop(enqueueing, {m})
    /\ UNCHANGED <<incidents, channel, batch, outcome, countVars, histVars>>

-------------------------------------------------------------------------------
(* The notification worker *)

Due(id) == outbox[id].status \in {"pending", "retry"} /\ outbox[id].wait = 0
Jobs(ids) == [id \in ids |-> [event |-> outbox[id].event, attempts |-> outbox[id].attempts]]
IsBatch(ids, due) == /\ ids # {} /\ ids \subseteq due
                     /\ Cardinality(ids) =< BatchSize
                     /\ Cardinality(ids) = BatchSize \/ ids = due

FetchFault ==                               \* mutant: the query has no ORDER BY
    /\ batch = Nothing
    /\ channel # "none"
    /\ \E ids \in SUBSET DOMAIN outbox :
          /\ IsBatch(ids, {id \in DOMAIN outbox : Due(id)})
          /\ batch' = Jobs(ids)
    /\ UNCHANGED <<tableVars, enqueueing, outcome, countVars, histVars>>

FetchAllFault ==                            \* mutant: delivered rows are read again
    /\ batch = Nothing
    /\ channel # "none"
    /\ \E ids \in SUBSET DOMAIN outbox :
          /\ IsBatch(ids, {id \in DOMAIN outbox : outbox[id].wait = 0})
          /\ \A id \in ids, other \in DOMAIN outbox \ ids : outbox[other].wait = 0 => id < other
          /\ batch' = Jobs(ids)
    /\ UNCHANGED <<tableVars, enqueueing, outcome, countVars, histVars>>

FetchPendingFault ==                        \* mutant: rows to retry are not read
    /\ batch = Nothing
    /\ channel # "none"
    /\ \E ids \in SUBSET DOMAIN outbox :
          /\ IsBatch(ids, {id \in DOMAIN outbox : outbox[id].status = "pending"})
          /\ \A id \in ids, other \in DOMAIN outbox \ ids :
                outbox[other].status = "pending" => id < other
          /\ batch' = Jobs(ids)
    /\ UNCHANGED <<tableVars, enqueueing, outcome, countVars, histVars>>

\* deliverNotifications: the due rows with the lowest ids, whether or not the
\* channel is enabled (the JOIN only needs its row).
Fetch ==
    /\ batch = Nothing
    /\ channel # "none"
    /\ \E ids \in SUBSET DOMAIN outbox :
          /\ IsBatch(ids, {id \in DOMAIN outbox : Due(id)})
          /\ \A id \in ids, other \in DOMAIN outbox \ ids : Due(other) => id < other
          /\ batch' = Jobs(ids)
    /\ UNCHANGED <<tableVars, enqueueing, outcome, countVars, histVars>>

\* The job the worker is at: it takes them in the order of the query.
Current(id) == id \in DOMAIN batch /\ \A other \in DOMAIN batch : id =< other

Trying(e) == /\ outcome = "none"
             /\ \E id \in DOMAIN batch : Current(id) /\ batch[id].event = e
             /\ tried' = tried \cup {e}

\* The server has accepted the message and the worker knows.
Accepted(e) ==
    /\ Trying(e)
    /\ received' = [received EXCEPT ![e] = @ + 1]
    /\ outcome' = "accepted"
    /\ UNCHANGED <<tableVars, enqueueing, batch, countVars, doubts>>

\* No answer, an answer other than 2xx, or a credential that cannot be decrypted.
Refused(e) ==
    /\ Trying(e)
    /\ outcome' = "failed"
    /\ UNCHANGED <<tableVars, enqueueing, batch, countVars, received, doubts>>

\* The server has accepted the message but its answer is lost or late.
AnswerLost(e) ==
    /\ Trying(e)
    /\ faults < MaxFaults
    /\ faults' = faults + 1
    /\ received' = [received EXCEPT ![e] = @ + 1]
    /\ doubts' = [doubts EXCEPT ![e] = @ + 1]
    /\ outcome' = "failed"
    /\ UNCHANGED <<tableVars, enqueueing, batch, events, resets>>

Send(e) == Accepted(e) \/ Refused(e) \/ AnswerLost(e)

More(attempts) == IF attempts < MaxAttempts THEN attempts + 1 ELSE attempts
Delivered(row) == [row EXCEPT !.status = "delivered", !.attempts = More(@)]
Retry(row, attempts) == [row EXCEPT !.status = "retry", !.attempts = attempts,
                                    !.wait = Backoff[attempts]]
AfterTry(row, job) == IF outcome = "accepted" THEN Delivered(row)
                                              ELSE Retry(row, More(job.attempts))

Done(id) == /\ batch' = Drop(batch, {id})
            /\ outcome' = "none"

StoreFault(id) ==                           \* mutant: any outcome counts as delivered
    /\ outcome # "none"
    /\ Current(id)
    /\ outbox' = [i \in DOMAIN outbox |-> IF i = id THEN Delivered(outbox[i]) ELSE outbox[i]]
    /\ Done(id)
    /\ UNCHANGED <<incidents, channel, enqueueing, countVars, histVars>>

StoreGivesUpFault(id) ==                    \* mutant: the last attempt is final
    /\ outcome # "none"
    /\ Current(id)
    /\ outbox' = [i \in DOMAIN outbox |->
                     IF i # id THEN outbox[i]
                     ELSE IF outcome = "failed" /\ batch[id].attempts = MaxAttempts
                     THEN [outbox[i] EXCEPT !.status = "failed"]
                     ELSE AfterTry(outbox[i], batch[id])]
    /\ Done(id)
    /\ UNCHANGED <<incidents, channel, enqueueing, countVars, histVars>>

\* deliverNtfy's UPDATE ... WHERE id: of whatever row has that id by now.
Store(id) ==
    /\ outcome # "none"
    /\ Current(id)
    /\ outbox' = [i \in DOMAIN outbox |->
                     IF i = id THEN AfterTry(outbox[i], batch[id]) ELSE outbox[i]]
    /\ Done(id)
    /\ UNCHANGED <<incidents, channel, enqueueing, countVars, histVars>>

Doubt == \/ /\ outcome = "accepted"
            /\ \E id \in DOMAIN batch :
                  Current(id) /\ doubts' = [doubts EXCEPT ![batch[id].event] = @ + 1]
         \/ outcome # "accepted" /\ UNCHANGED doubts

\* The UPDATE fails (SQLITE_BUSY, a full disk); its error is ignored.
StoreFails(id) ==
    /\ outcome # "none"
    /\ Current(id)
    /\ faults < MaxFaults
    /\ faults' = faults + 1
    /\ Doubt
    /\ Done(id)
    /\ UNCHANGED <<tableVars, enqueueing, events, resets, tried, received>>

-------------------------------------------------------------------------------
(* The operator, the process, the clock *)

\* putNtfy: the first time a URL has to be given with it.
PutNtfy(enabled) ==
    /\ channel' = IF enabled THEN "enabled" ELSE "disabled"
    /\ UNCHANGED <<incidents, outbox, workVars, countVars, histVars>>

\* resetHistory, of one monitor or of all of them, and deleteMonitor.
Reset(S) ==
    LET gone == {id \in DOMAIN incidents : incidents[id].monitor \in S} IN
    /\ resets < MaxResets
    /\ resets' = resets + 1
    /\ incidents' = Drop(incidents, gone)
    /\ outbox' = Drop(outbox, {id \in DOMAIN outbox : outbox[id].incident \in gone})
    /\ UNCHANGED <<channel, workVars, events, faults, histVars>>

\* What is not in the database is gone: events not queued yet, and the batch.
Crash ==
    /\ faults < MaxFaults
    /\ faults' = faults + 1
    /\ Doubt
    /\ enqueueing' = Nothing
    /\ batch' = Nothing
    /\ outcome' = "none"
    /\ UNCHANGED <<tableVars, events, resets, tried, received>>

\* Two minutes pass.
Elapse ==
    /\ \E id \in DOMAIN outbox : outbox[id].wait > 0
    /\ outbox' = [id \in DOMAIN outbox |->
                     [outbox[id] EXCEPT !.wait = IF @ > 0 THEN @ - 1 ELSE 0]]
    /\ UNCHANGED <<incidents, channel, workVars, countVars, histVars>>

Next == \/ \E m \in Monitors : Commit(m) \/ Enqueue(m) \/ Reset({m})
        \/ Reset(Monitors)
        \/ Fetch
        \/ \E e \in Events : Send(e)
        \/ \E id \in Events : Store(id) \/ StoreFails(id)
        \/ \E enabled \in BOOLEAN : PutNtfy(enabled)
        \/ Crash \/ Elapse

Spec == Init /\ [][Next]_vars

\* The worker's ticker and the clock go on, an exchange with the server ends (the
\* client has a timeout), and a message that is tried again and again is accepted.
Fairness == /\ WF_vars(Fetch) /\ WF_vars(\E id \in Events : Store(id)) /\ WF_vars(Elapse)
            /\ WF_vars(\E e \in Events : Send(e)) /\ \A e \in Events : SF_vars(Accepted(e))

FairSpec == Spec /\ Fairness

-------------------------------------------------------------------------------
(* Properties *)

TypeOK ==
    /\ DOMAIN incidents \subseteq Events
    /\ \A id \in DOMAIN incidents : incidents[id] \in [monitor : Monitors, open : BOOLEAN]
    /\ DOMAIN outbox \subseteq Events
    /\ \A id \in DOMAIN outbox : outbox[id] \in Row
    /\ channel \in {"none", "enabled", "disabled"}
    /\ DOMAIN enqueueing \subseteq Monitors
    /\ \A m \in DOMAIN enqueueing : enqueueing[m] \in [event : Events, incident : Events]
    /\ DOMAIN batch \subseteq Events
    /\ \A id \in DOMAIN batch : batch[id] \in Job
    /\ outcome \in {"none", "accepted", "failed"}
    /\ outcome # "none" => batch # Nothing
    /\ events \in 0..MaxEvents /\ resets \in 0..MaxResets /\ faults \in 0..MaxFaults
    /\ tried \subseteq Events
    /\ received \in [Events -> Nat] /\ doubts \in [Events -> Nat]

\* A row that says delivered has been delivered: no crash, lost answer, failed
\* update or reset makes the outbox take a message for sent that the server never
\* had.  (Except under an id that a reset set free while the worker had a job of it.)
DeliveredWasReceived ==
    \A id \in DOMAIN outbox :
        outbox[id].status = "delivered" /\ ~outbox[id].usurped => received[outbox[id].event] > 0

\* The same without the exception.
DeliveredMeansReceived ==
    \A id \in DOMAIN outbox :
        outbox[id].status = "delivered" => received[outbox[id].event] > 0

\* Messages are tried in the order in which they were queued, however long the
\* queue has become: only a second attempt can let a later message overtake.
TriedInOrder ==
    \A id, other \in DOMAIN outbox :
        id < other /\ outbox[other].event \in tried =>
            outbox[id].event \in tried \/ outbox[id].usurped

\* The server gets a message again only if an earlier acceptance went unrecorded:
\* once for each crash, lost answer or failed update between acceptance and record.
ResentOnlyInDoubt == \A e \in Events : received[e] =< 1 + doubts[e]

\* A message that has been queued reaches the server, unless a reset removes it
\* (or its row's id was usurped).
Waiting(e) == \E id \in DOMAIN outbox : outbox[id].event = e /\ ~outbox[id].usurped
QueuedIsReceived ==
    \A e \in Events : Waiting(e) ~> (received[e] > 0 \/ ~Waiting(e))
===============================================================================
