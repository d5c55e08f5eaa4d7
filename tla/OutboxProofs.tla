----------------------------- MODULE OutboxProofs -----------------------------
(***************************************************************************)
(* Outbox keeps its types, what it records as delivered has been received  *)
(* by the server, a message is sent again only when its acceptance may     *)
(* have gone unrecorded, and first attempts keep the order of the queue.   *)
(* Three invariants carry this.  Inv says what the worker knows: the row   *)
(* of a job is still about the job's event, unless a reset has given its   *)
(* id to another one, and an accepted job has been received.  SendInv adds *)
(* that an event is in one place, and that what may still be sent is owed  *)
(* no more receipts than it has doubts; OrderInv that the batch skips      *)
(* nothing that has not been tried.                                        *)
(***************************************************************************)
EXTENDS Outbox, TLAPS

\* A job and the row of its id are about the same event, unless a reset came
\* between them (enqueueNotification then marks nothing, but the id is usurped).
JobsMatch ==
    \A id \in DOMAIN batch :
        id \in DOMAIN outbox /\ ~outbox[id].usurped => outbox[id].event = batch[id].event

\* The worker takes a job for accepted only after the server has accepted it.
AcceptedIsReceived ==
    outcome = "accepted" =>
        \A id \in DOMAIN batch : Current(id) => received[batch[id].event] > 0

Inv == TypeOK /\ JobsMatch /\ AcceptedIsReceived /\ DeliveredWasReceived

\* The delays of deliverNtfy: at most an hour for every number of attempts.
LEMMA BackoffBounded == \A n \in 1..6 : Backoff[n] \in 1..30
  BY DEF Backoff

\* One more attempt, up to the bound.
LEMMA MoreTyped == ASSUME NEW n \in 0..MaxAttempts PROVE More(n) \in 1..MaxAttempts
  BY OutboxAssumption DEF More

LEMMA AfterTryTyped ==
  ASSUME NEW row \in Row, NEW job \in Job
  PROVE  /\ AfterTry(row, job) \in Row
         /\ AfterTry(row, job).event = row.event
         /\ AfterTry(row, job).usurped = row.usurped
         /\ AfterTry(row, job).status = "delivered" => outcome = "accepted"
<1>1. More(row.attempts) \in 1..MaxAttempts /\ More(job.attempts) \in 1..MaxAttempts
  BY MoreTyped DEF Row, Job
<1>2. Backoff[More(job.attempts)] \in 0..30
  BY <1>1, BackoffBounded, OutboxAssumption
<1>3. ASSUME NEW status \in {"retry", "delivered"}, NEW n \in 0..MaxAttempts, NEW wait \in 0..30
      PROVE  /\ [row EXCEPT !.status = status, !.attempts = n] \in Row
             /\ [row EXCEPT !.status = status, !.attempts = n, !.wait = wait] \in Row
  BY DEF Row
<1>4. 1..MaxAttempts \subseteq 0..MaxAttempts
  BY OutboxAssumption
<1>5. CASE outcome = "accepted"
  <2>1. AfterTry(row, job) = [row EXCEPT !.status = "delivered", !.attempts = More(row.attempts)]
    BY <1>5 DEF AfterTry, Delivered, Row
  <2>2. QED
    BY <2>1, <1>1, <1>3, <1>4, <1>5 DEF Row
<1>6. CASE outcome # "accepted"
  <2>1. AfterTry(row, job) = [row EXCEPT !.status = "retry", !.attempts = More(job.attempts),
                                         !.wait = Backoff[More(job.attempts)]]
    BY <1>6 DEF AfterTry, Retry
  <2>2. More(job.attempts) \in 0..MaxAttempts
    BY <1>1, <1>4
  <2>3. AfterTry(row, job) \in Row
    BY <2>1, <2>2, <1>2, <1>3
  <2>4. AfterTry(row, job).event = row.event /\ AfterTry(row, job).usurped = row.usurped
    BY <2>1 DEF Row
  <2>5. AfterTry(row, job).status = "retry"
    BY <2>1 DEF Row
  <2>6. QED
    BY <2>3, <2>4, <2>5
<1>7. QED
  BY <1>5, <1>6

\* A new id is not in the table it is given out by.
LEMMA NextIdIsNew ==
  ASSUME NEW table, DOMAIN table \subseteq Events, NEW id \in Events, IsNextId(id, table)
  PROVE  id \notin DOMAIN table
  BY OutboxAssumption DEF IsNextId, Events

\* There is only one current job.
LEMMA CurrentIsUnique ==
  ASSUME DOMAIN batch \subseteq Events, NEW id, NEW other, Current(id), Current(other)
  PROVE  id = other
<1>1. id \in Int /\ other \in Int
  BY OutboxAssumption DEF Current, Events
<1>2. id =< other /\ other =< id
  BY DEF Current
<1>3. QED
  BY <1>1, <1>2

LEMMA InitInv == Init => Inv
  BY OutboxAssumption DEF Init, Inv, TypeOK, JobsMatch, AcceptedIsReceived,
     DeliveredWasReceived, Nothing, Events

LEMMA StepInv == Inv /\ [Next]_vars => Inv'
<1> SUFFICES ASSUME Inv, [Next]_vars PROVE Inv'
  OBVIOUS
<1> USE OutboxAssumption
<1>1. ASSUME NEW m \in Monitors, Commit(m) PROVE Inv'
  <2>1. PICK id \in Events :
           /\ \/ /\ id \in DOMAIN incidents
                 /\ \E open \in BOOLEAN : incidents' = [incidents EXCEPT ![id].open = open]
              \/ incidents' = Put(incidents, id, [monitor |-> m, open |-> TRUE])
           /\ enqueueing' = Put(enqueueing, m, [event |-> events + 1, incident |-> id])
    BY <1>1 DEF Commit
  <2>2. events' = events + 1 /\ events' \in 0..MaxEvents /\ events + 1 \in Events
    BY <1>1 DEF Commit, Inv, TypeOK, Events
  <2>3. UNCHANGED <<outbox, channel, batch, outcome, resets, faults, histVars>>
    BY <1>1 DEF Commit
  <2>4. /\ DOMAIN incidents' \subseteq Events
        /\ \A i \in DOMAIN incidents' : incidents'[i] \in [monitor : Monitors, open : BOOLEAN]
    <3>1. CASE /\ id \in DOMAIN incidents
               /\ \E open \in BOOLEAN : incidents' = [incidents EXCEPT ![id].open = open]
      <4>1. PICK open \in BOOLEAN : incidents' = [incidents EXCEPT ![id].open = open]
        BY <3>1
      <4>2. incidents'[id] = [incidents[id] EXCEPT !.open = open]
        BY <3>1, <4>1
      <4>3. \A i \in DOMAIN incidents : i # id => incidents'[i] = incidents[i]
        BY <4>1
      <4>4. DOMAIN incidents' = DOMAIN incidents
        BY <4>1
      <4>5. QED
        BY <3>1, <4>2, <4>3, <4>4 DEF Inv, TypeOK
    <3>2. CASE incidents' = Put(incidents, id, [monitor |-> m, open |-> TRUE])
      BY <3>2 DEF Put, Inv, TypeOK
    <3>3. QED
      BY <2>1, <3>1, <3>2
  <2>5. /\ DOMAIN enqueueing' \subseteq Monitors
        /\ \A n \in DOMAIN enqueueing' : enqueueing'[n] \in [event : Events, incident : Events]
    BY <2>1, <2>2 DEF Put, Inv, TypeOK
  <2>6. QED
    BY <2>2, <2>3, <2>4, <2>5 DEF Inv, TypeOK, JobsMatch, AcceptedIsReceived,
       DeliveredWasReceived, Current, histVars
<1>2. ASSUME NEW m \in Monitors, Enqueue(m) PROVE Inv'
  <2>1. m \in DOMAIN enqueueing /\ enqueueing' = Drop(enqueueing, {m})
    BY <1>2 DEF Enqueue
  <2>2. UNCHANGED <<incidents, channel, batch, outcome, countVars, histVars>>
    BY <1>2 DEF Enqueue
  <2>3. /\ DOMAIN enqueueing' \subseteq Monitors
        /\ \A n \in DOMAIN enqueueing' : enqueueing'[n] \in [event : Events, incident : Events]
    BY <2>1 DEF Drop, Keep, Inv, TypeOK
  <2>4. CASE UNCHANGED outbox
    BY <2>2, <2>3, <2>4 DEF Inv, TypeOK, JobsMatch, AcceptedIsReceived,
       DeliveredWasReceived, Current, histVars, countVars
  <2>5. CASE \E id \in Events :
                /\ IsNextId(id, outbox)
                /\ outbox' = Put(outbox, id,
                      [event |-> enqueueing[m].event, incident |-> enqueueing[m].incident,
                       status |-> "pending", attempts |-> 0, wait |-> 0,
                       usurped |-> id \in DOMAIN batch])
    <3>1. PICK id \in Events :
             /\ IsNextId(id, outbox)
             /\ outbox' = Put(outbox, id,
                   [event |-> enqueueing[m].event, incident |-> enqueueing[m].incident,
                    status |-> "pending", attempts |-> 0, wait |-> 0,
                    usurped |-> id \in DOMAIN batch])
      BY <2>5
    <3>2. id \notin DOMAIN outbox
      BY <3>1, NextIdIsNew DEF Inv, TypeOK
    <3>3. /\ DOMAIN outbox' = DOMAIN outbox \cup {id}
          /\ \A i \in DOMAIN outbox : outbox'[i] = outbox[i]
          /\ outbox'[id] \in Row
          /\ outbox'[id].status = "pending"
          /\ outbox'[id].usurped = (id \in DOMAIN batch)
      BY <3>1, <3>2, <2>1 DEF Put, Row, Inv, TypeOK
    <3>4. QED
      BY <2>2, <2>3, <3>3 DEF Inv, TypeOK, JobsMatch, AcceptedIsReceived,
         DeliveredWasReceived, Current, histVars, countVars
  <2>6. QED
    BY <1>2, <2>4, <2>5 DEF Enqueue
<1>3. ASSUME Fetch PROVE Inv'
  <2>1. PICK ids \in SUBSET DOMAIN outbox : ids # {} /\ batch' = Jobs(ids)
    BY <1>3 DEF Fetch, IsBatch
  <2>2. /\ UNCHANGED <<tableVars, enqueueing, outcome, countVars, histVars>>
        /\ outcome = "none"
    BY <1>3 DEF Fetch, Inv, TypeOK
  <2>3. /\ DOMAIN batch' = ids
        /\ \A id \in ids : batch'[id] \in Job /\ batch'[id].event = outbox[id].event
    BY <2>1 DEF Jobs, Job, Row, Inv, TypeOK
  <2>4. QED
    BY <2>1, <2>2, <2>3 DEF Inv, TypeOK, JobsMatch, AcceptedIsReceived,
       DeliveredWasReceived, tableVars, countVars, histVars
<1>4. ASSUME NEW e \in Events, Send(e) PROVE Inv'
  <2>1. PICK id \in DOMAIN batch : Current(id) /\ batch[id].event = e
    BY <1>4 DEF Send, Accepted, Refused, AnswerLost, Trying
  <2>2. \A other \in DOMAIN batch : Current(other) => batch[other].event = e
    BY <2>1, CurrentIsUnique DEF Inv, TypeOK
  <2>3. UNCHANGED <<tableVars, enqueueing, batch, events, resets>> /\ faults' \in 0..MaxFaults
    BY <1>4 DEF Send, Accepted, Refused, AnswerLost, countVars, Inv, TypeOK
  <2>4. /\ tried' \subseteq Events
        /\ received' \in [Events -> Nat] /\ doubts' \in [Events -> Nat]
        /\ \A f \in Events : received'[f] >= received[f]
        /\ outcome' \in {"accepted", "failed"}
        /\ outcome' = "accepted" => received'[e] > 0
    BY <1>4 DEF Send, Accepted, Refused, AnswerLost, Trying, Inv, TypeOK
  <2>5. batch # Nothing /\ batch' = batch
    BY <2>1, <2>3 DEF Nothing
  <2>6. TypeOK'
    BY <2>3, <2>4, <2>5 DEF Inv, TypeOK, tableVars
  <2>7. JobsMatch'
    BY <2>3 DEF Inv, JobsMatch, tableVars
  <2>8. AcceptedIsReceived'
    BY <2>2, <2>4, <2>5 DEF AcceptedIsReceived, Current
  <2>9. DeliveredWasReceived'
    BY <2>3, <2>4 DEF Inv, TypeOK, Row, DeliveredWasReceived, tableVars
  <2>10. QED
    BY <2>6, <2>7, <2>8, <2>9 DEF Inv
<1>5. ASSUME NEW id \in Events, Store(id) PROVE Inv'
  <2>1. /\ id \in DOMAIN batch /\ Current(id)
        /\ UNCHANGED <<incidents, channel, enqueueing, countVars, histVars>>
        /\ outcome' = "none"
        /\ DOMAIN batch' = DOMAIN batch \ {id}
        /\ \A i \in DOMAIN batch' : batch'[i] = batch[i]
        /\ DOMAIN outbox' = DOMAIN outbox
        /\ \A i \in DOMAIN outbox : outbox'[i] =
              IF i = id THEN AfterTry(outbox[i], batch[id]) ELSE outbox[i]
    BY <1>5 DEF Store, Current, Done, Drop, Keep
  <2>2. \A i \in DOMAIN outbox :
           /\ outbox'[i] \in Row
           /\ outbox'[i].event = outbox[i].event /\ outbox'[i].usurped = outbox[i].usurped
    BY <2>1, AfterTryTyped DEF Inv, TypeOK
  <2>3. TypeOK'
    BY <2>1, <2>2 DEF Inv, TypeOK, countVars, histVars
  <2>4. JobsMatch'
    BY <2>1, <2>2 DEF Inv, JobsMatch
  <2>5. AcceptedIsReceived'
    BY <2>1 DEF AcceptedIsReceived
  <2>6. DeliveredWasReceived'
    <3> SUFFICES ASSUME NEW i \in DOMAIN outbox, outbox'[i].status = "delivered",
                        ~outbox'[i].usurped
                 PROVE  received[outbox[i].event] > 0
      BY <2>1, <2>2 DEF DeliveredWasReceived, histVars
    <3>1. CASE i # id
      BY <3>1, <2>1 DEF Inv, DeliveredWasReceived
    <3>2. CASE i = id
      <4>1. outbox[i] \in Row /\ batch[id] \in Job /\ outbox'[i] = AfterTry(outbox[i], batch[id])
        BY <3>2, <2>1 DEF Inv, TypeOK
      <4>2. outcome = "accepted"
        BY <4>1, AfterTryTyped
      <4>3. outbox[i].event = batch[id].event
        BY <3>2, <2>1, <2>2 DEF Inv, JobsMatch
      <4>4. QED
        BY <4>2, <4>3, <2>1 DEF Inv, AcceptedIsReceived
    <3>3. QED
      BY <3>1, <3>2
  <2>7. QED
    BY <2>3, <2>4, <2>5, <2>6 DEF Inv
<1>6. ASSUME NEW id \in Events, StoreFails(id) PROVE Inv'
  <2>1. /\ UNCHANGED <<tableVars, enqueueing, events, resets, tried, received>>
        /\ outcome' = "none"
        /\ DOMAIN batch' \subseteq DOMAIN batch
        /\ \A i \in DOMAIN batch' : batch'[i] = batch[i]
        /\ faults' \in 0..MaxFaults
    BY <1>6 DEF StoreFails, Done, Drop, Keep, Inv, TypeOK
  <2>2. doubts' \in [Events -> Nat]
    BY <1>6 DEF StoreFails, Doubt, Inv, TypeOK
  <2>3. QED
    BY <2>1, <2>2 DEF Inv, TypeOK, JobsMatch, AcceptedIsReceived, DeliveredWasReceived, tableVars
<1>7. ASSUME NEW enabled \in BOOLEAN, PutNtfy(enabled) PROVE Inv'
  BY <1>7 DEF PutNtfy, Inv, TypeOK, JobsMatch, AcceptedIsReceived, DeliveredWasReceived,
     Current, workVars, countVars, histVars
<1>8. ASSUME NEW S, Reset(S) PROVE Inv'
  <2>1. /\ UNCHANGED <<channel, workVars, events, faults, histVars>>
        /\ resets' \in 0..MaxResets
        /\ DOMAIN incidents' \subseteq DOMAIN incidents
        /\ \A id \in DOMAIN incidents' : incidents'[id] = incidents[id]
        /\ DOMAIN outbox' \subseteq DOMAIN outbox
        /\ \A id \in DOMAIN outbox' : outbox'[id] = outbox[id]
    BY <1>8 DEF Reset, Drop, Keep, Inv, TypeOK
  <2>2. QED
    BY <2>1 DEF Inv, TypeOK, JobsMatch, AcceptedIsReceived, DeliveredWasReceived,
       Current, workVars, histVars
<1>9. ASSUME Crash PROVE Inv'
  <2>1. /\ UNCHANGED <<tableVars, events, resets, tried, received>>
        /\ outcome' = "none"
        /\ DOMAIN batch' = {} /\ DOMAIN enqueueing' = {}
        /\ faults' \in 0..MaxFaults
    BY <1>9 DEF Crash, Nothing, Inv, TypeOK
  <2>2. doubts' \in [Events -> Nat]
    BY <1>9 DEF Crash, Doubt, Inv, TypeOK
  <2>3. QED
    BY <2>1, <2>2 DEF Inv, TypeOK, JobsMatch, AcceptedIsReceived, DeliveredWasReceived, tableVars
<1>10. ASSUME Elapse PROVE Inv'
  <2>1. /\ UNCHANGED <<incidents, channel, workVars, countVars, histVars>>
        /\ DOMAIN outbox' = DOMAIN outbox
        /\ \A id \in DOMAIN outbox :
              /\ outbox'[id] \in Row
              /\ outbox'[id].event = outbox[id].event
              /\ outbox'[id].usurped = outbox[id].usurped
              /\ outbox'[id].status = outbox[id].status
    BY <1>10 DEF Elapse, Row, Inv, TypeOK
  <2>2. QED
    BY <2>1 DEF Inv, TypeOK, JobsMatch, AcceptedIsReceived, DeliveredWasReceived,
       Current, workVars, countVars, histVars
<1>11. ASSUME UNCHANGED vars PROVE Inv'
  BY <1>11 DEF vars, Inv, TypeOK, JobsMatch, AcceptedIsReceived, DeliveredWasReceived,
     Current, tableVars, workVars, countVars, histVars
<1>12. QED
  BY <1>1, <1>2, <1>3, <1>4, <1>5, <1>6, <1>7, <1>8, <1>9, <1>10, <1>11 DEF Next

\* The invariant holds for any number of monitors, events, resets and faults.
THEOREM InvAlways == Spec => []Inv
<1>1. QED
  BY InitInv, StepInv, PTL DEF Spec

\* The tables, the worker and the histories keep their types.
THEOREM TypeCorrect == Spec => []TypeOK
<1>1. Inv => TypeOK
  BY DEF Inv
<1>2. QED
  BY <1>1, InvAlways, PTL

\* What the outbox records as delivered has been received by the server, whatever
\* crashes, lost answers, failed updates and resets came between.
THEOREM DeliveredIsReceived == Spec => []DeliveredWasReceived
<1>1. Inv => DeliveredWasReceived
  BY DEF Inv
<1>2. QED
  BY <1>1, InvAlways, PTL

-------------------------------------------------------------------------------
(* Repetitions.  What can still be sent has been received no more often than an *)
(* acceptance went unrecorded.  It is known of an event in one place at a time, *)
(* so sending it there settles it.                                              *)

JustAccepted(id) == outcome = "accepted" /\ Current(id)

\* An event that may still be sent: it is to be committed or queued, its row is not
\* delivered, or the worker has a job of it and does not just know it was accepted.
Pending(e) ==
    \/ events < e
    \/ \E m \in DOMAIN enqueueing : enqueueing[m].event = e
    \/ /\ \A id \in DOMAIN batch : JustAccepted(id) => batch[id].event # e
       /\ \/ \E id \in DOMAIN outbox : outbox[id].event = e /\ outbox[id].status # "delivered"
          \/ \E id \in DOMAIN batch : batch[id].event = e

\* An event is in one place: a check, a row, or a row and the job of it.
OnePlace ==
    /\ \A m \in DOMAIN enqueueing :
          /\ enqueueing[m].event =< events
          /\ \A n \in DOMAIN enqueueing : enqueueing[m].event = enqueueing[n].event => m = n
          /\ \A id \in DOMAIN outbox : enqueueing[m].event # outbox[id].event
          /\ \A id \in DOMAIN batch : enqueueing[m].event # batch[id].event
    /\ \A id \in DOMAIN outbox :
          /\ outbox[id].event =< events
          /\ \A other \in DOMAIN outbox : outbox[id].event = outbox[other].event => id = other
    /\ \A id \in DOMAIN batch :
          /\ batch[id].event =< events
          /\ \A other \in DOMAIN batch : batch[id].event = batch[other].event => id = other
          /\ \A other \in DOMAIN outbox : batch[id].event = outbox[other].event => id = other

\* The worker has no job of a row that is delivered.
JobsAreOpen == \A id \in DOMAIN batch \cap DOMAIN outbox : outbox[id].status # "delivered"

Owed == \A e \in Events : Pending(e) => received[e] =< doubts[e]

Places == OnePlace /\ JobsAreOpen
SendInv == Inv /\ Places /\ Owed /\ ResentOnlyInDoubt

\* Events leave their places, and rows at most change their status to retry.
Settling ==
    /\ events' = events
    /\ DOMAIN enqueueing' \subseteq DOMAIN enqueueing
    /\ \A m \in DOMAIN enqueueing' : enqueueing'[m] = enqueueing[m]
    /\ DOMAIN batch' \subseteq DOMAIN batch
    /\ \A id \in DOMAIN batch' : batch'[id] = batch[id]
    /\ DOMAIN outbox' \subseteq DOMAIN outbox
    /\ \A id \in DOMAIN outbox' :
          /\ outbox'[id].event = outbox[id].event
          /\ id \in DOMAIN batch' => outbox'[id].status = outbox[id].status

LEMMA SettlingPlaces == Places /\ Settling => Places'
<1> SUFFICES ASSUME Places, Settling PROVE Places'
  OBVIOUS
<1>1. OnePlace'
  BY DEF Places, Settling, OnePlace
<1>2. JobsAreOpen'
  BY DEF Places, Settling, JobsAreOpen
<1>3. QED
  BY <1>1, <1>2 DEF Places

\* Nothing is sent, and nothing can be sent that could not be before.
LEMMA OwedKept ==
  ASSUME Owed, ResentOnlyInDoubt, UNCHANGED <<received, doubts>>,
         \A e \in Events : Pending(e)' => Pending(e)
  PROVE  Owed' /\ ResentOnlyInDoubt'
  BY DEF Owed, ResentOnlyInDoubt

\* The worker drops its job without a record of how it went.
LEMMA DoubtOwed ==
  ASSUME TypeOK, Owed, ResentOnlyInDoubt, Settling, Doubt, UNCHANGED <<outbox, received>>,
         outcome' = "none"
  PROVE  Owed' /\ ResentOnlyInDoubt'
<1>1. CASE outcome = "accepted"
  <2>1. PICK id \in DOMAIN batch :
            Current(id) /\ doubts' = [doubts EXCEPT ![batch[id].event] = @ + 1]
    BY <1>1 DEF Doubt
  <2>2. JustAccepted(id) /\ batch[id].event \in Events
    BY <1>1, <2>1 DEF JustAccepted, TypeOK, Job
  <2>3. \A other \in DOMAIN batch : JustAccepted(other) => other = id
    BY <2>1, CurrentIsUnique DEF JustAccepted, TypeOK
  <2>4. ASSUME NEW e \in Events
        PROVE  /\ Pending(e)' => received'[e] =< doubts'[e]
               /\ received'[e] =< 1 + doubts'[e]
    <3>1. received[e] \in Nat /\ doubts[e] \in Nat /\ received[e] =< 1 + doubts[e]
      BY DEF TypeOK, ResentOnlyInDoubt
    <3>2. CASE e = batch[id].event
      <4>1. doubts'[e] = doubts[e] + 1
        BY <2>1, <3>2 DEF TypeOK
      <4>2. QED
        BY <3>1, <4>1
    <3>3. CASE e # batch[id].event
      <4>1. doubts'[e] = doubts[e]
        BY <2>1, <3>3 DEF TypeOK
      <4>2. Pending(e)' => Pending(e)
        BY <2>3, <3>3 DEF Settling, Pending
      <4>3. QED
        BY <3>1, <4>1, <4>2 DEF Owed
    <3>4. QED
      BY <3>2, <3>3
  <2>5. QED
    BY <2>4 DEF Owed, ResentOnlyInDoubt
<1>2. CASE outcome # "accepted"
  <2>1. doubts' = doubts
    BY <1>2 DEF Doubt
  <2>2. \A e \in Events : Pending(e)' => Pending(e)
    BY <1>2 DEF Settling, Pending, JustAccepted
  <2>3. QED
    BY <2>1, <2>2, OwedKept
<1>3. QED
  BY <1>1, <1>2

LEMMA InitSend == Init => SendInv
<1> SUFFICES ASSUME Init PROVE SendInv
  OBVIOUS
<1>1. Places
  BY DEF Init, Places, OnePlace, JobsAreOpen, Nothing
<1>2. Owed /\ ResentOnlyInDoubt
  BY DEF Init, Owed, ResentOnlyInDoubt
<1>3. QED
  BY <1>1, <1>2, InitInv DEF SendInv

LEMMA CommitSend ==
  ASSUME SendInv, NEW m \in Monitors, Commit(m)
  PROVE  Places' /\ Owed' /\ ResentOnlyInDoubt'
<1>1. PICK id \in Events : enqueueing' = Put(enqueueing, m, [event |-> events + 1, incident |-> id])
  BY DEF Commit
<1>2. /\ DOMAIN enqueueing' = DOMAIN enqueueing \cup {m} /\ m \notin DOMAIN enqueueing
      /\ enqueueing'[m].event = events + 1
      /\ \A n \in DOMAIN enqueueing : enqueueing'[n] = enqueueing[n]
  BY <1>1 DEF Put, Commit
<1>3. events' = events + 1 /\ events \in Nat /\ events + 1 \in Events
  BY OutboxAssumption DEF Commit, SendInv, Inv, TypeOK, Events
<1>4. UNCHANGED <<outbox, batch, outcome, received, doubts>>
  BY DEF Commit, histVars
<1>5. /\ \A n \in DOMAIN enqueueing : enqueueing[n].event \in Nat /\ enqueueing[n].event =< events
      /\ \A i \in DOMAIN outbox : outbox[i].event \in Nat /\ outbox[i].event =< events
      /\ \A i \in DOMAIN batch : batch[i].event \in Nat /\ batch[i].event =< events
  BY OutboxAssumption DEF SendInv, Inv, TypeOK, Row, Job, Places, OnePlace, Events
<1>6. OnePlace'
  BY <1>2, <1>3, <1>4, <1>5 DEF SendInv, Places, OnePlace
<1>7. JobsAreOpen'
  BY <1>4 DEF SendInv, Places, JobsAreOpen
<1>8. ASSUME NEW e \in Events, Pending(e)' PROVE Pending(e)
  <2>1. e \in Nat
    BY OutboxAssumption DEF Events
  <2>2. QED
    BY <1>2, <1>3, <1>4, <1>8, <2>1 DEF Pending, JustAccepted, Current
<1>9. QED
  BY <1>4, <1>6, <1>7, <1>8, OwedKept DEF SendInv, Places

LEMMA EnqueueSend ==
  ASSUME SendInv, NEW m \in Monitors, Enqueue(m)
  PROVE  Places' /\ Owed' /\ ResentOnlyInDoubt'
<1>1. m \in DOMAIN enqueueing /\ enqueueing' = Drop(enqueueing, {m})
  BY DEF Enqueue
<1>2. UNCHANGED <<batch, outcome, events, received, doubts>>
  BY DEF Enqueue, countVars, histVars
<1>3. /\ DOMAIN enqueueing' = DOMAIN enqueueing \ {m}
      /\ \A n \in DOMAIN enqueueing' : enqueueing'[n] = enqueueing[n]
  BY <1>1 DEF Drop, Keep
<1>4. CASE UNCHANGED outbox
  <2>1. Settling
    BY <1>2, <1>3, <1>4 DEF Settling
  <2>2. \A e \in Events : Pending(e)' => Pending(e)
    BY <1>2, <1>3, <1>4 DEF Pending, JustAccepted, Current
  <2>3. QED
    BY <1>2, <2>1, <2>2, SettlingPlaces, OwedKept DEF SendInv
<1>5. CASE \E id \in Events :
              /\ IsNextId(id, outbox)
              /\ outbox' = Put(outbox, id,
                    [event |-> enqueueing[m].event, incident |-> enqueueing[m].incident,
                     status |-> "pending", attempts |-> 0, wait |-> 0,
                     usurped |-> id \in DOMAIN batch])
  <2>1. PICK id \in Events :
           /\ IsNextId(id, outbox)
           /\ outbox' = Put(outbox, id,
                 [event |-> enqueueing[m].event, incident |-> enqueueing[m].incident,
                  status |-> "pending", attempts |-> 0, wait |-> 0,
                  usurped |-> id \in DOMAIN batch])
    BY <1>5
  <2>2. id \notin DOMAIN outbox
    BY <2>1, NextIdIsNew DEF SendInv, Inv, TypeOK
  <2>3. /\ DOMAIN outbox' = DOMAIN outbox \cup {id}
        /\ \A i \in DOMAIN outbox : outbox'[i] = outbox[i]
        /\ outbox'[id].event = enqueueing[m].event /\ outbox'[id].status = "pending"
    BY <2>1, <2>2 DEF Put
  <2>4. OnePlace'
    <3>1. OnePlace
      BY DEF SendInv, Places
    <3>2. \A n \in DOMAIN enqueueing' :
             enqueueing[n].event # enqueueing[m].event /\ enqueueing'[n].event = enqueueing[n].event
      BY <1>1, <1>3, <3>1 DEF OnePlace
    <3>3. \A i \in DOMAIN outbox' : \/ i \in DOMAIN outbox /\ outbox'[i].event = outbox[i].event
                                    \/ i = id /\ outbox'[i].event = enqueueing[m].event
      BY <2>3
    <3>4. /\ \A i \in DOMAIN outbox : enqueueing[m].event # outbox[i].event
          /\ \A i \in DOMAIN batch : enqueueing[m].event # batch[i].event
          /\ enqueueing[m].event =< events
      BY <1>1, <3>1 DEF OnePlace
    <3>5. \A i \in DOMAIN outbox' :
             /\ outbox'[i].event =< events
             /\ \A j \in DOMAIN outbox' : outbox'[i].event = outbox'[j].event => i = j
             /\ \A n \in DOMAIN enqueueing' : enqueueing'[n].event # outbox'[i].event
             /\ \A j \in DOMAIN batch : batch[j].event = outbox'[i].event => i = j
      <4>1. ASSUME NEW i \in DOMAIN outbox, outbox'[i].event = outbox[i].event
            PROVE  /\ outbox'[i].event =< events
                   /\ \A j \in DOMAIN outbox' : outbox'[i].event = outbox'[j].event => i = j
                   /\ \A n \in DOMAIN enqueueing' : enqueueing'[n].event # outbox'[i].event
                   /\ \A j \in DOMAIN batch : batch[j].event = outbox'[i].event => i = j
        BY <1>3, <3>1, <3>3, <3>4, <4>1 DEF OnePlace
      <4>2. ASSUME outbox'[id].event = enqueueing[m].event
            PROVE  /\ outbox'[id].event =< events
                   /\ \A j \in DOMAIN outbox' : outbox'[id].event = outbox'[j].event => id = j
                   /\ \A n \in DOMAIN enqueueing' : enqueueing'[n].event # outbox'[id].event
                   /\ \A j \in DOMAIN batch : batch[j].event = outbox'[id].event => id = j
        BY <3>2, <3>3, <3>4, <4>2
      <4>3. QED
        BY <3>3, <4>1, <4>2
    <3>6. QED
      BY <1>2, <1>3, <3>1, <3>5 DEF OnePlace
  <2>5. JobsAreOpen'
    BY <1>2, <2>2, <2>3 DEF SendInv, Places, JobsAreOpen
  <2>6. \A e \in Events : Pending(e)' => Pending(e)
    BY <1>1, <1>2, <1>3, <2>2, <2>3 DEF Pending, JustAccepted, Current
  <2>7. QED
    BY <1>2, <2>4, <2>5, <2>6, OwedKept DEF SendInv, Places
<1>6. QED
  BY <1>4, <1>5 DEF Enqueue

LEMMA FetchSend ==
  ASSUME SendInv, Fetch
  PROVE  Places' /\ Owed' /\ ResentOnlyInDoubt'
<1>1. PICK ids \in SUBSET DOMAIN outbox :
          IsBatch(ids, {id \in DOMAIN outbox : Due(id)}) /\ batch' = Jobs(ids)
  BY DEF Fetch
<1>2. /\ UNCHANGED <<outbox, enqueueing, outcome, events, received, doubts>>
      /\ outcome = "none"
  BY DEF Fetch, tableVars, countVars, histVars, SendInv, Inv, TypeOK
<1>3. /\ DOMAIN batch' = ids
      /\ \A id \in ids : batch'[id].event = outbox[id].event /\ outbox[id].status # "delivered"
  BY <1>1 DEF Jobs, IsBatch, Due
<1>4. OnePlace'
  BY <1>2, <1>3 DEF SendInv, Places, OnePlace
<1>5. JobsAreOpen'
  BY <1>2, <1>3 DEF JobsAreOpen
<1>6. \A e \in Events : Pending(e)' => Pending(e)
  BY <1>2, <1>3 DEF Pending, JustAccepted
<1>7. QED
  BY <1>2, <1>4, <1>5, <1>6, OwedKept DEF SendInv, Places

\* What the server accepts was pending, and if the worker knows it no longer is.
LEMMA SendSend ==
  ASSUME SendInv, NEW e \in Events, Send(e)
  PROVE  Places' /\ Owed' /\ ResentOnlyInDoubt'
<1>1. PICK id \in DOMAIN batch : Current(id) /\ batch[id].event = e
  BY DEF Send, Accepted, Refused, AnswerLost, Trying
<1>2. outcome = "none" /\ UNCHANGED <<outbox, enqueueing, batch, events>>
  BY DEF Send, Accepted, Refused, AnswerLost, Trying, tableVars, countVars
<1>3. Places'
  BY <1>2, SettlingPlaces DEF Settling, SendInv
<1>4. Pending(e)
  BY <1>1, <1>2 DEF Pending, JustAccepted
<1>5. \A f \in Events : Pending(f)' => Pending(f)
  BY <1>2 DEF Pending, JustAccepted
<1>6. /\ received \in [Events -> Nat] /\ doubts \in [Events -> Nat]
      /\ received[e] =< doubts[e]
      /\ \A f \in Events : received[f] =< 1 + doubts[f]
      /\ \A f \in Events : Pending(f)' => received[f] =< doubts[f]
  BY <1>4, <1>5 DEF SendInv, Inv, TypeOK, Owed, ResentOnlyInDoubt
<1>7. CASE Accepted(e)
  <2>1. /\ received' = [received EXCEPT ![e] = @ + 1] /\ doubts' = doubts
        /\ outcome' = "accepted"
    BY <1>7 DEF Accepted
  <2>2. JustAccepted(id)'
    BY <1>1, <1>2, <2>1 DEF JustAccepted, Current
  <2>3. /\ \A m \in DOMAIN enqueueing : enqueueing[m].event # e
        /\ e \in Nat /\ events \in Nat /\ e =< events
    BY <1>1, OutboxAssumption DEF SendInv, Inv, TypeOK, Places, OnePlace, Events
  <2>4. ~Pending(e)'
    BY <1>1, <1>2, <2>2, <2>3 DEF Pending
  <2>5. Owed' /\ ResentOnlyInDoubt'
    BY <1>6, <2>1, <2>4 DEF Owed, ResentOnlyInDoubt
  <2>6. QED
    BY <1>3, <2>5
<1>8. CASE Refused(e)
  BY <1>3, <1>5, <1>8, OwedKept DEF Refused, SendInv
<1>9. CASE AnswerLost(e)
  <2>1. /\ received' = [received EXCEPT ![e] = @ + 1]
        /\ doubts' = [doubts EXCEPT ![e] = @ + 1]
    BY <1>9 DEF AnswerLost
  <2>2. Owed' /\ ResentOnlyInDoubt'
    BY <1>6, <2>1 DEF Owed, ResentOnlyInDoubt
  <2>3. QED
    BY <1>3, <2>2
<1>10. QED
  BY <1>7, <1>8, <1>9 DEF Send

\* Recording an acceptance takes away the only job and the only open row of the
\* event; recording a failure leaves the row open, whichever event it is of.
LEMMA StoreSend ==
  ASSUME SendInv, NEW id \in Events, Store(id)
  PROVE  Places' /\ Owed' /\ ResentOnlyInDoubt'
<1>1. /\ id \in DOMAIN batch /\ Current(id)
      /\ UNCHANGED <<enqueueing, events, received, doubts>>
      /\ outcome' = "none"
      /\ DOMAIN batch' = DOMAIN batch \ {id}
      /\ \A i \in DOMAIN batch' : batch'[i] = batch[i]
      /\ DOMAIN outbox' = DOMAIN outbox
      /\ \A i \in DOMAIN outbox : outbox'[i] =
            IF i = id THEN AfterTry(outbox[i], batch[id]) ELSE outbox[i]
  BY DEF Store, Current, Done, Drop, Keep, countVars, histVars
<1>2. \A i \in DOMAIN outbox :
         /\ outbox'[i].event = outbox[i].event
         /\ i # id => outbox'[i] = outbox[i]
  BY <1>1, AfterTryTyped DEF SendInv, Inv, TypeOK
<1>3. Places'
  <2>1. Settling
    BY <1>1, <1>2 DEF Settling
  <2>2. QED
    BY <2>1, SettlingPlaces DEF SendInv
<1>4. ASSUME NEW e \in Events, Pending(e)' PROVE Pending(e)
  <2>1. \/ events < e
        \/ \E m \in DOMAIN enqueueing : enqueueing[m].event = e
        \/ \E i \in DOMAIN outbox : outbox[i].event = e /\ outbox'[i].status # "delivered"
        \/ \E i \in DOMAIN batch \ {id} : batch[i].event = e
    BY <1>1, <1>2, <1>4 DEF Pending
  <2>2. CASE outcome = "accepted"
    <3>1. id \in DOMAIN outbox => outbox'[id].status = "delivered"
      BY <1>1, <2>2 DEF AfterTry, Delivered, SendInv, Inv, TypeOK, Row
    <3>2. ASSUME NEW i \in DOMAIN outbox, outbox[i].event = e, outbox'[i].status # "delivered"
          PROVE  Pending(e)
      <4>1. i # id /\ outbox[i].status # "delivered"
        BY <1>2, <3>1, <3>2
      <4>2. batch[id].event # e
        BY <1>1, <3>2, <4>1 DEF SendInv, Places, OnePlace
      <4>3. \A other \in DOMAIN batch : JustAccepted(other) => other = id
        BY <1>1, CurrentIsUnique DEF JustAccepted, SendInv, Inv, TypeOK
      <4>4. QED
        BY <3>2, <4>1, <4>2, <4>3 DEF Pending
    <3>3. ASSUME NEW i \in DOMAIN batch \ {id}, batch[i].event = e PROVE Pending(e)
      <4>1. batch[id].event # e
        BY <1>1, <3>3 DEF SendInv, Places, OnePlace
      <4>2. \A other \in DOMAIN batch : JustAccepted(other) => other = id
        BY <1>1, CurrentIsUnique DEF JustAccepted, SendInv, Inv, TypeOK
      <4>3. QED
        BY <3>3, <4>1, <4>2 DEF Pending
    <3>4. QED
      BY <2>1, <3>2, <3>3 DEF Pending
  <2>3. CASE outcome # "accepted"
    <3>1. \A i \in DOMAIN outbox : outbox'[i].status # "delivered" => outbox[i].status # "delivered"
      BY <1>1, <1>2 DEF SendInv, Places, JobsAreOpen
    <3>2. QED
      BY <2>1, <2>3, <3>1 DEF Pending, JustAccepted
  <2>4. QED
    BY <2>2, <2>3
<1>5. QED
  BY <1>1, <1>3, <1>4, OwedKept DEF SendInv

LEMMA StepSend == SendInv /\ [Next]_vars => SendInv'
<1> SUFFICES ASSUME SendInv, [Next]_vars PROVE SendInv'
  OBVIOUS
<1>1. Inv'
  BY StepInv DEF SendInv
<1> SUFFICES Places' /\ Owed' /\ ResentOnlyInDoubt'
  BY <1>1 DEF SendInv
<1>2. ASSUME NEW id \in Events, StoreFails(id) PROVE Places' /\ Owed' /\ ResentOnlyInDoubt'
  <2>1. Settling /\ Doubt /\ UNCHANGED <<outbox, received>> /\ outcome' = "none"
    BY <1>2 DEF StoreFails, Settling, Done, Drop, Keep, tableVars
  <2>2. QED
    BY <2>1, SettlingPlaces, DoubtOwed DEF SendInv, Inv
<1>3. ASSUME Crash PROVE Places' /\ Owed' /\ ResentOnlyInDoubt'
  <2>1. Settling /\ Doubt /\ UNCHANGED <<outbox, received>> /\ outcome' = "none"
    BY <1>3 DEF Crash, Settling, Nothing, tableVars
  <2>2. QED
    BY <2>1, SettlingPlaces, DoubtOwed DEF SendInv, Inv
<1>4. ASSUME Settling, UNCHANGED <<batch, outcome, received, doubts>>,
             \A id \in DOMAIN outbox' : outbox'[id].status = outbox[id].status
      PROVE  Places' /\ Owed' /\ ResentOnlyInDoubt'
  <2>1. \A e \in Events : Pending(e)' => Pending(e)
    BY <1>4 DEF Settling, Pending, JustAccepted, Current
  <2>2. QED
    BY <1>4, <2>1, SettlingPlaces, OwedKept DEF SendInv
<1>5. ASSUME NEW enabled \in BOOLEAN, PutNtfy(enabled) PROVE Places' /\ Owed' /\ ResentOnlyInDoubt'
  BY <1>4, <1>5 DEF PutNtfy, Settling, workVars, countVars, histVars
<1>6. ASSUME NEW S, Reset(S) PROVE Places' /\ Owed' /\ ResentOnlyInDoubt'
  BY <1>4, <1>6 DEF Reset, Drop, Keep, Settling, workVars, histVars
<1>7. ASSUME Elapse PROVE Places' /\ Owed' /\ ResentOnlyInDoubt'
  <2>1. /\ UNCHANGED <<enqueueing, batch, outcome, events, received, doubts>>
        /\ DOMAIN outbox' = DOMAIN outbox
        /\ \A id \in DOMAIN outbox :
              outbox'[id].event = outbox[id].event /\ outbox'[id].status = outbox[id].status
    BY <1>7 DEF Elapse, SendInv, Inv, TypeOK, Row, workVars, countVars, histVars
  <2>2. QED
    BY <1>4, <2>1 DEF Settling
<1>8. ASSUME UNCHANGED vars PROVE Places' /\ Owed' /\ ResentOnlyInDoubt'
  BY <1>4, <1>8 DEF vars, Settling, tableVars, workVars, countVars, histVars
<1>9. QED
  BY <1>2, <1>3, <1>5, <1>6, <1>7, <1>8, CommitSend, EnqueueSend, FetchSend, SendSend, StoreSend
     DEF Next

\* The server gets a message a second time only after an acceptance of it that a
\* crash, a lost answer or a failed update kept out of the outbox.
THEOREM ResentOnlyWhenInDoubt == Spec => []ResentOnlyInDoubt
<1>1. SendInv => ResentOnlyInDoubt
  BY DEF SendInv
<1>2. QED
  BY <1>1, InitSend, StepSend, PTL DEF Spec

-------------------------------------------------------------------------------
(* Order.  When the worker tries a job, every row queued before it has been     *)
(* tried already: the query takes the lowest ids, and what it leaves out below  *)
(* them waits for a second attempt.                                             *)

\* A row has been tried, or carries the mark that another event's try left on it.
Attempted(id) == outbox[id].event \in tried \/ outbox[id].usurped

OnlyTriedChange == \A id \in DOMAIN outbox : outbox[id].status # "pending" => Attempted(id)

\* Below a row that the worker has a job of, all rows are tried or in the batch too.
NothingSkipped ==
    \A job \in DOMAIN batch, id \in DOMAIN outbox :
        /\ job \in DOMAIN outbox /\ outbox[job].event = batch[job].event
        /\ id < job
        => id \in DOMAIN batch \/ Attempted(id)

TriedIsKnown ==
    /\ outcome # "none" => \A id \in DOMAIN batch : Current(id) => batch[id].event \in tried
    /\ \A m \in DOMAIN enqueueing : enqueueing[m].event \notin tried
    /\ \A e \in tried : e =< events

\* A row that has not been tried does not wait.
PendingIsDue == \A id \in DOMAIN outbox : outbox[id].status = "pending" => outbox[id].wait = 0

Order == OnlyTriedChange /\ NothingSkipped /\ TriedIsKnown /\ PendingIsDue /\ TriedInOrder
OrderInv == SendInv /\ Order

\* Steps of others: rows and jobs go, nothing else changes.
LEMMA SettlingOrder ==
  ASSUME Order, Settling, UNCHANGED tried, (outcome' = outcome /\ batch' = batch) \/ outcome' = "none",
         \A id \in DOMAIN outbox' : /\ outbox'[id].usurped = outbox[id].usurped
                                    /\ outbox'[id].status = outbox[id].status
                                    /\ outbox[id].wait = 0 => outbox'[id].wait = 0,
         batch' = batch \/ DOMAIN batch' = {}
  PROVE  Order'
<1>1. \A id \in DOMAIN outbox' : Attempted(id) => Attempted(id)'
  BY DEF Settling, Attempted
<1>2. OnlyTriedChange'
  BY <1>1 DEF Order, OnlyTriedChange, Settling
<1>3. NothingSkipped'
  BY <1>1 DEF Order, NothingSkipped, Settling
<1>4. TriedIsKnown'
  BY DEF Order, TriedIsKnown, Settling, Current
<1>5. TriedInOrder' /\ PendingIsDue'
  BY DEF Order, TriedInOrder, PendingIsDue, Settling
<1>6. QED
  BY <1>2, <1>3, <1>4, <1>5 DEF Order

\* The worker lets go of its current job, whose event has been tried; the row of its
\* id has that event or is marked.
LEMMA DoneOrder ==
  ASSUME SendInv, Order, NEW id \in Events, outcome # "none", Current(id), Done(id),
         UNCHANGED <<enqueueing, events, tried>>, DOMAIN outbox' = DOMAIN outbox,
         \A i \in DOMAIN outbox : /\ outbox'[i].event = outbox[i].event
                                  /\ outbox'[i].usurped = outbox[i].usurped
                                  /\ i # id => outbox'[i] = outbox[i]
                                  /\ outbox'[i] = outbox[i] \/ outbox'[i].status # "pending"
  PROVE  Order'
<1>1. /\ id \in DOMAIN batch
      /\ outcome' = "none"
      /\ DOMAIN batch' = DOMAIN batch \ {id}
      /\ \A i \in DOMAIN batch' : batch'[i] = batch[i]
  BY DEF Current, Done, Drop, Keep
<1>2. \A i \in DOMAIN outbox : Attempted(i) => Attempted(i)'
  BY DEF Attempted
<1>3. id \in DOMAIN outbox => Attempted(id)
  <2>1. batch[id].event \in tried
    BY <1>1 DEF Order, TriedIsKnown
  <2>2. QED
    BY <1>1, <2>1 DEF Attempted, SendInv, Inv, JobsMatch
<1>4. OnlyTriedChange'
  BY <1>2, <1>3 DEF Order, OnlyTriedChange
<1>5. NothingSkipped'
  BY <1>1, <1>2, <1>3 DEF Order, NothingSkipped
<1>6. TriedIsKnown'
  BY <1>1 DEF Order, TriedIsKnown
<1>7. TriedInOrder' /\ PendingIsDue'
  BY DEF Order, TriedInOrder, PendingIsDue
<1>8. QED
  BY <1>4, <1>5, <1>6, <1>7 DEF Order

LEMMA InitOrder == Init => OrderInv
<1> SUFFICES ASSUME Init PROVE OrderInv
  OBVIOUS
<1>1. Order
  BY DEF Init, Order, OnlyTriedChange, NothingSkipped, TriedIsKnown, PendingIsDue, TriedInOrder,
     Nothing
<1>2. QED
  BY <1>1, InitSend DEF OrderInv

LEMMA CommitOrder == ASSUME OrderInv, NEW m \in Monitors, Commit(m) PROVE Order'
<1>1. PICK id \in Events : enqueueing' = Put(enqueueing, m, [event |-> events + 1, incident |-> id])
  BY DEF Commit
<1>2. /\ DOMAIN enqueueing' = DOMAIN enqueueing \cup {m}
      /\ enqueueing'[m].event = events + 1
      /\ \A n \in DOMAIN enqueueing : n # m => enqueueing'[n] = enqueueing[n]
  BY <1>1 DEF Put
<1>3. events' = events + 1 /\ UNCHANGED <<outbox, batch, outcome, tried>>
  BY DEF Commit, histVars
<1>4. events \in Nat /\ \A e \in tried : e \in Nat /\ e =< events
  BY OutboxAssumption DEF OrderInv, Order, TriedIsKnown, SendInv, Inv, TypeOK, Events
<1>5. TriedIsKnown'
  BY <1>2, <1>3, <1>4 DEF OrderInv, Order, TriedIsKnown, Current
<1>6. OnlyTriedChange' /\ NothingSkipped' /\ PendingIsDue' /\ TriedInOrder'
  BY <1>3 DEF OrderInv, Order, OnlyTriedChange, NothingSkipped, PendingIsDue, TriedInOrder, Attempted
<1>7. QED
  BY <1>5, <1>6 DEF Order

LEMMA EnqueueOrder == ASSUME OrderInv, NEW m \in Monitors, Enqueue(m) PROVE Order'
<1>1. m \in DOMAIN enqueueing /\ enqueueing' = Drop(enqueueing, {m})
  BY DEF Enqueue
<1>2. UNCHANGED <<batch, outcome, events, tried>>
  BY DEF Enqueue, countVars, histVars
<1>3. /\ DOMAIN enqueueing' = DOMAIN enqueueing \ {m}
      /\ \A n \in DOMAIN enqueueing' : enqueueing'[n] = enqueueing[n]
  BY <1>1 DEF Drop, Keep
<1>4. TriedIsKnown'
  BY <1>2, <1>3 DEF OrderInv, Order, TriedIsKnown, Current
<1>5. CASE UNCHANGED outbox
  BY <1>2, <1>4, <1>5 DEF OrderInv, Order, OnlyTriedChange, NothingSkipped, PendingIsDue,
     TriedInOrder, Attempted
<1>6. CASE \E id \in Events :
              /\ IsNextId(id, outbox)
              /\ outbox' = Put(outbox, id,
                    [event |-> enqueueing[m].event, incident |-> enqueueing[m].incident,
                     status |-> "pending", attempts |-> 0, wait |-> 0,
                     usurped |-> id \in DOMAIN batch])
  <2>1. PICK id \in Events :
           /\ IsNextId(id, outbox)
           /\ outbox' = Put(outbox, id,
                 [event |-> enqueueing[m].event, incident |-> enqueueing[m].incident,
                  status |-> "pending", attempts |-> 0, wait |-> 0,
                  usurped |-> id \in DOMAIN batch])
    BY <1>6
  <2>2. id \notin DOMAIN outbox /\ \A i \in DOMAIN outbox : i < id /\ i \in Int /\ id \in Int
    BY <2>1, NextIdIsNew, OutboxAssumption DEF IsNextId, OrderInv, SendInv, Inv, TypeOK, Events
  <2>3. /\ DOMAIN outbox' = DOMAIN outbox \cup {id}
        /\ \A i \in DOMAIN outbox : outbox'[i] = outbox[i]
        /\ outbox'[id].event = enqueueing[m].event /\ outbox'[id].status = "pending"
        /\ outbox'[id].wait = 0
    BY <2>1, <2>2 DEF Put
  <2>4. enqueueing[m].event \notin tried
    BY <1>1 DEF OrderInv, Order, TriedIsKnown
  <2>5. \A i \in DOMAIN outbox : Attempted(i) => Attempted(i)'
    BY <1>2, <2>3 DEF Attempted
  <2>6. OnlyTriedChange' /\ PendingIsDue'
    BY <2>3, <2>5 DEF OrderInv, Order, OnlyTriedChange, PendingIsDue
  <2>7. NothingSkipped'
    <3>1. \A job \in DOMAIN batch : enqueueing[m].event # batch[job].event
      BY <1>1 DEF OrderInv, SendInv, Places, OnePlace
    <3> SUFFICES ASSUME NEW job \in DOMAIN batch, NEW i \in DOMAIN outbox',
                        job \in DOMAIN outbox', outbox'[job].event = batch[job].event, i < job
                 PROVE  i \in DOMAIN batch \/ Attempted(i)'
      BY <1>2 DEF NothingSkipped
    <3>2. job \in DOMAIN outbox /\ outbox[job].event = batch[job].event
      BY <2>3, <3>1
    <3>3. i \in DOMAIN outbox
      BY <2>2, <2>3, <3>2
    <3>4. QED
      BY <2>5, <3>2, <3>3 DEF OrderInv, Order, NothingSkipped
  <2>8. TriedInOrder'
    <3> SUFFICES ASSUME NEW i \in DOMAIN outbox', NEW other \in DOMAIN outbox',
                        i < other, outbox'[other].event \in tried
                 PROVE  outbox'[i].event \in tried \/ outbox'[i].usurped
      BY <1>2 DEF TriedInOrder
    <3>1. other \in DOMAIN outbox
      BY <2>3, <2>4
    <3>2. i \in DOMAIN outbox
      BY <2>2, <2>3, <3>1
    <3>3. QED
      BY <2>3, <3>1, <3>2 DEF OrderInv, Order, TriedInOrder
  <2>9. QED
    BY <1>4, <2>6, <2>7, <2>8 DEF Order
<1>7. QED
  BY <1>5, <1>6 DEF Enqueue

LEMMA FetchOrder == ASSUME OrderInv, Fetch PROVE Order'
<1>1. PICK ids \in SUBSET DOMAIN outbox :
          /\ IsBatch(ids, {id \in DOMAIN outbox : Due(id)})
          /\ \A id \in ids, other \in DOMAIN outbox \ ids : Due(other) => id < other
          /\ batch' = Jobs(ids)
  BY DEF Fetch
<1>2. /\ UNCHANGED <<outbox, enqueueing, outcome, events, tried>>
      /\ outcome = "none"
  BY DEF Fetch, tableVars, countVars, histVars, OrderInv, SendInv, Inv, TypeOK
<1>3. DOMAIN batch' = ids
  BY <1>1 DEF Jobs
<1>4. NothingSkipped'
  <2> SUFFICES ASSUME NEW job \in ids, NEW id \in DOMAIN outbox, id < job, id \notin ids
               PROVE  Attempted(id)
    BY <1>2, <1>3 DEF NothingSkipped, Attempted
  <2>1. job \in Int /\ id \in Int /\ outbox[id] \in Row
    BY OutboxAssumption DEF OrderInv, SendInv, Inv, TypeOK, Events
  <2>2. ~Due(id)
    BY <1>1, <2>1
  <2>3. CASE outbox[id].status # "pending"
    BY <2>3 DEF OrderInv, Order, OnlyTriedChange
  <2>4. CASE outbox[id].status = "pending"
    <3>1. outbox[id].wait = 0
      BY <2>4 DEF OrderInv, Order, PendingIsDue
    <3>2. QED
      BY <2>2, <2>4, <3>1 DEF Due
  <2>5. QED
    BY <2>3, <2>4
<1>5. OnlyTriedChange' /\ TriedIsKnown' /\ TriedInOrder' /\ PendingIsDue'
  BY <1>2 DEF OrderInv, Order, OnlyTriedChange, TriedIsKnown, TriedInOrder, Attempted, PendingIsDue
<1>6. QED
  BY <1>4, <1>5 DEF Order

LEMMA SendOrder == ASSUME OrderInv, NEW e \in Events, Send(e) PROVE Order'
<1>1. PICK job \in DOMAIN batch : Current(job) /\ batch[job].event = e
  BY DEF Send, Accepted, Refused, AnswerLost, Trying
<1>2. /\ tried' = tried \cup {e}
      /\ UNCHANGED <<outbox, enqueueing, batch, events>>
  BY DEF Send, Accepted, Refused, AnswerLost, Trying, tableVars, countVars
<1>3. \A id \in DOMAIN outbox : Attempted(id) => Attempted(id)'
  BY <1>2 DEF Attempted
<1>4. OnlyTriedChange' /\ NothingSkipped' /\ PendingIsDue'
  BY <1>2, <1>3 DEF OrderInv, Order, OnlyTriedChange, NothingSkipped, PendingIsDue
<1>5. TriedIsKnown'
  <2>1. \A id \in DOMAIN batch : Current(id) => batch[id].event = e
    BY <1>1, CurrentIsUnique DEF OrderInv, SendInv, Inv, TypeOK
  <2>2. /\ \A m \in DOMAIN enqueueing : enqueueing[m].event # e
        /\ e =< events
    BY <1>1 DEF OrderInv, SendInv, Places, OnePlace
  <2>3. QED
    BY <1>2, <2>1, <2>2 DEF OrderInv, Order, TriedIsKnown, Current
<1>6. TriedInOrder'
  <2> SUFFICES ASSUME NEW id \in DOMAIN outbox, NEW other \in DOMAIN outbox,
                      id < other, outbox[other].event \in tried \cup {e}
               PROVE  outbox[id].event \in tried \cup {e} \/ outbox[id].usurped
    BY <1>2 DEF TriedInOrder
  <2>1. CASE outbox[other].event \in tried
    BY <2>1 DEF OrderInv, Order, TriedInOrder
  <2>2. CASE outbox[other].event = e
    <3>1. other = job
      BY <1>1, <2>2 DEF OrderInv, SendInv, Places, OnePlace
    <3>2. id \notin DOMAIN batch
      <4>1. id \in Int /\ job \in Int
        BY OutboxAssumption DEF OrderInv, SendInv, Inv, TypeOK, Events
      <4>2. QED
        BY <1>1, <3>1, <4>1 DEF Current
    <3>3. QED
      BY <1>1, <2>2, <3>1, <3>2 DEF OrderInv, Order, NothingSkipped, Attempted
  <2>3. QED
    BY <2>1, <2>2
<1>7. QED
  BY <1>4, <1>5, <1>6 DEF Order

LEMMA StepOrder == OrderInv /\ [Next]_vars => OrderInv'
<1> SUFFICES ASSUME OrderInv, [Next]_vars PROVE OrderInv'
  OBVIOUS
<1>1. SendInv'
  BY StepSend DEF OrderInv
<1>2. ASSUME NEW id \in Events, Store(id) PROVE Order'
  <2>1. /\ outcome # "none" /\ Current(id) /\ Done(id)
        /\ UNCHANGED <<enqueueing, events, tried>>
        /\ DOMAIN outbox' = DOMAIN outbox
        /\ \A i \in DOMAIN outbox : outbox'[i] =
              IF i = id THEN AfterTry(outbox[i], batch[id]) ELSE outbox[i]
    BY <1>2 DEF Store, countVars, histVars
  <2>2. id \in DOMAIN batch
    BY <2>1 DEF Current
  <2>3. \A i \in DOMAIN outbox : /\ outbox'[i].event = outbox[i].event
                                 /\ outbox'[i].usurped = outbox[i].usurped
                                 /\ i # id => outbox'[i] = outbox[i]
    BY <2>1, <2>2, AfterTryTyped DEF OrderInv, SendInv, Inv, TypeOK
  <2>4. ASSUME NEW row \in Row, NEW job PROVE AfterTry(row, job).status # "pending"
    BY DEF AfterTry, Delivered, Retry, Row
  <2>5. id \in DOMAIN outbox => outbox'[id].status # "pending"
    BY <2>1, <2>4 DEF OrderInv, SendInv, Inv, TypeOK
  <2>6. QED
    BY <2>1, <2>3, <2>5, DoneOrder DEF OrderInv
<1>3. ASSUME NEW id \in Events, StoreFails(id) PROVE Order'
  <2>1. /\ outcome # "none" /\ Current(id) /\ Done(id)
        /\ UNCHANGED <<outbox, enqueueing, events, tried>>
    BY <1>3 DEF StoreFails, tableVars
  <2>2. QED
    BY <2>1, DoneOrder DEF OrderInv
<1>4. ASSUME Crash PROVE Order'
  <2>1. Settling /\ UNCHANGED <<outbox, tried>> /\ outcome' = "none" /\ DOMAIN batch' = {}
    BY <1>4 DEF Crash, Settling, Nothing, tableVars
  <2>2. QED
    BY <2>1, SettlingOrder DEF OrderInv
<1>5. ASSUME NEW enabled \in BOOLEAN, PutNtfy(enabled) PROVE Order'
  <2>1. Settling /\ UNCHANGED <<outbox, tried, outcome, batch>>
    BY <1>5 DEF PutNtfy, Settling, workVars, countVars, histVars
  <2>2. QED
    BY <2>1, SettlingOrder DEF OrderInv
<1>6. ASSUME NEW S, Reset(S) PROVE Order'
  <2>1. /\ Settling /\ UNCHANGED <<tried, outcome, batch>>
        /\ \A id \in DOMAIN outbox' : outbox'[id] = outbox[id]
    BY <1>6 DEF Reset, Drop, Keep, Settling, workVars, histVars
  <2>2. QED
    BY <2>1, SettlingOrder DEF OrderInv
<1>7. ASSUME Elapse PROVE Order'
  <2>1. /\ UNCHANGED <<enqueueing, batch, outcome, events, tried>>
        /\ DOMAIN outbox' = DOMAIN outbox
        /\ \A id \in DOMAIN outbox :
              /\ outbox'[id].event = outbox[id].event /\ outbox'[id].status = outbox[id].status
              /\ outbox'[id].usurped = outbox[id].usurped
              /\ outbox[id].wait = 0 => outbox'[id].wait = 0
    BY <1>7 DEF Elapse, OrderInv, SendInv, Inv, TypeOK, Row, workVars, countVars, histVars
  <2>2. QED
    BY <2>1, SettlingOrder DEF Settling, OrderInv
<1>8. ASSUME UNCHANGED vars PROVE Order'
  <2>1. Settling /\ UNCHANGED <<outbox, tried, outcome, batch>>
    BY <1>8 DEF vars, Settling, tableVars, workVars, countVars, histVars
  <2>2. QED
    BY <2>1, SettlingOrder DEF OrderInv
<1>9. Order'
  BY <1>2, <1>3, <1>4, <1>5, <1>6, <1>7, <1>8, CommitOrder, EnqueueOrder, FetchOrder, SendOrder
     DEF Next
<1>10. QED
  BY <1>1, <1>9 DEF OrderInv

\* First attempts keep the order of the queue, however long it is and however the
\* worker is interrupted.
THEOREM FirstTriesInOrder == Spec => []TriedInOrder
<1>1. OrderInv => TriedInOrder
  BY DEF OrderInv, Order
<1>2. QED
  BY <1>1, InitOrder, StepOrder, PTL DEF Spec
===============================================================================
