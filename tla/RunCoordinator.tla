---------------------------- MODULE RunCoordinator ----------------------------
(***************************************************************************)
(* The runCoordinator of cmd/debridup/scheduler.go: one mutex-protected    *)
(* object that decides which provider check may start.  Every method runs  *)
(* under the mutex from its first line to its return, so each return of    *)
(* each method is one action; the actions of Claim are named after the     *)
(* runClaimResult they return.                                             *)
(*                                                                         *)
(* Time.  lastRuns[id] is kept as an age: how long ago the recorded run    *)
(* started, saturating at Horizon.  An id the Go map does not hold (a zero *)
(* time.Time) has age Horizon: both are due for every interval.  A caller  *)
(* reads the clock before it gets the mutex, so the `now` it passes is     *)
(* described by its lag, the time that has passed since it was read:       *)
(* now.Sub(last) is lastRuns[id] - lag, negative when a later run has been *)
(* recorded meanwhile, and storing `now` stores the age lag.               *)
(*                                                                         *)
(* skippedOverlaps is left out: it is only ever read by the log line of    *)
(* the scheduler loop.                                                     *)
(***************************************************************************)
EXTENDS Integers, FiniteSets

CONSTANTS Ids,         \* monitor ids the coordinator is called with
          Limit,       \* runCoordinator.limit, DEBRIDUP_MAX_CONCURRENT_CHECKS
          Intervals,   \* the check intervals configured
          Lags,        \* how old a caller's `now` may be
          Horizon      \* the age at which every interval has passed

ASSUME LimitAssumption == Limit \in Nat \ {0}
ASSUME TimeAssumption ==
    /\ Horizon \in Nat /\ Lags \subseteq 0..Horizon /\ Intervals \subseteq 0..Horizon
    /\ \A lag \in Lags, interval \in Intervals : lag + interval =< Horizon

VARIABLES lastRuns, inFlight, pendingImmediate, active

coordVars == <<lastRuns, inFlight, pendingImmediate, active>>

Init == /\ lastRuns = [id \in Ids |-> Horizon]
        /\ inFlight = {}
        /\ pendingImmediate = {}
        /\ active = 0

-------------------------------------------------------------------------------
(* Claim and ClaimManual *)

Due(id, lag, interval) == \/ id \in pendingImmediate
                          \/ lastRuns[id] - lag >= interval

\* The bookkeeping of every accepted run.
Occupy(id, lag) == /\ lastRuns' = [lastRuns EXCEPT ![id] = lag]
                   /\ inFlight' = inFlight \cup {id}
                   /\ active' = active + 1

ClaimNotDue(id, lag, interval) ==
    /\ ~Due(id, lag, interval)
    /\ UNCHANGED coordVars

ClaimOverlapFault(id, lag, interval) ==     \* mutant: an overlap uses the request up
    /\ Due(id, lag, interval)
    /\ id \in inFlight
    /\ lastRuns' = [lastRuns EXCEPT ![id] = lag]
    /\ pendingImmediate' = pendingImmediate \ {id}
    /\ UNCHANGED <<inFlight, active>>

ClaimOverlap(id, lag, interval) ==
    /\ Due(id, lag, interval)
    /\ id \in inFlight
    /\ lastRuns' = IF id \in pendingImmediate
                   THEN lastRuns
                   ELSE [lastRuns EXCEPT ![id] = lag]
    /\ UNCHANGED <<inFlight, pendingImmediate, active>>

ClaimCapacityFault(id, lag, interval) ==    \* mutant: a rejection is recorded as a run
    /\ Due(id, lag, interval)
    /\ id \notin inFlight
    /\ active >= Limit
    /\ lastRuns' = [lastRuns EXCEPT ![id] = lag]
    /\ UNCHANGED <<inFlight, pendingImmediate, active>>

ClaimCapacity(id, lag, interval) ==
    /\ Due(id, lag, interval)
    /\ id \notin inFlight
    /\ active >= Limit
    /\ UNCHANGED coordVars

ClaimAccepted(id, lag, interval) ==
    /\ Due(id, lag, interval)
    /\ id \notin inFlight
    /\ active < Limit
    /\ pendingImmediate' = pendingImmediate \ {id}
    /\ Occupy(id, lag)

\* An operator's "test now": no due test, and a pending immediate run stays pending.
ManualRejected(id) ==
    /\ id \in inFlight \/ active >= Limit
    /\ UNCHANGED coordVars

ManualAcceptedFault(id, lag) ==             \* mutant: the overlap test is missing
    /\ active < Limit
    /\ Occupy(id, lag)
    /\ UNCHANGED pendingImmediate

ManualAcceptedClears(id, lag) ==            \* mutant: a manual run uses the request up
    /\ id \notin inFlight
    /\ active < Limit
    /\ pendingImmediate' = pendingImmediate \ {id}
    /\ Occupy(id, lag)

ManualAccepted(id, lag) ==
    /\ id \notin inFlight
    /\ active < Limit
    /\ Occupy(id, lag)
    /\ UNCHANGED pendingImmediate

-------------------------------------------------------------------------------
(* RequestImmediate, Release, Forget, and the passing of time *)

RequestImmediate(id) ==
    /\ pendingImmediate' = pendingImmediate \cup {id}
    /\ UNCHANGED <<lastRuns, inFlight, active>>

ReleaseFault(id) ==                         \* mutant: a second Release frees a second slot
    /\ inFlight' = inFlight \ {id}
    /\ active' = active - 1
    /\ UNCHANGED <<lastRuns, pendingImmediate>>

Release(id) ==
    \/ /\ id \in inFlight
       /\ inFlight' = inFlight \ {id}
       /\ active' = active - 1
       /\ UNCHANGED <<lastRuns, pendingImmediate>>
    \/ /\ id \notin inFlight
       /\ UNCHANGED coordVars

ForgetFault(id) ==                          \* mutant: forgetting also frees the slot
    /\ lastRuns' = [lastRuns EXCEPT ![id] = Horizon]
    /\ pendingImmediate' = pendingImmediate \ {id}
    /\ inFlight' = inFlight \ {id}
    /\ active' = IF id \in inFlight THEN active - 1 ELSE active

Forget(id) ==
    /\ lastRuns' = [lastRuns EXCEPT ![id] = Horizon]
    /\ pendingImmediate' = pendingImmediate \ {id}
    /\ UNCHANGED <<inFlight, active>>

Elapse ==
    /\ lastRuns' = [id \in Ids |-> IF lastRuns[id] < Horizon
                                   THEN lastRuns[id] + 1 ELSE Horizon]
    /\ UNCHANGED <<inFlight, pendingImmediate, active>>

-------------------------------------------------------------------------------
(* The object under any sequence of calls: nothing here makes callers pair *)
(* a Claim with one Release.                                               *)

Call(id) ==
    \/ \E lag \in Lags, interval \in Intervals :
          \/ ClaimNotDue(id, lag, interval)
          \/ ClaimOverlap(id, lag, interval)
          \/ ClaimCapacity(id, lag, interval)
          \/ ClaimAccepted(id, lag, interval)
    \/ ManualRejected(id)
    \/ \E lag \in Lags : ManualAccepted(id, lag)
    \/ RequestImmediate(id)
    \/ Release(id)
    \/ Forget(id)

Next == Elapse \/ \E id \in Ids : Call(id)

Spec == Init /\ [][Next]_coordVars

-------------------------------------------------------------------------------
(* Properties *)

TypeOK == /\ lastRuns \in [Ids -> 0..Horizon]
          /\ inFlight \subseteq Ids
          /\ pendingImmediate \subseteq Ids
          /\ active \in Nat

\* The counter the limit is tested against is the number of monitors in flight,
\* whatever the order of Claim, ClaimManual, Release and Forget and however often
\* Release is repeated; so no more than Limit checks are ever admitted.
SlotsBounded == /\ IsFiniteSet(inFlight)
                /\ active = Cardinality(inFlight)
                /\ active =< Limit

\* A request for an immediate run is used up only by admitting a run of that
\* monitor, or by forgetting the monitor: neither an overlap nor a full pool
\* costs the request (Claim deletes it only on its last lines).
PendingOnlyServed ==
    [][\A id \in Ids : id \in pendingImmediate /\ id \notin pendingImmediate' =>
          \/ id \notin inFlight /\ id \in inFlight'
          \/ lastRuns'[id] = Horizon]_coordVars

\* A monitor that is due stays due until one of its runs is in flight: a call
\* that is turned away for lack of a slot costs it nothing.
DueUntilRun ==
    [][\A id \in Ids, interval \in Intervals :
          Due(id, 0, interval) /\ ~Due(id, 0, interval)' => id \in inFlight']_coordVars

\* The coordinator is a pool of slots in which a monitor holds at most one.
Slots == INSTANCE CheckSlots WITH held <- inFlight, free <- Limit - active
ImplementsCheckSlots == Slots!Spec
===============================================================================
