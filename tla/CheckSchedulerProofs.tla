------------------------- MODULE CheckSchedulerProofs -------------------------
(***************************************************************************)
(* Proofs about CheckScheduler for every number of monitors, handlers,     *)
(* workers, requests and failures, and for every limit: the goroutines     *)
(* that really run are a bounded pool of slots with at most one per        *)
(* monitor, and the coordinator's books are those goroutines; every        *)
(* variable keeps its type; and a credential nobody has checked yet is     *)
(* about to be checked.                                                    *)
(*                                                                         *)
(* The only steps that change who runs are a run that starts after an      *)
(* accepted claim (from a scheduler pass, from a handler, or a manual      *)
(* test) and a run that ends.  Every other step keeps the goroutines, in   *)
(* the sense of SameGoroutines, and the invariant with them.               *)
(***************************************************************************)
EXTENDS CheckScheduler, FiniteSetTheorems, TLAPS

\* Every id a goroutine works with is one the coordinator knows.
IdsTyped == /\ DOMAIN monitors \subseteq Monitors
            /\ \A h \in DOMAIN requests : requests[h].m.id \in 0..MaxId
            /\ \A id \in DOMAIN scan : scan[id].id \in 0..MaxId
            /\ \A w \in DOMAIN runs : runs[w].id \in 0..MaxId

\* A goroutine is a record, so that advancing its pc keeps its id.
RunShape == \A w \in DOMAIN runs :
              runs[w] = [id |-> runs[w].id, gen |-> runs[w].gen, pc |-> runs[w].pc]

GoroutinesHoldSlots == /\ IsFiniteSet(DOMAIN runs)
                       /\ OneRunPerMonitor
                       /\ BooksMatchRuns
                       /\ active =< Limit

Inv == IdsTyped /\ RunShape /\ GoroutinesHoldSlots

\* The step neither starts nor ends a goroutine.
SameGoroutines == /\ DOMAIN runs' = DOMAIN runs
                  /\ \A w \in DOMAIN runs : runs'[w].id = runs[w].id
                  /\ UNCHANGED <<inFlight, active>>

\* A goroutine for id starts, or the one for id ends.
Started(id) == /\ id \notin inFlight /\ active < Limit
               /\ inFlight' = inFlight \cup {id}
               /\ active' = active + 1
               /\ \E w \in Workers \ DOMAIN runs :
                     /\ DOMAIN runs' = DOMAIN runs \cup {w}
                     /\ \A v \in DOMAIN runs : runs'[v].id = runs[v].id
                     /\ runs'[w].id = id
Ended(id) == /\ inFlight' = inFlight \ {id}
             /\ active' = active - 1
             /\ \E w \in DOMAIN runs :
                   /\ runs[w].id = id
                   /\ DOMAIN runs' = DOMAIN runs \ {w}
                   /\ \A v \in DOMAIN runs' : runs'[v].id = runs[v].id

-------------------------------------------------------------------------------
(* The invariant under these three kinds of step *)

LEMMA ActiveIsNat ==
    ASSUME GoroutinesHoldSlots
    PROVE  active \in Nat /\ Limit \in Nat /\ Limit > 0
BY FS_CardinalityType, SchedulerAssumption DEF GoroutinesHoldSlots, BooksMatchRuns

LEMMA SameGoroutinesKeepSlots ==
    ASSUME GoroutinesHoldSlots, SameGoroutines
    PROVE  GoroutinesHoldSlots'
<1>1. {runs'[w].id : w \in DOMAIN runs'} = {runs[w].id : w \in DOMAIN runs}
  BY DEF SameGoroutines
<1>2. BooksMatchRuns'
  BY <1>1 DEF GoroutinesHoldSlots, BooksMatchRuns, SameGoroutines
<1>3. OneRunPerMonitor'
  BY DEF GoroutinesHoldSlots, OneRunPerMonitor, SameGoroutines
<1> QED
  BY <1>2, <1>3 DEF GoroutinesHoldSlots, SameGoroutines

LEMMA StartKeepsSlots ==
    ASSUME GoroutinesHoldSlots, NEW id, Started(id)
    PROVE  GoroutinesHoldSlots'
<1>1. PICK w \in Workers \ DOMAIN runs :
          /\ DOMAIN runs' = DOMAIN runs \cup {w}
          /\ \A v \in DOMAIN runs : runs'[v].id = runs[v].id
          /\ runs'[w].id = id
  BY DEF Started
<1>2. /\ IsFiniteSet(DOMAIN runs')
      /\ Cardinality(DOMAIN runs') = Cardinality(DOMAIN runs) + 1
  BY <1>1, FS_AddElement DEF GoroutinesHoldSlots
<1>3. {runs'[v].id : v \in DOMAIN runs'} = {runs[v].id : v \in DOMAIN runs} \cup {id}
  BY <1>1
<1>4. BooksMatchRuns'
  BY <1>2, <1>3 DEF GoroutinesHoldSlots, BooksMatchRuns, Started
<1>5. \A v \in DOMAIN runs : runs[v].id # id
  BY DEF GoroutinesHoldSlots, BooksMatchRuns, Started
<1>6. OneRunPerMonitor'
  BY <1>1, <1>5 DEF GoroutinesHoldSlots, OneRunPerMonitor
<1>7. active' =< Limit
  BY ActiveIsNat DEF Started
<1> QED
  BY <1>2, <1>4, <1>6, <1>7 DEF GoroutinesHoldSlots

LEMMA EndKeepsSlots ==
    ASSUME GoroutinesHoldSlots, NEW id, Ended(id)
    PROVE  GoroutinesHoldSlots'
<1>1. PICK w \in DOMAIN runs :
          /\ runs[w].id = id
          /\ DOMAIN runs' = DOMAIN runs \ {w}
          /\ \A v \in DOMAIN runs' : runs'[v].id = runs[v].id
  BY DEF Ended
<1>2. /\ IsFiniteSet(DOMAIN runs')
      /\ Cardinality(DOMAIN runs') = Cardinality(DOMAIN runs) - 1
  BY <1>1, FS_RemoveElement DEF GoroutinesHoldSlots
<1>3. \A v \in DOMAIN runs' : runs[v].id # id
  BY <1>1 DEF GoroutinesHoldSlots, OneRunPerMonitor
<1>4. {runs'[v].id : v \in DOMAIN runs'} = {runs[v].id : v \in DOMAIN runs} \ {id}
  BY <1>1, <1>3
<1>5. BooksMatchRuns'
  BY <1>2, <1>4 DEF GoroutinesHoldSlots, BooksMatchRuns, Ended
<1>6. OneRunPerMonitor'
  BY <1>1 DEF GoroutinesHoldSlots, OneRunPerMonitor
<1>7. active' =< Limit
  BY ActiveIsNat DEF Ended, GoroutinesHoldSlots
<1> QED
  BY <1>2, <1>5, <1>6, <1>7 DEF GoroutinesHoldSlots

-------------------------------------------------------------------------------
(* Each action is one of these three kinds *)

LEMMA StartIsStarted ==
    ASSUME NEW m, NEW pc, Start(m, pc), m.id \notin inFlight, active < Limit,
           inFlight' = inFlight \cup {m.id}, active' = active + 1
    PROVE  Started(m.id)
BY DEF Start, Started, Put

LEMMA ClaimRunStep ==
    ASSUME NEW m, NEW lag, ClaimRun(m, lag)
    PROVE  Started(m.id) \/ SameGoroutines
<1>1. CASE Coord!ClaimAccepted(m.id, lag, m.interval) /\ Start(m, "start")
  BY <1>1, StartIsStarted DEF Coord!ClaimAccepted, Coord!Occupy
<1>2. CASE ClaimRejected(m, lag) /\ UNCHANGED runs
  BY <1>2 DEF ClaimRejected, Coord!ClaimNotDue, Coord!ClaimOverlap, Coord!ClaimCapacity,
     Coord!coordVars, SameGoroutines
<1> QED
  BY <1>1, <1>2 DEF ClaimRun

LEMMA RunStep ==
    ASSUME Inv, NEW w \in DOMAIN runs, Run(w)
    PROVE  Ended(runs[w].id) \/ SameGoroutines
<1>1. CASE UNCHANGED coordVars /\ \E pc : runs' = [runs EXCEPT ![w].pc = pc]
  BY <1>1 DEF SameGoroutines, coordVars, Inv, RunShape
<1>2. CASE EndRun(w)
  <2>1. runs[w].id \in inFlight
    BY DEF Inv, GoroutinesHoldSlots, BooksMatchRuns
  <2> QED
    BY <1>2, <2>1 DEF EndRun, Coord!Release, Remove, Ended
<1> QED
  BY <1>1, <1>2 DEF Run, ReadSecret, SecretRead, FinishAuth, FinishPublic

LEMMA NewRequestStep ==
    ASSUME NEW h, NewRequest(h)
    PROVE  SameGoroutines
BY DEF NewRequest, CreateInsert, UpdateCommit, DeleteCommit, TestLoad, SameGoroutines, coordVars

LEMMA HandleStep ==
    ASSUME NEW h, Handle(h)
    PROVE  Started(requests[h].m.id) \/ SameGoroutines
<1>1. CASE UNCHANGED <<runs, inFlight, active>>
  BY <1>1 DEF SameGoroutines
<1>2. CASE ClaimNow(h)
  BY <1>2, ClaimRunStep DEF ClaimNow
<1>3. CASE TestClaim(h)
  <2>1. CASE Coord!ManualAccepted(requests[h].m.id, 0) /\ Start(requests[h].m, "test")
    BY <2>1, StartIsStarted DEF Coord!ManualAccepted, Coord!Occupy
  <2>2. CASE Coord!ManualRejected(requests[h].m.id) /\ UNCHANGED runs
    BY <2>2, <1>1 DEF Coord!ManualRejected, Coord!coordVars
  <2> QED
    BY <1>3, <2>1, <2>2 DEF TestClaim
<1>4. CASE CreateSecret(h) \/ Load(h)
  BY <1>1, <1>4 DEF CreateSecret, Load, coordVars
<1>5. CASE Request(h) \/ Forget(h)
  BY <1>1, <1>5 DEF Request, Forget, Coord!RequestImmediate, Coord!Forget
<1> QED
  BY <1>2, <1>3, <1>4, <1>5 DEF Handle

LEMMA Steps ==
    ASSUME Inv, [Next]_vars
    PROVE  SameGoroutines \/ \E id \in 0..MaxId : Started(id) \/ Ended(id)
<1>1. CASE UNCHANGED vars
  BY <1>1 DEF vars, coordVars, SameGoroutines
<1>2. ASSUME NEW h \in Handlers, NewRequest(h)
      PROVE  SameGoroutines
  BY <1>2, NewRequestStep
<1>3. ASSUME NEW h \in Handlers, Handle(h)
      PROVE  SameGoroutines \/ \E id \in 0..MaxId : Started(id)
  <2>1. requests[h].m.id \in 0..MaxId
    BY <1>3 DEF Handle, Inv, IdsTyped
  <2> QED
    BY <1>3, <2>1, HandleStep
<1>4. CASE ScanStart \/ ScanFails
  BY <1>4 DEF ScanStart, Pass, ScanFails, SameGoroutines, coordVars
<1>5. CASE ScanStep
  <2>1. PICK id \in DOMAIN scan : ClaimRun(scan[id], scanLag)
    BY <1>5 DEF ScanStep
  <2>2. scan[id].id \in 0..MaxId
    BY DEF Inv, IdsTyped
  <2> QED
    BY <2>1, <2>2, ClaimRunStep
<1>6. CASE Elapse
  BY <1>6 DEF Elapse, Coord!Elapse, SameGoroutines
<1>7. ASSUME NEW w \in Workers, Run(w)
      PROVE  SameGoroutines \/ \E id \in 0..MaxId : Ended(id)
  <2>1. w \in DOMAIN runs /\ runs[w].id \in 0..MaxId
    BY <1>7 DEF Run, Inv, IdsTyped
  <2> QED
    BY <1>7, <2>1, RunStep
<1> QED
  BY <1>1, <1>2, <1>3, <1>4, <1>5, <1>6, <1>7 DEF Next

-------------------------------------------------------------------------------
(* Ids stay typed and goroutines stay records *)

RunsTyped == \A w \in DOMAIN runs : runs[w].id \in 0..MaxId

LEMMA StartKeepsRuns ==
    ASSUME RunShape, RunsTyped, NEW m, NEW pc, m.id \in 0..MaxId, Start(m, pc)
    PROVE  RunShape' /\ RunsTyped'
<1>1. PICK w \in Workers : runs' = Put(runs, w, [id |-> m.id, gen |-> m.gen, pc |-> pc])
  BY DEF Start
<1>2. \A v \in DOMAIN runs' :
         \/ v = w /\ runs'[v] = [id |-> m.id, gen |-> m.gen, pc |-> pc]
         \/ v \in DOMAIN runs /\ runs'[v] = runs[v]
  BY <1>1 DEF Put
<1> QED
  BY <1>2 DEF RunShape, RunsTyped

LEMMA RunKeepsRuns ==
    ASSUME RunShape, RunsTyped, NEW w \in DOMAIN runs, Run(w)
    PROVE  RunShape' /\ RunsTyped'
<1>1. CASE \E pc : runs' = [runs EXCEPT ![w].pc = pc]
  BY <1>1 DEF RunShape, RunsTyped
<1>2. CASE runs' = Remove(runs, w)
  BY <1>2 DEF RunShape, RunsTyped, Remove
<1> QED
  BY <1>1, <1>2 DEF Run, ReadSecret, SecretRead, FinishAuth, FinishPublic, EndRun

LEMMA ClaimRunKeepsRuns ==
    ASSUME RunShape, RunsTyped, NEW m, NEW lag, m.id \in 0..MaxId,
           ClaimRun(m, lag) \/ UNCHANGED runs
    PROVE  RunShape' /\ RunsTyped'
<1>1. CASE UNCHANGED runs
  BY <1>1 DEF RunShape, RunsTyped
<1>2. CASE Start(m, "start")
  BY <1>2, StartKeepsRuns
<1> QED
  BY <1>1, <1>2 DEF ClaimRun

LEMMA RunsStep ==
    ASSUME Inv, [Next]_vars
    PROVE  RunShape' /\ RunsTyped'
<1> USE DEF Inv, IdsTyped
<1>0. RunShape /\ RunsTyped
  BY DEF RunsTyped
<1>1. CASE UNCHANGED runs
  BY <1>0, <1>1 DEF RunShape, RunsTyped
<1>2. ASSUME NEW h \in Handlers, NewRequest(h)
      PROVE  UNCHANGED runs
  BY <1>2 DEF NewRequest, CreateInsert, UpdateCommit, DeleteCommit, TestLoad
<1>3. ASSUME NEW h \in Handlers, Handle(h)
      PROVE  RunShape' /\ RunsTyped'
  <2>1. requests[h].m.id \in 0..MaxId
    BY <1>3 DEF Handle
  <2>2. CASE ClaimNow(h)
    BY <1>0, <2>1, <2>2, ClaimRunKeepsRuns DEF ClaimNow
  <2>3. CASE TestClaim(h)
    BY <1>0, <1>1, <2>1, <2>3, StartKeepsRuns DEF TestClaim
  <2>4. CASE CreateSecret(h) \/ Load(h) \/ Request(h) \/ Forget(h)
    BY <1>1, <2>4 DEF CreateSecret, Load, Request, Forget
  <2> QED
    BY <1>3, <2>2, <2>3, <2>4 DEF Handle
<1>4. CASE ScanStep
  <2>1. PICK id \in DOMAIN scan : ClaimRun(scan[id], scanLag)
    BY <1>4 DEF ScanStep
  <2> QED
    BY <1>0, <2>1, ClaimRunKeepsRuns
<1>5. ASSUME NEW w \in Workers, Run(w)
      PROVE  RunShape' /\ RunsTyped'
  BY <1>0, <1>5, RunKeepsRuns DEF Run
<1> QED
  BY <1>1, <1>2, <1>3, <1>4, <1>5 DEF Next, vars, ScanStart, Pass, ScanFails, Elapse

\* The rows, the requests and the pass only ever name ids of the table, or 0.
LEMMA PutKeepsRequests ==
    ASSUME IdsTyped, NEW h, NEW pc, NEW m, m.id \in 0..MaxId,
           requests' = Put(requests, h, [pc |-> pc, m |-> m])
    PROVE  \A g \in DOMAIN requests' : requests'[g].m.id \in 0..MaxId
BY DEF IdsTyped, Put

LEMMA RequestsStep ==
    ASSUME Inv, [Next]_vars
    PROVE  /\ DOMAIN monitors' \subseteq Monitors
           /\ \A h \in DOMAIN requests' : requests'[h].m.id \in 0..MaxId
<1> USE DEF Inv
<1>1. CASE UNCHANGED <<monitors, requests>>
  BY <1>1 DEF IdsTyped
<1>2. ASSUME NEW h \in Handlers, NEW id \in Monitors,
             \/ CreateInsert(h, id) \/ UpdateCommit(h, id)
             \/ DeleteCommit(h, id) \/ TestLoad(h, id)
      PROVE  /\ DOMAIN monitors' \subseteq Monitors
             /\ \A g \in DOMAIN requests' : requests'[g].m.id \in 0..MaxId
  <2>1. id \in 0..MaxId /\ Snapshot(id).id = id /\ [ZeroMonitor EXCEPT !.id = id].id = id
    BY DEF Monitors, Snapshot, ZeroMonitor
  <2>2. DOMAIN monitors' \subseteq DOMAIN monitors \cup {id}
    BY <1>2 DEF CreateInsert, UpdateCommit, DeleteCommit, TestLoad, tableVars, Put, Remove
  <2>3. CASE UNCHANGED requests
    BY <2>2, <2>3 DEF IdsTyped
  <2>4. ASSUME NEW pc, NEW m, m.id = id, Accept(h, pc, m)
        PROVE  \A g \in DOMAIN requests' : requests'[g].m.id \in 0..MaxId
    BY <2>1, <2>4, PutKeepsRequests DEF Accept
  <2>5. \/ UNCHANGED requests
        \/ \E pc : Accept(h, pc, [ZeroMonitor EXCEPT !.id = id]) \/ Accept(h, pc, Snapshot(id))
    BY <1>2 DEF CreateInsert, UpdateCommit, DeleteCommit, TestLoad
  <2> QED
    BY <2>1, <2>2, <2>3, <2>4, <2>5 DEF IdsTyped
<1>3. ASSUME NEW h \in Handlers, Handle(h)
      PROVE  /\ DOMAIN monitors' \subseteq Monitors
             /\ \A g \in DOMAIN requests' : requests'[g].m.id \in 0..MaxId
  <2>1. DOMAIN monitors' \subseteq DOMAIN monitors
    BY <1>3 DEF Handle, CreateSecret, Load, Request, ClaimNow, Forget, TestClaim, tableVars,
       Remove, Missed
  <2>2. CASE requests' = Remove(requests, h)
    BY <2>1, <2>2 DEF IdsTyped, Remove
  <2>3. ASSUME NEW pc, NEW m, m.id \in 0..MaxId, GoTo(h, pc, m)
        PROVE  \A g \in DOMAIN requests' : requests'[g].m.id \in 0..MaxId
    BY <2>3, PutKeepsRequests DEF GoTo
  <2>4. /\ requests[h].m.id \in 0..MaxId
        /\ Snapshot(requests[h].m.id).id = requests[h].m.id
        /\ ZeroMonitor.id \in 0..MaxId
    BY <1>3, SchedulerAssumption DEF Handle, IdsTyped, Snapshot, ZeroMonitor
  <2>5. \/ requests' = Remove(requests, h)
        \/ \E pc : \/ GoTo(h, pc, requests[h].m)
                   \/ GoTo(h, pc, Snapshot(requests[h].m.id))
                   \/ GoTo(h, pc, ZeroMonitor)
    BY <1>3 DEF Handle, CreateSecret, Load, Request, ClaimNow, Forget, TestClaim, Finish
  <2> QED
    BY <2>1, <2>2, <2>3, <2>4, <2>5 DEF IdsTyped
<1>4. ASSUME NEW w \in Workers, Run(w)
      PROVE  UNCHANGED requests /\ DOMAIN monitors' = DOMAIN monitors
  BY <1>4 DEF Run, ReadSecret, SecretRead, SecretFails, Missed, FinishAuth, FinishPublic,
     EndRun, Record, tableVars
<1>5. ASSUME NEW w \in Workers, Run(w)
      PROVE  /\ DOMAIN monitors' \subseteq Monitors
             /\ \A g \in DOMAIN requests' : requests'[g].m.id \in 0..MaxId
  BY <1>4, <1>5 DEF IdsTyped
<1> QED
  BY <1>1, <1>2, <1>3, <1>5 DEF Next, NewRequest, vars, ScanStart, Pass, ScanFails, ScanStep,
     Elapse, tableVars

LEMMA ScanStepTyped ==
    ASSUME Inv, [Next]_vars
    PROVE  \A id \in DOMAIN scan' : scan'[id].id \in 0..MaxId
<1> USE DEF Inv, IdsTyped
<1>1. CASE UNCHANGED scan
  BY <1>1
<1>2. CASE ScanStart
  BY <1>2, SchedulerAssumption DEF ScanStart, Pass, Snapshot, Monitors
<1>3. CASE ScanStep
  BY <1>3 DEF ScanStep, Remove
<1> QED
  BY <1>1, <1>2, <1>3 DEF Next, NewRequest, CreateInsert, UpdateCommit, DeleteCommit, TestLoad,
     Handle, CreateSecret, Load, Request, ClaimNow, Forget, TestClaim, ScanFails, Elapse,
     Run, ReadSecret, FinishAuth, FinishPublic, EndRun, scanVars, vars

-------------------------------------------------------------------------------
(* The theorems *)

LEMMA InitInv == Init => Inv
<1> SUFFICES ASSUME Init PROVE Inv
  OBVIOUS
<1>1. /\ DOMAIN monitors = {} /\ DOMAIN requests = {}
      /\ DOMAIN scan = {} /\ DOMAIN runs = {}
      /\ inFlight = {} /\ active = 0
  BY DEF Init, Nothing, Coord!Init
<1>2. IsFiniteSet(DOMAIN runs) /\ Cardinality(DOMAIN runs) = 0
  BY <1>1, FS_EmptySet
<1>3. GoroutinesHoldSlots
  BY <1>1, <1>2, SchedulerAssumption
     DEF GoroutinesHoldSlots, OneRunPerMonitor, BooksMatchRuns
<1> QED
  BY <1>1, <1>3 DEF Inv, IdsTyped, RunShape

LEMMA NextInv == Inv /\ [Next]_vars => Inv'
<1> SUFFICES ASSUME Inv, [Next]_vars PROVE Inv'
  OBVIOUS
<1>1. GoroutinesHoldSlots'
  BY Steps, SameGoroutinesKeepSlots, StartKeepsSlots, EndKeepsSlots DEF Inv
<1> QED
  BY <1>1, RunsStep, RequestsStep, ScanStepTyped DEF Inv, IdsTyped, RunsTyped

THEOREM InvAlways == Spec => []Inv
<1> QED
  BY InitInv, NextInv, PTL DEF Spec

\* No two check goroutines ever work for the same monitor.
THEOREM RunsAreExclusive == Spec => []OneRunPerMonitor
<1>1. Inv => OneRunPerMonitor
  BY DEF Inv, GoroutinesHoldSlots
<1> QED
  BY <1>1, InvAlways, PTL

\* The coordinator's set and counter are exactly the goroutines that exist.
THEOREM BooksAreTheGoroutines == Spec => []BooksMatchRuns
<1>1. Inv => BooksMatchRuns
  BY DEF Inv, GoroutinesHoldSlots
<1> QED
  BY <1>1, InvAlways, PTL

\* The goroutines implement the pool of slots: each start acquires a slot that
\* was free for a monitor that had none, and each end gives that slot back.
THEOREM SchedulerImplementsSlots == Spec => ImplementsCheckSlots
<1> DEFINE ids == {runs[w].id : w \in DOMAIN runs}
           left == Limit - Cardinality(DOMAIN runs)
<1>1. Init => Slots!Init
  <2> SUFFICES ASSUME Init PROVE ids = {} /\ left = Limit
    BY DEF Slots!Init
  <2>1. DOMAIN runs = {}
    BY DEF Init, Nothing
  <2>2. Cardinality(DOMAIN runs) = 0
    BY <2>1, FS_EmptySet
  <2> QED
    BY <2>1, <2>2, SchedulerAssumption
<1>2. Inv /\ Inv' /\ [Next]_vars => [Slots!Next]_(Slots!vars)
  <2> SUFFICES ASSUME Inv, Inv', [Next]_vars PROVE [Slots!Next]_(Slots!vars)
    OBVIOUS
  <2>1. ids = inFlight /\ left = Limit - active
    BY DEF Inv, GoroutinesHoldSlots, BooksMatchRuns
  <2>2. ids' = inFlight' /\ left' = Limit - active'
    BY DEF Inv, GoroutinesHoldSlots, BooksMatchRuns
  <2>3. active \in Nat /\ Limit \in Nat
    BY ActiveIsNat DEF Inv
  <2>4. CASE SameGoroutines
    BY <2>1, <2>2, <2>4 DEF SameGoroutines, Slots!vars
  <2>5. ASSUME NEW id \in 0..MaxId, Started(id)
        PROVE  Slots!Acquire(id)
    BY <2>1, <2>2, <2>3, <2>5 DEF Started, Slots!Acquire
  <2>6. ASSUME NEW id \in 0..MaxId, Ended(id)
        PROVE  Slots!Drop(id)
    <3>1. id \in ids
      BY <2>6 DEF Ended
    <3> QED
      BY <2>1, <2>2, <2>3, <2>6, <3>1 DEF Ended, Slots!Drop
  <2> QED
    BY <2>4, <2>5, <2>6, Steps DEF Slots!Next
<1> QED
  BY <1>1, <1>2, InvAlways, PTL DEF Spec, Slots!Spec, ImplementsCheckSlots

-------------------------------------------------------------------------------
(* The second part: types, and credentials that are about to be checked *)

RunPcs == {"start", "auth", "test", "public", "done"}

-------------------------------------------------------------------------------
(* Types *)

LEMMA LagsAreAges ==
    ASSUME NEW interval \in Intervals, NEW lag \in 0..MaxLag
    PROVE  lag \in 0..Horizon
BY SchedulerAssumption

LEMMA CoordCallTyped ==
    ASSUME Coord!TypeOK, Inv, Inv', NEW id \in 0..MaxId, NEW lag \in 0..Horizon,
           NEW interval,
           \/ Coord!ClaimAccepted(id, lag, interval)
           \/ Coord!ManualAccepted(id, lag)
           \/ Coord!ClaimNotDue(id, lag, interval)
           \/ Coord!ClaimOverlap(id, lag, interval)
           \/ Coord!ClaimCapacity(id, lag, interval)
           \/ Coord!ManualRejected(id)
           \/ Coord!RequestImmediate(id)
           \/ Coord!Release(id)
           \/ Coord!Forget(id)
    PROVE  Coord!TypeOK'
<1>1. active' \in Nat
  BY ActiveIsNat, FS_CardinalityType DEF Inv, GoroutinesHoldSlots, BooksMatchRuns
<1>2. inFlight' \subseteq 0..MaxId
  BY DEF Inv, GoroutinesHoldSlots, BooksMatchRuns, IdsTyped
<1>3. Horizon \in 0..Horizon
  BY SchedulerAssumption
<1>4. lastRuns' \in [0..MaxId -> 0..Horizon]
  BY <1>3 DEF Coord!TypeOK, Coord!ClaimAccepted, Coord!Occupy, Coord!ManualAccepted,
     Coord!ClaimNotDue, Coord!ClaimOverlap, Coord!ClaimCapacity, Coord!ManualRejected,
     Coord!RequestImmediate, Coord!Release, Coord!Forget, Coord!coordVars
<1>5. pendingImmediate' \subseteq 0..MaxId
  BY DEF Coord!TypeOK, Coord!ClaimAccepted, Coord!Occupy, Coord!ManualAccepted,
     Coord!ClaimNotDue, Coord!ClaimOverlap, Coord!ClaimCapacity, Coord!ManualRejected,
     Coord!RequestImmediate, Coord!Release, Coord!Forget, Coord!coordVars
<1> QED
  BY <1>1, <1>2, <1>4, <1>5 DEF Coord!TypeOK

LEMMA StartTyped ==
    ASSUME RunShape, NEW m, NEW pc, Start(m, pc),
           m.id \in 0..MaxId, pc \in RunPcs, DOMAIN runs \subseteq Workers,
           \A w \in DOMAIN runs : runs[w].id \in 0..MaxId /\ runs[w].pc \in RunPcs
    PROVE  /\ DOMAIN runs' \subseteq Workers
           /\ \A w \in DOMAIN runs' : runs'[w].id \in 0..MaxId /\ runs'[w].pc \in RunPcs
<1>1. PICK w \in Workers \ DOMAIN runs :
         runs' = Put(runs, w, [id |-> m.id, gen |-> m.gen, pc |-> pc])
  BY DEF Start
<1> QED
  BY <1>1 DEF Put

\* The rows, and how many of them there have been.
RowsTyped == DOMAIN monitors \subseteq Monitors /\ \A id \in DOMAIN monitors : monitors[id] \in Row
TableTyped == /\ RowsTyped
              /\ DOMAIN requests \subseteq Handlers
              /\ created \in Nat /\ events \in 0..MaxEvents /\ created =< events

\* Nothing but what became of a credential changes in a row.
SecretChanges(id) == /\ Exists(id)
                     /\ \E secret \in {"new", "missed", "read"} :
                           monitors' = [monitors EXCEPT ![id].secret = secret]
ForeignChanges(id) == /\ Exists(id)
                      /\ \E foreign \in BOOLEAN :
                            monitors' = [monitors EXCEPT ![id].foreign = foreign]

LEMMA CountTyped ==
    ASSUME NEW kind, Count(kind), events \in 0..MaxEvents
    PROVE  /\ events' \in 0..MaxEvents /\ events =< events'
           /\ kind = "change" => events' = events + 1
BY SchedulerAssumption DEF Count

LEMMA FailsTyped ==
    ASSUME NEW norow, Fails(norow), events \in 0..MaxEvents
    PROVE  events' \in 0..MaxEvents /\ events =< events'
BY CountTyped DEF Fails

LEMMA MissedChanges ==
    ASSUME NEW id, monitors' = Missed(id)
    PROVE  UNCHANGED monitors \/ SecretChanges(id)
BY DEF Missed, SecretChanges

LEMMA RowChangesTyped ==
    ASSUME RowsTyped, NEW id, SecretChanges(id) \/ ForeignChanges(id)
    PROVE  RowsTyped'
<1> USE DEF RowsTyped, Exists
<1>1. ASSUME id \in DOMAIN monitors, NEW secret \in {"new", "missed", "read"},
             monitors' = [monitors EXCEPT ![id].secret = secret]
      PROVE  RowsTyped'
  BY <1>1 DEF Row
<1>2. ASSUME id \in DOMAIN monitors, NEW foreign \in BOOLEAN,
             monitors' = [monitors EXCEPT ![id].foreign = foreign]
      PROVE  RowsTyped'
  BY <1>2 DEF Row
<1> QED
  BY <1>1, <1>2 DEF SecretChanges, ForeignChanges

LEMMA NewRequestTyped ==
    ASSUME TableTyped, NEW h \in Handlers, NEW id \in Monitors,
           \/ CreateInsert(h, id) \/ UpdateCommit(h, id)
           \/ DeleteCommit(h, id) \/ TestLoad(h, id)
    PROVE  TableTyped'
<1> USE DEF TableTyped, RowsTyped
<1>1. DOMAIN requests' \subseteq Handlers
  <2>1. ASSUME NEW pc, NEW m, Accept(h, pc, m)
        PROVE  DOMAIN requests' \subseteq Handlers
    BY <2>1 DEF Accept, Put
  <2>2. UNCHANGED requests \/ \E pc, m : Accept(h, pc, m)
    BY DEF CreateInsert, UpdateCommit, DeleteCommit, TestLoad
  <2> QED
    BY <2>1, <2>2
<1>2. /\ events' \in 0..MaxEvents /\ events =< events'
      /\ ~TestLoad(h, id) => events' = events + 1
  <2>1. Count("change") \/ (TestLoad(h, id) /\ Count("test"))
    BY DEF CreateInsert, UpdateCommit, DeleteCommit, TestLoad
  <2> QED
    BY <2>1, CountTyped
<1>3. created' = created \/ (CreateInsert(h, id) /\ created' = created + 1)
  BY DEF CreateInsert, UpdateCommit, DeleteCommit, TestLoad
<1>4. created' \in Nat /\ created' =< events'
  <2>1. CASE created' = created
    BY <1>2, <2>1
  <2>2. CASE Count("change") /\ created' = created + 1
    BY <2>2, CountTyped
  <2> QED
    BY <1>3, <2>1, <2>2 DEF CreateInsert
<1>5. CASE CreateInsert(h, id)
  <2>1. PICK interval \in Intervals : monitors' = Put(monitors, id, NewRow(interval))
    BY <1>5 DEF CreateInsert
  <2>2. NewRow(interval) \in Row
    BY DEF NewRow, Row
  <2>3. RowsTyped'
    BY <2>1, <2>2 DEF Put
  <2> QED
    BY <1>1, <1>2, <1>4, <2>3
<1>6. CASE UpdateCommit(h, id)
  <2>1. PICK enabled \in BOOLEAN, interval \in Intervals, secret \in {"new", Kept(id)} :
           monitors' = [monitors EXCEPT ![id] =
                [@ EXCEPT !.enabled = enabled, !.interval = interval, !.secret = secret]]
    BY <1>6 DEF UpdateCommit
  <2>2. id \in DOMAIN monitors /\ monitors[id] \in Row
    BY <1>6 DEF UpdateCommit, Exists
  <2>3. monitors'[id] = [monitors[id] EXCEPT !.enabled = enabled, !.interval = interval,
                                              !.secret = secret]
    BY <2>1, <2>2
  <2>4. secret \in {"none", "new", "missed", "read"}
    BY <2>2 DEF Kept, Row
  <2>5. monitors'[id] \in Row
    BY <2>2, <2>3, <2>4 DEF Row
  <2>6. RowsTyped'
    <3>1. /\ DOMAIN monitors' = DOMAIN monitors
          /\ \A i \in DOMAIN monitors : i # id => monitors'[i] = monitors[i]
      BY <2>1
    <3> QED
      BY <2>2, <2>5, <3>1
  <2> QED
    BY <1>1, <1>2, <1>4, <2>6
<1>7. CASE DeleteCommit(h, id)
  <2>1. RowsTyped'
    BY <1>7 DEF DeleteCommit, Remove
  <2> QED
    BY <1>1, <1>2, <1>4, <2>1
<1>8. CASE TestLoad(h, id)
  BY <1>1, <1>2, <1>4, <1>8 DEF TestLoad
<1> QED
  BY <1>5, <1>6, <1>7, <1>8

\* What a handler does to the table.
HandleChanges(h) == \/ UNCHANGED monitors
                    \/ monitors' = Remove(monitors, requests[h].m.id)
                    \/ SecretChanges(requests[h].m.id)

LEMMA HandleTable ==
    ASSUME NEW h, Handle(h)
    PROVE  HandleChanges(h)
<1>1. CASE CreateSecret(h)
  BY <1>1 DEF CreateSecret, HandleChanges, SecretChanges
<1>2. CASE Load(h) \/ Forget(h)
  BY <1>2, MissedChanges DEF Load, Forget, HandleChanges
<1>3. CASE Request(h) \/ ClaimNow(h) \/ TestClaim(h)
  BY <1>3 DEF Request, ClaimNow, TestClaim, tableVars, HandleChanges
<1> QED
  BY <1>1, <1>2, <1>3 DEF Handle

LEMMA HandleTyped ==
    ASSUME TableTyped, NEW h \in Handlers, Handle(h)
    PROVE  TableTyped'
<1> USE DEF TableTyped
<1>1. DOMAIN requests' \subseteq Handlers /\ UNCHANGED created
  BY DEF Handle, CreateSecret, Load, Request, ClaimNow, Forget, TestClaim, tableVars,
     GoTo, Finish, Put, Remove
<1>2. events' \in 0..MaxEvents /\ events =< events'
  <2>1. UNCHANGED events \/ (\E norow : Fails(norow)) \/ Count("failure")
    BY DEF Handle, CreateSecret, Load, Request, ClaimNow, Forget, TestClaim, tableVars
  <2> QED
    BY <2>1, FailsTyped, CountTyped, SchedulerAssumption
<1>3. RowsTyped'
  <2>1. CASE monitors' = Remove(monitors, requests[h].m.id)
    BY <2>1 DEF RowsTyped, Remove
  <2>2. CASE UNCHANGED monitors
    BY <2>2 DEF RowsTyped
  <2> QED
    BY <2>1, <2>2, HandleTable, RowChangesTyped DEF HandleChanges
<1> QED
  BY <1>1, <1>2, <1>3

\* What a check does to the table.
LEMMA RunTable ==
    ASSUME RowsTyped, NEW w, Run(w)
    PROVE  \/ UNCHANGED monitors
           \/ SecretChanges(runs[w].id) /\ ReadSecret(w)
           \/ ForeignChanges(runs[w].id) /\ ~ReadSecret(w)
<1>1. CASE ReadSecret(w)
  <2>1. CASE SecretRead(w)
    BY <1>1, <2>1 DEF SecretRead, HasSecret, SecretChanges
  <2>2. CASE SecretFails(w)
    BY <1>1, <2>2, MissedChanges DEF SecretFails
  <2> QED
    BY <1>1, <2>1, <2>2 DEF ReadSecret
<1>2. CASE FinishAuth(w) \/ FinishPublic(w)
  <2>1. ~ReadSecret(w) /\ Record(w)
    BY <1>2 DEF FinishAuth, FinishPublic, ReadSecret
  <2>2. Exists(runs[w].id) => monitors[runs[w].id].foreign \in BOOLEAN
    BY DEF RowsTyped, Row, Exists
  <2>3. \/ UNCHANGED monitors
        \/ /\ Exists(runs[w].id)
           /\ monitors' = [monitors EXCEPT ![runs[w].id].foreign =
                 monitors[runs[w].id].foreign \/ runs[w].gen # monitors[runs[w].id].gen]
    BY <2>1 DEF Record, Exists
  <2> DEFINE now == monitors[runs[w].id].foreign \/ runs[w].gen # monitors[runs[w].id].gen
  <2>4. Exists(runs[w].id) => now \in BOOLEAN
    BY <2>2
  <2> HIDE DEF now
  <2> QED
    BY <2>1, <2>3, <2>4 DEF ForeignChanges, now
<1>3. CASE EndRun(w)
  BY <1>3 DEF EndRun, tableVars
<1> QED
  BY <1>1, <1>2, <1>3 DEF Run

LEMMA RunTyped ==
    ASSUME TableTyped, NEW w \in DOMAIN runs, Run(w)
    PROVE  TableTyped'
<1> USE DEF TableTyped
<1>1. UNCHANGED <<created, requests>>
  BY DEF Run, ReadSecret, FinishAuth, FinishPublic, EndRun, tableVars
<1>2. events' \in 0..MaxEvents /\ events =< events'
  <2>1. UNCHANGED events \/ \E norow : Fails(norow)
    BY DEF Run, ReadSecret, SecretRead, SecretFails, FinishAuth, FinishPublic, EndRun, Record,
       tableVars
  <2> QED
    BY <2>1, FailsTyped, SchedulerAssumption
<1>3. RowsTyped'
  <2>1. CASE UNCHANGED monitors
    BY <2>1 DEF RowsTyped
  <2> QED
    BY <2>1, RunTable, RowChangesTyped
<1> QED
  BY <1>1, <1>2, <1>3

LEMMA TableStep ==
    ASSUME TableTyped, [Next]_vars
    PROVE  TableTyped'
<1>1. CASE UNCHANGED <<tableVars, requests>>
  BY <1>1 DEF TableTyped, RowsTyped, tableVars
<1>2. CASE UNCHANGED vars \/ ScanStart \/ ScanStep \/ Elapse
  BY <1>1, <1>2 DEF vars, ScanStart, Pass, ScanStep, Elapse
<1>3. CASE ScanFails
  BY <1>3, CountTyped DEF ScanFails, TableTyped, RowsTyped
<1> QED
  BY <1>2, <1>3, NewRequestTyped, HandleTyped, RunTyped DEF Next, NewRequest, Run

\* The pass keeps typed rows.
ScanTyped == /\ DOMAIN scan \subseteq Monitors
             /\ scanLag \in 0..MaxLag /\ ticked \in BOOLEAN
             /\ \A id \in DOMAIN scan : scan[id].id = id /\ scan[id].interval \in Intervals

LEMMA ScanTypedStep ==
    ASSUME TableTyped, ScanTyped, [Next]_vars
    PROVE  ScanTyped'
<1>1. CASE UNCHANGED scanVars
  BY <1>1 DEF ScanTyped, scanVars
<1>2. CASE ScanStart
  <2>1. \A id \in DOMAIN monitors : monitors[id].interval \in Intervals
    BY DEF TableTyped, RowsTyped, Row
  <2> QED
    BY <1>2, <2>1 DEF ScanStart, Pass, Snapshot, ScanTyped, TableTyped, RowsTyped
<1>3. CASE ScanStep
  BY <1>3, SchedulerAssumption DEF ScanStep, Remove, ScanTyped
<1>4. CASE Elapse
  BY <1>4, SchedulerAssumption DEF Elapse, ScanTyped
<1>5. CASE UNCHANGED vars
  BY <1>1, <1>5 DEF vars
<1>6. ASSUME NEW h \in Handlers, NewRequest(h) \/ Handle(h)
      PROVE  UNCHANGED scanVars
  BY <1>6 DEF NewRequest, CreateInsert, UpdateCommit, DeleteCommit, TestLoad,
     Handle, CreateSecret, Load, Request, ClaimNow, Forget, TestClaim
<1>7. ASSUME NEW w \in Workers, Run(w)
      PROVE  UNCHANGED scanVars
  BY <1>7 DEF Run, ReadSecret, FinishAuth, FinishPublic, EndRun
<1>8. CASE ScanFails
  BY <1>8 DEF ScanFails, ScanTyped
<1> QED
  BY <1>1, <1>2, <1>3, <1>4, <1>5, <1>6, <1>7, <1>8 DEF Next

\* The goroutines are where a check can be, and the coordinator's books are typed.
RunsAndBooksTyped == /\ DOMAIN runs \subseteq Workers
                     /\ \A w \in DOMAIN runs : runs[w].id \in 0..MaxId /\ runs[w].pc \in RunPcs
                     /\ Coord!TypeOK

LEMMA ClaimRunTyped ==
    ASSUME RunsAndBooksTyped, Inv, Inv', NEW m, NEW lag \in 0..Horizon, m.id \in 0..MaxId,
           ClaimRun(m, lag)
    PROVE  RunsAndBooksTyped'
<1>1. Coord!TypeOK'
  BY CoordCallTyped DEF ClaimRun, ClaimRejected, RunsAndBooksTyped
<1>2. CASE UNCHANGED runs
  BY <1>1, <1>2 DEF RunsAndBooksTyped
<1>3. CASE Start(m, "start")
  BY <1>1, <1>3, StartTyped DEF RunsAndBooksTyped, Inv, RunPcs
<1> QED
  BY <1>2, <1>3 DEF ClaimRun

LEMMA RunKeepsTypes ==
    ASSUME RunsAndBooksTyped, Inv, Inv', NEW w \in DOMAIN runs, Run(w)
    PROVE  RunsAndBooksTyped'
<1> USE DEF RunsAndBooksTyped
<1>1. ASSUME UNCHANGED coordVars, NEW pc \in RunPcs, runs' = [runs EXCEPT ![w].pc = pc]
      PROVE  RunsAndBooksTyped'
  BY <1>1 DEF coordVars, Coord!TypeOK, Inv, RunShape
<1>2. ASSUME UNCHANGED coordVars, runs' = Remove(runs, w)
      PROVE  RunsAndBooksTyped'
  BY <1>2 DEF coordVars, Coord!TypeOK, Remove
<1>3. CASE EndRun(w)
  <2>1. Coord!TypeOK'
    <3>1. 0 \in 0..Horizon /\ runs[w].id \in 0..MaxId
      BY SchedulerAssumption
    <3>2. Coord!Release(runs[w].id)
      BY <1>3 DEF EndRun
    <3> QED
      BY <3>1, <3>2, CoordCallTyped
  <2> QED
    BY <1>3, <2>1 DEF EndRun, Remove
<1>4. ASSUME ReadSecret(w) \/ FinishAuth(w) \/ FinishPublic(w)
      PROVE  UNCHANGED coordVars /\ \E pc \in RunPcs : runs' = [runs EXCEPT ![w].pc = pc]
  BY <1>4 DEF ReadSecret, SecretRead, FinishAuth, FinishPublic, RunPcs
<1> QED
  BY <1>1, <1>3, <1>4 DEF Run

LEMMA HandleKeepsTypes ==
    ASSUME RunsAndBooksTyped, Inv, Inv', NEW h \in Handlers, Handle(h)
    PROVE  RunsAndBooksTyped'
<1> DEFINE m == requests[h].m
<1>1. m.id \in 0..MaxId /\ 0 \in 0..Horizon
  BY SchedulerAssumption DEF Handle, Inv, IdsTyped
<1>2. CASE UNCHANGED <<runs, coordVars>>
  BY <1>2 DEF RunsAndBooksTyped, coordVars, Coord!TypeOK
<1>3. CASE ClaimNow(h)
  BY <1>1, <1>3, ClaimRunTyped DEF ClaimNow
<1>4. CASE TestClaim(h)
  <2>1. Coord!TypeOK'
    BY <1>1, <1>4, CoordCallTyped DEF TestClaim, RunsAndBooksTyped
  <2>2. CASE UNCHANGED runs
    BY <2>1, <2>2 DEF RunsAndBooksTyped
  <2>3. CASE Start(m, "test")
    BY <1>1, <2>1, <2>3, StartTyped DEF RunsAndBooksTyped, Inv, RunPcs
  <2> QED
    BY <1>4, <2>2, <2>3 DEF TestClaim
<1>5. CASE Request(h) \/ Forget(h)
  <2>1. Coord!TypeOK'
    BY <1>1, <1>5, CoordCallTyped DEF Request, Forget, RunsAndBooksTyped
  <2>2. UNCHANGED runs
    BY <1>5 DEF Request, Forget
  <2> QED
    BY <2>1, <2>2 DEF RunsAndBooksTyped
<1>6. CASE CreateSecret(h) \/ Load(h)
  BY <1>2, <1>6 DEF CreateSecret, Load
<1> QED
  BY <1>3, <1>4, <1>5, <1>6 DEF Handle

LEMMA RunsAndBooksStep ==
    ASSUME RunsAndBooksTyped, ScanTyped, Inv, Inv', [Next]_vars
    PROVE  RunsAndBooksTyped'
<1>1. CASE UNCHANGED <<runs, coordVars>>
  BY <1>1 DEF RunsAndBooksTyped, coordVars, Coord!TypeOK
<1>2. ASSUME NEW h \in Handlers, NewRequest(h)
      PROVE  UNCHANGED <<runs, coordVars>>
  BY <1>2 DEF NewRequest, CreateInsert, UpdateCommit, DeleteCommit, TestLoad
<1>3. CASE ScanStep
  <2>1. PICK id \in DOMAIN scan : ClaimRun(scan[id], scanLag)
    BY <1>3 DEF ScanStep
  <2>2. scan[id].id \in 0..MaxId /\ scanLag \in 0..Horizon
    BY LagsAreAges DEF ScanTyped, Inv, IdsTyped
  <2> QED
    BY <2>1, <2>2, ClaimRunTyped
<1>4. CASE Elapse
  <2>1. Coord!TypeOK'
    BY <1>4, SchedulerAssumption DEF Elapse, Coord!Elapse, RunsAndBooksTyped, Coord!TypeOK
  <2> QED
    BY <1>4, <2>1 DEF Elapse, RunsAndBooksTyped
<1>5. CASE UNCHANGED vars \/ ScanStart \/ ScanFails
  BY <1>1, <1>5 DEF vars, ScanStart, Pass, ScanFails
<1> QED
  BY <1>1, <1>2, <1>3, <1>4, <1>5, HandleKeepsTypes, RunKeepsTypes DEF Next, Run

\* The tables, the handlers, the pass, the goroutines and the coordinator keep
\* their types: no call sequence stores an unknown interval, age or id.
THEOREM TypeCorrect == Spec => []TypeOK
<1> DEFINE Typing == TableTyped /\ ScanTyped /\ RunsAndBooksTyped
<1>1. Init => Typing
  <2> SUFFICES ASSUME Init PROVE Typing
    OBVIOUS
  <2> QED
    BY SchedulerAssumption DEF Init, Nothing, Coord!Init, TableTyped, RowsTyped, ScanTyped,
       RunsAndBooksTyped, Coord!TypeOK
<1>2. Inv /\ Inv' /\ Typing /\ [Next]_vars => Typing'
  BY TableStep, ScanTypedStep, RunsAndBooksStep
<1>3. Typing => TypeOK
  BY SchedulerAssumption DEF TableTyped, RowsTyped, ScanTyped, RunsAndBooksTyped, RunPcs, TypeOK
<1> QED
  BY <1>1, <1>2, <1>3, InvAlways, PTL DEF Spec

-------------------------------------------------------------------------------
(* Credentials *)

\* A row whose credential no check has used, and what is going to use it.
Unchecked(id) == Exists(id) /\ monitors[id].enabled /\ monitors[id].secret = "new"
Starting(id) == \E w \in DOMAIN runs : runs[w].id = id /\ runs[w].pc = "start"
WillAsk(h, id) == requests[h].m.id = id /\ requests[h].pc \in {"load", "reload", "request"}
Asking(id) == \E h \in DOMAIN requests : WillAsk(h, id)
Served(id) == id \in pendingImmediate \/ Starting(id) \/ Asking(id)

CredentialInv == \A id \in Monitors : Unchecked(id) => Served(id)

\* A row is unchecked only if it was, or has just been given a credential.
LEMMA RowChangesUnchecked ==
    ASSUME RowsTyped, NEW i, NEW id, Unchecked(id)',
           ForeignChanges(i) \/ (SecretChanges(i) /\ id # i)
    PROVE  Unchecked(id)
<1> USE DEF RowsTyped, Exists, Unchecked
<1>1. ASSUME i \in DOMAIN monitors, NEW foreign \in BOOLEAN,
             monitors' = [monitors EXCEPT ![i].foreign = foreign]
      PROVE  Unchecked(id)
  BY <1>1 DEF Row
<1>2. ASSUME NEW secret, monitors' = [monitors EXCEPT ![i].secret = secret], id # i
      PROVE  Unchecked(id)
  BY <1>2
<1> QED
  BY <1>1, <1>2 DEF SecretChanges, ForeignChanges

\* A credential whose run is lost is not unchecked any more, but missed.
LEMMA MissedUnchecked ==
    ASSUME RowsTyped, NEW i, monitors' = Missed(i), NEW id, Unchecked(id)'
    PROVE  id # i /\ Unchecked(id)
<1>1. i \in DOMAIN monitors => monitors[i] \in Row
  BY DEF RowsTyped
<1>2. CASE UNCHANGED monitors /\ ~(Exists(i) /\ monitors[i].secret = "new")
  BY <1>2 DEF Unchecked, Exists
<1>3. CASE /\ Exists(i) /\ monitors[i].secret = "new"
           /\ monitors' = [monitors EXCEPT ![i].secret = "missed"]
  <2>1. monitors'[i].secret = "missed"
    BY <1>1, <1>3 DEF Exists, Row
  <2> QED
    BY <1>3, <2>1 DEF Unchecked, Exists
<1> QED
  BY <1>2, <1>3 DEF Missed

LEMMA NewRequestKeepsAsking ==
    ASSUME NEW h, NEW pc, NEW m, Accept(h, pc, m), NEW id, Asking(id)
    PROVE  Asking(id)'
BY DEF Accept, Put, Asking, WillAsk

LEMMA HandlerKeepsAsking ==
    ASSUME NEW h \in DOMAIN requests,
           \/ requests' = Remove(requests, h)
           \/ \E pc, m : requests' = Put(requests, h, [pc |-> pc, m |-> m]),
           NEW id, Asking(id), ~WillAsk(h, id)
    PROVE  Asking(id)'
<1>1. PICK g \in DOMAIN requests : WillAsk(g, id)
  BY DEF Asking
<1>2. g # h
  BY <1>1
<1>3. g \in DOMAIN requests' /\ requests'[g] = requests[g]
  BY <1>2 DEF Remove, Put
<1> QED
  BY <1>1, <1>3 DEF Asking, WillAsk

LEMMA StartKeepsStarting ==
    ASSUME NEW m, NEW pc, Start(m, pc), NEW id, Starting(id)
    PROVE  Starting(id)'
BY DEF Start, Put, Starting

\* Whoever uses a request up starts the run that reads the credential.
LEMMA ClaimRunServes ==
    ASSUME NEW m, NEW lag, ClaimRun(m, lag), NEW id
    PROVE  /\ id \in pendingImmediate => id \in pendingImmediate' \/ Starting(id)'
           /\ Starting(id) => Starting(id)'
<1>1. CASE Coord!ClaimAccepted(m.id, lag, m.interval) /\ Start(m, "start")
  <2>1. pendingImmediate' = pendingImmediate \ {m.id}
    BY <1>1 DEF Coord!ClaimAccepted
  <2>2. Starting(m.id)'
    BY <1>1 DEF Start, Put, Starting
  <2> QED
    BY <1>1, <2>1, <2>2, StartKeepsStarting
<1>2. CASE ClaimRejected(m, lag) /\ UNCHANGED runs
  BY <1>2 DEF ClaimRejected, Coord!ClaimNotDue, Coord!ClaimOverlap, Coord!ClaimCapacity,
     Coord!coordVars, Starting
<1> QED
  BY <1>1, <1>2 DEF ClaimRun

-------------------------------------------------------------------------------
(* Its steps, for one monitor *)

LEMMA NewRequestServes ==
    ASSUME CredentialInv, RowsTyped, NEW h \in Handlers, NEW i \in Monitors,
           \/ CreateInsert(h, i) \/ UpdateCommit(h, i)
           \/ DeleteCommit(h, i) \/ TestLoad(h, i),
           NEW id \in Monitors, Unchecked(id)'
    PROVE  Served(id)'
<1>1. UNCHANGED <<runs, coordVars>>
  BY DEF CreateInsert, UpdateCommit, DeleteCommit, TestLoad
<1>2. \/ UNCHANGED requests
      \/ \E pc, m : Accept(h, pc, m)
  BY DEF CreateInsert, UpdateCommit, DeleteCommit, TestLoad
<1>3. Served(id) => Served(id)'
  BY <1>1, <1>2, NewRequestKeepsAsking DEF Served, Starting, Asking, WillAsk, coordVars
<1>4. CASE Unchecked(id)
  BY <1>3, <1>4 DEF CredentialInv
<1>5. CASE UNCHANGED monitors
  BY <1>4, <1>5 DEF Unchecked, Exists
<1>6. CASE CreateInsert(h, i)
  <2>1. PICK interval : monitors' = Put(monitors, i, NewRow(interval))
    BY <1>6 DEF CreateInsert
  <2>2. id # i
    BY <2>1 DEF Put, NewRow, Unchecked, Exists
  <2> QED
    BY <1>4, <2>1, <2>2 DEF Put, Unchecked, Exists
<1>7. CASE DeleteCommit(h, i)
  <2>1. monitors' = Remove(monitors, i)
    BY <1>7 DEF DeleteCommit
  <2> QED
    BY <1>4, <2>1 DEF Remove, Unchecked, Exists
<1>8. CASE UpdateCommit(h, i)
  <2>1. PICK enabled \in BOOLEAN, interval \in Intervals, secret \in {"new", Kept(i)} :
           /\ monitors' = [monitors EXCEPT ![i] =
                [@ EXCEPT !.enabled = enabled, !.interval = interval, !.secret = secret]]
           /\ \/ enabled /\ Accept(h, "reload", Snapshot(i))
              \/ ~enabled
    BY <1>8 DEF UpdateCommit
  <2>2. CASE id # i
    BY <1>4, <2>1, <2>2 DEF Unchecked, Exists
  <2>3. CASE id = i
    <3>1. monitors[i] \in Row /\ i \in DOMAIN monitors
      BY <1>8 DEF UpdateCommit, Exists, RowsTyped
    <3>2. monitors'[i].enabled = enabled
      BY <2>1, <3>1 DEF Row
    <3>3. Accept(h, "reload", Snapshot(i))
      BY <2>1, <2>3, <3>2 DEF Unchecked
    <3>4. h \in DOMAIN requests' /\ requests'[h] = [pc |-> "reload", m |-> Snapshot(i)]
      BY <3>3 DEF Accept, Put
    <3> QED
      BY <2>3, <3>4 DEF Served, Asking, WillAsk, Snapshot
  <2> QED
    BY <2>2, <2>3
<1>9. CASE TestLoad(h, i)
  BY <1>5, <1>9 DEF TestLoad
<1> QED
  BY <1>6, <1>7, <1>8, <1>9

LEMMA HandleServes ==
    ASSUME CredentialInv, RowsTyped, NEW h \in Handlers, Handle(h),
           NEW id \in Monitors, Unchecked(id)'
    PROVE  Served(id)'
<1> DEFINE i == requests[h].m.id
<1>0. h \in DOMAIN requests
  BY DEF Handle
<1>1. ASSUME ~WillAsk(h, id)
      PROVE  Asking(id) => Asking(id)'
  <2>1. \/ requests' = Remove(requests, h)
        \/ \E pc, m : requests' = Put(requests, h, [pc |-> pc, m |-> m])
    BY DEF Handle, CreateSecret, Load, Request, ClaimNow, Forget, TestClaim, GoTo, Finish
  <2> QED
    BY <1>0, <1>1, <2>1, HandlerKeepsAsking
<1>2. ASSUME UNCHANGED monitors
      PROVE  Served(id)
  BY <1>2 DEF CredentialInv, Unchecked, Exists
<1>3. CASE CreateSecret(h)
  <2>1. UNCHANGED <<runs, coordVars>> /\ ~WillAsk(h, id)
    BY <1>3 DEF CreateSecret, At, WillAsk
  <2>2. CASE Unchecked(id)
    BY <1>1, <2>1, <2>2 DEF CredentialInv, Served, Starting, coordVars
  <2>3. CASE /\ Exists(i) /\ monitors' = [monitors EXCEPT ![i].secret = "new"]
             /\ GoTo(h, "load", requests[h].m)
    <3>1. CASE id = i
      <4>1. h \in DOMAIN requests' /\ requests'[h] = [pc |-> "load", m |-> requests[h].m]
        BY <2>3 DEF GoTo, Put
      <4> QED
        BY <3>1, <4>1 DEF Served, Asking, WillAsk
    <3>2. CASE id # i
      BY <2>2, <2>3, <3>2 DEF Unchecked, Exists
    <3> QED
      BY <3>1, <3>2
  <2>4. CASE monitors' = Remove(monitors, i)
    BY <2>2, <2>4 DEF Remove, Unchecked, Exists
  <2>5. CASE UNCHANGED monitors
    BY <2>2, <2>5 DEF Unchecked, Exists
  <2> QED
    BY <1>3, <2>3, <2>4, <2>5 DEF CreateSecret
<1>4. CASE Load(h)
  <2>1. UNCHANGED <<runs, coordVars>>
    BY <1>4 DEF Load
  <2>2. CASE UNCHANGED monitors /\ GoTo(h, "request", Snapshot(i)) /\ id = i
    <3>1. h \in DOMAIN requests' /\ requests'[h] = [pc |-> "request", m |-> Snapshot(i)]
      BY <2>2 DEF GoTo, Put
    <3> QED
      BY <2>2, <3>1 DEF Served, Asking, WillAsk, Snapshot
  <2>3. CASE Unchecked(id) /\ id # i
    BY <1>1, <2>1, <2>3 DEF CredentialInv, Served, Starting, WillAsk, coordVars
  <2>4. CASE UNCHANGED monitors /\ GoTo(h, "request", Snapshot(i)) /\ id # i
    BY <2>3, <2>4 DEF Unchecked, Exists
  <2>5. CASE monitors' = Missed(i)
    BY <2>3, <2>5, MissedUnchecked
  <2> QED
    BY <1>4, <2>2, <2>4, <2>5 DEF Load
<1>5. CASE Request(h)
  <2>1. UNCHANGED <<monitors, runs>> /\ pendingImmediate' = pendingImmediate \cup {i}
    BY <1>5 DEF Request, tableVars, Coord!RequestImmediate
  <2>2. CASE id = i
    BY <2>1, <2>2 DEF Served
  <2>3. CASE id # i
    BY <1>1, <1>2, <2>1, <2>3 DEF Served, Starting, WillAsk
  <2> QED
    BY <2>2, <2>3
<1>6. CASE ClaimNow(h)
  <2>1. UNCHANGED monitors /\ ClaimRun(requests[h].m, 0) /\ ~WillAsk(h, id)
    BY <1>6 DEF ClaimNow, tableVars, At, WillAsk
  <2> QED
    BY <1>1, <1>2, <2>1, ClaimRunServes DEF Served
<1>7. CASE Forget(h)
  <2>1. /\ monitors' = Missed(i) /\ UNCHANGED runs
        /\ pendingImmediate' = pendingImmediate \ {i} /\ ~WillAsk(h, id)
    BY <1>7 DEF Forget, Coord!Forget, At, WillAsk
  <2>2. id # i /\ Unchecked(id)
    BY <2>1, MissedUnchecked
  <2> QED
    BY <1>1, <2>1, <2>2 DEF CredentialInv, Served, Starting
<1>8. CASE TestClaim(h)
  <2>1. UNCHANGED <<monitors, pendingImmediate>> /\ ~WillAsk(h, id)
    BY <1>8 DEF TestClaim, tableVars, Coord!ManualRejected, Coord!ManualAccepted, Coord!coordVars,
       At, WillAsk
  <2>2. Starting(id) => Starting(id)'
    BY <1>8, StartKeepsStarting DEF TestClaim, Starting
  <2> QED
    BY <1>1, <1>2, <2>1, <2>2 DEF Served
<1> QED
  BY <1>3, <1>4, <1>5, <1>6, <1>7, <1>8 DEF Handle

LEMMA RunServes ==
    ASSUME CredentialInv, RowsTyped, NEW w \in DOMAIN runs, Run(w),
           NEW id \in Monitors, Unchecked(id)'
    PROVE  Served(id)'
<1>1. UNCHANGED <<pendingImmediate, requests>>
  BY DEF Run, ReadSecret, FinishAuth, FinishPublic, EndRun, coordVars,
     Coord!Release, Coord!coordVars
<1>2. CASE ReadSecret(w)
  <2>1. ASSUME runs[w].id # id, NEW pc, runs' = [runs EXCEPT ![w].pc = pc]
        PROVE  Starting(id) => Starting(id)'
    BY <2>1 DEF Starting
  <2>2. runs[w].id # id /\ Unchecked(id)
    <3>1. CASE SecretRead(w)
      <4>1. runs[w].id # id
        BY <3>1 DEF SecretRead, HasSecret, Unchecked, Exists, RowsTyped, Row
      <4> QED
        BY <3>1, <4>1 DEF SecretRead, Unchecked, Exists
    <3>2. CASE SecretFails(w)
      BY <3>2, MissedUnchecked DEF SecretFails
    <3> QED
      BY <1>2, <3>1, <3>2 DEF ReadSecret
  <2> QED
    BY <1>1, <1>2, <2>1, <2>2
       DEF ReadSecret, SecretRead, CredentialInv, Served, Asking, WillAsk
<1>3. CASE FinishAuth(w) \/ FinishPublic(w) \/ EndRun(w)
  <2>1. runs[w].pc # "start"
    BY <1>3 DEF FinishAuth, FinishPublic, EndRun
  <2>2. Unchecked(id)
    <3>1. ~ReadSecret(w)
      BY <2>1 DEF ReadSecret
    <3>2. CASE UNCHANGED monitors
      BY <3>2 DEF Unchecked, Exists
    <3> QED
      BY <3>1, <3>2, RunTable, RowChangesUnchecked
  <2>3. \/ runs' = Remove(runs, w)
        \/ \E pc : runs' = [runs EXCEPT ![w].pc = pc]
    BY <1>3 DEF FinishAuth, FinishPublic, EndRun
  <2>4. Starting(id) => Starting(id)'
    BY <2>1, <2>3 DEF Starting, Remove
  <2> QED
    BY <1>1, <2>2, <2>4 DEF CredentialInv, Served, Asking, WillAsk
<1> QED
  BY <1>2, <1>3 DEF Run

LEMMA ServedStep ==
    ASSUME CredentialInv, RowsTyped, [Next]_vars
    PROVE  CredentialInv'
<1> SUFFICES ASSUME NEW id \in Monitors, Unchecked(id)' PROVE Served(id)'
  BY DEF CredentialInv
<1>1. CASE UNCHANGED <<monitors, requests, runs, pendingImmediate>>
  BY <1>1 DEF CredentialInv, Unchecked, Exists, Served, Starting, Asking, WillAsk
<1>2. CASE ScanStep
  <2>1. PICK i \in DOMAIN scan : ClaimRun(scan[i], scanLag)
    BY <1>2 DEF ScanStep
  <2>2. UNCHANGED <<monitors, requests>>
    BY <1>2 DEF ScanStep, tableVars
  <2> QED
    BY <2>1, <2>2, ClaimRunServes
       DEF CredentialInv, Unchecked, Exists, Served, Asking, WillAsk
<1>3. CASE UNCHANGED vars \/ ScanStart \/ ScanFails \/ Elapse
  BY <1>1, <1>3 DEF vars, ScanStart, Pass, ScanFails, Elapse, Coord!Elapse, tableVars, coordVars
<1> QED
  BY <1>2, <1>3, NewRequestServes, HandleServes, RunServes DEF Next, NewRequest, Run

\* A credential that is stored and that no check has used yet is about to be
\* checked, however handlers, passes and runs interleave, as long as no statement
\* fails on its way there and its id is not forgotten for a monitor of the past.
THEOREM CredentialsAreChecked == Spec => []CredentialWillBeChecked
<1> DEFINE CInv == TableTyped /\ CredentialInv
<1>1. Init => CInv
  <2> SUFFICES ASSUME Init PROVE CInv
    OBVIOUS
  <2> QED
    BY SchedulerAssumption
       DEF Init, Nothing, TableTyped, RowsTyped, CredentialInv, Unchecked, Exists
<1>2. CInv /\ [Next]_vars => CInv'
  BY TableStep, ServedStep DEF TableTyped
<1>3. CInv => CredentialWillBeChecked
  BY DEF TableTyped, RowsTyped, CredentialInv, CredentialWillBeChecked, Unchecked, Exists,
     Served, Starting, Asking, WillAsk
<1> QED
  BY <1>1, <1>2, <1>3, PTL DEF Spec
===============================================================================
