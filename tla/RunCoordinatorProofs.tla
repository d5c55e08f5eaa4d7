------------------------- MODULE RunCoordinatorProofs -------------------------
(***************************************************************************)
(* Proofs about RunCoordinator for every set of monitors (it may be        *)
(* infinite), every limit and every clock.  The books of the coordinator   *)
(* are kept together by one inductive invariant, Books; everything else    *)
(* follows from it.                                                        *)
(***************************************************************************)
EXTENDS RunCoordinator, FiniteSetTheorems, TLAPS

Books == TypeOK /\ SlotsBounded

-------------------------------------------------------------------------------
(* What the calls do to the books *)

\* Admitting a run keeps the counter and the set in step.
LEMMA OccupyKeepsBooks ==
    ASSUME Books, NEW id \in Ids, NEW lag \in Lags,
           id \notin inFlight, active < Limit, Occupy(id, lag),
           pendingImmediate' \subseteq Ids
    PROVE  Books'
<1>1. TypeOK'
  BY TimeAssumption DEF Books, TypeOK, Occupy
<1>2. /\ IsFiniteSet(inFlight')
      /\ Cardinality(inFlight') = Cardinality(inFlight) + 1
  BY FS_AddElement DEF Books, SlotsBounded, Occupy
<1>3. SlotsBounded'
  BY <1>2, LimitAssumption DEF Books, TypeOK, SlotsBounded, Occupy
<1> QED
  BY <1>1, <1>3 DEF Books

\* A call that leaves the set and the counter alone keeps the books.
LEMMA SameSlotsKeepsBooks ==
    ASSUME Books, UNCHANGED <<inFlight, active>>,
           lastRuns' \in [Ids -> 0..Horizon], pendingImmediate' \subseteq Ids
    PROVE  Books'
BY DEF Books, TypeOK, SlotsBounded

\* Releasing keeps them too, whether or not the monitor holds a slot.
LEMMA ReleaseKeepsBooks ==
    ASSUME Books, NEW id \in Ids, Release(id)
    PROVE  Books'
<1>1. CASE id \notin inFlight
  BY <1>1, SameSlotsKeepsBooks DEF Release, coordVars, Books, TypeOK
<1>2. CASE id \in inFlight
  <2>1. /\ inFlight' = inFlight \ {id}
        /\ active' = active - 1
        /\ UNCHANGED <<lastRuns, pendingImmediate>>
    BY <1>2 DEF Release
  <2>2. /\ IsFiniteSet(inFlight')
        /\ Cardinality(inFlight') = Cardinality(inFlight) - 1
    BY <1>2, <2>1, FS_RemoveElement DEF Books, SlotsBounded
  <2>3. Cardinality(inFlight') \in Nat
    BY <2>2, FS_CardinalityType
  <2>4. SlotsBounded'
    BY <2>1, <2>2, LimitAssumption DEF Books, TypeOK, SlotsBounded
  <2>5. TypeOK'
    BY <2>1, <2>2, <2>3 DEF Books, TypeOK, SlotsBounded
  <2> QED
    BY <2>4, <2>5 DEF Books
<1> QED
  BY <1>1, <1>2

LEMMA InitBooks == Init => Books
BY FS_EmptySet, LimitAssumption, TimeAssumption DEF Init, Books, TypeOK, SlotsBounded

LEMMA NextBooks == Books /\ [Next]_coordVars => Books'
<1> SUFFICES ASSUME Books, [Next]_coordVars
             PROVE  Books'
  OBVIOUS
<1>1. CASE UNCHANGED coordVars
  BY <1>1 DEF coordVars, Books, TypeOK, SlotsBounded
<1>2. CASE Elapse
  <2>1. lastRuns' \in [Ids -> 0..Horizon]
    BY <1>2, TimeAssumption DEF Elapse, Books, TypeOK
  <2> QED
    BY <1>2, <2>1, SameSlotsKeepsBooks DEF Elapse, Books, TypeOK
<1>3. ASSUME NEW id \in Ids, Call(id)
      PROVE  Books'
  <2>1. ASSUME NEW lag \in Lags, NEW interval \in Intervals, ClaimNotDue(id, lag, interval)
        PROVE  Books'
    BY <2>1, <1>1 DEF ClaimNotDue
  <2>2. ASSUME NEW lag \in Lags, NEW interval \in Intervals, ClaimOverlap(id, lag, interval)
        PROVE  Books'
    <3>1. lastRuns' \in [Ids -> 0..Horizon]
      BY <2>2, TimeAssumption DEF ClaimOverlap, Books, TypeOK
    <3> QED
      BY <2>2, <3>1, SameSlotsKeepsBooks DEF ClaimOverlap, Books, TypeOK
  <2>3. ASSUME NEW lag \in Lags, NEW interval \in Intervals, ClaimCapacity(id, lag, interval)
        PROVE  Books'
    BY <2>3, <1>1 DEF ClaimCapacity
  <2>4. ASSUME NEW lag \in Lags, NEW interval \in Intervals, ClaimAccepted(id, lag, interval)
        PROVE  Books'
    BY <2>4, OccupyKeepsBooks DEF ClaimAccepted, Books, TypeOK
  <2>5. CASE ManualRejected(id)
    BY <2>5, <1>1 DEF ManualRejected
  <2>6. ASSUME NEW lag \in Lags, ManualAccepted(id, lag)
        PROVE  Books'
    BY <2>6, OccupyKeepsBooks DEF ManualAccepted, Books, TypeOK
  <2>7. CASE RequestImmediate(id)
    BY <2>7, SameSlotsKeepsBooks DEF RequestImmediate, Books, TypeOK
  <2>8. CASE Release(id)
    BY <2>8, ReleaseKeepsBooks
  <2>9. CASE Forget(id)
    <3>1. lastRuns' \in [Ids -> 0..Horizon]
      BY <2>9, TimeAssumption DEF Forget, Books, TypeOK
    <3> QED
      BY <2>9, <3>1, SameSlotsKeepsBooks DEF Forget, Books, TypeOK
  <2> QED
    BY <1>3, <2>1, <2>2, <2>3, <2>4, <2>5, <2>6, <2>7, <2>8, <2>9 DEF Call
<1> QED
  BY <1>1, <1>2, <1>3 DEF Next

\* The books are in order in every reachable state.
THEOREM BooksAlways == Spec => []Books
<1> QED
  BY InitBooks, NextBooks, PTL DEF Spec

\* Type correctness of the coordinator's fields; the counter never goes negative.
THEOREM TypeCorrect == Spec => []TypeOK
<1>1. Books => TypeOK
  BY DEF Books
<1> QED
  BY <1>1, BooksAlways, PTL

\* However the calls are ordered and repeated, the counter is the number of
\* monitors in flight and never exceeds the limit.
THEOREM SlotsAreBounded == Spec => []SlotsBounded
<1>1. Books => SlotsBounded
  BY DEF Books
<1> QED
  BY <1>1, BooksAlways, PTL

-------------------------------------------------------------------------------
(* What a step may not do *)

\* A request for an immediate run is used up by a run or by Forget alone.
THEOREM PendingIsOnlyServed == Spec => PendingOnlyServed
<1> DEFINE Served == \A id \in Ids : id \in pendingImmediate /\ id \notin pendingImmediate' =>
                        \/ id \notin inFlight /\ id \in inFlight'
                        \/ lastRuns'[id] = Horizon
<1>1. Books /\ [Next]_coordVars => [Served]_coordVars
  <2> SUFFICES ASSUME Books, Next, NEW m \in Ids,
                      m \in pendingImmediate, m \notin pendingImmediate'
               PROVE  \/ m \notin inFlight /\ m \in inFlight'
                      \/ lastRuns'[m] = Horizon
    OBVIOUS
  <2>1. PICK id \in Ids : Call(id)
    BY DEF Next, Elapse
  <2>2. ASSUME NEW lag \in Lags, NEW interval \in Intervals, ClaimAccepted(id, lag, interval)
        PROVE  m \notin inFlight /\ m \in inFlight'
    BY <2>2 DEF ClaimAccepted, Occupy
  <2>3. CASE Forget(id)
    BY <2>3 DEF Forget, Books, TypeOK
  <2> QED
    BY <2>1, <2>2, <2>3 DEF Call, ClaimNotDue, ClaimOverlap, ClaimCapacity, ManualRejected,
       ManualAccepted, RequestImmediate, Release, coordVars
<1> QED
  BY <1>1, BooksAlways, PTL DEF Spec, PendingOnlyServed

\* A due monitor stays due until a run of it is in flight.
THEOREM DueIsStable == Spec => DueUntilRun
<1> DEFINE Stable == \A id \in Ids, interval \in Intervals :
                        Due(id, 0, interval) /\ ~Due(id, 0, interval)' => id \in inFlight'
<1>1. Books /\ [Next]_coordVars => [Stable]_coordVars
  <2> SUFFICES ASSUME Books, Next, NEW m \in Ids, NEW wait \in Intervals,
                      Due(m, 0, wait), ~Due(m, 0, wait)'
               PROVE  m \in inFlight'
    OBVIOUS
  <2>1. lastRuns[m] \in 0..Horizon /\ wait \in 0..Horizon /\ Horizon \in Nat
    BY TimeAssumption DEF Books, TypeOK
  <2>2. ~(pendingImmediate \subseteq pendingImmediate' /\ lastRuns'[m] \in Nat
          /\ lastRuns'[m] >= lastRuns[m])
    BY <2>1 DEF Due
  <2>3. lastRuns'[m] # Horizon
    BY <2>1 DEF Due
  <2>4. CASE Elapse
    BY <2>1, <2>2, <2>4 DEF Elapse
  <2>5. ASSUME NEW id \in Ids, Call(id)
        PROVE  m \in inFlight'
    <3>1. ASSUME NEW lag \in Lags, NEW interval \in Intervals, ClaimOverlap(id, lag, interval)
          PROVE  m \in inFlight'
      <4>1. m = id
        BY <2>1, <2>2, <3>1 DEF ClaimOverlap, Books, TypeOK
      <4> QED
        BY <3>1, <4>1 DEF ClaimOverlap
    <3>2. ASSUME NEW lag \in Lags, Occupy(id, lag), pendingImmediate \ {id} \subseteq pendingImmediate'
          PROVE  m \in inFlight'
      <4>1. m = id
        BY <2>1, <2>2, <3>2 DEF Occupy, Books, TypeOK, Due
      <4> QED
        BY <3>2, <4>1 DEF Occupy
    <3>3. CASE Forget(id)
      <4>1. m # id
        BY <2>3, <3>3 DEF Forget, Books, TypeOK
      <4> QED
        BY <2>1, <3>3, <4>1 DEF Forget, Books, TypeOK, Due
    <3>4. CASE UNCHANGED <<lastRuns, pendingImmediate>>
      BY <2>1, <2>2, <3>4
    <3>5. CASE RequestImmediate(id)
      BY <2>1, <2>2, <3>5 DEF RequestImmediate
    <3> QED
      BY <2>5, <3>1, <3>2, <3>3, <3>4, <3>5 DEF Call, ClaimNotDue, ClaimCapacity, ClaimAccepted,
         ManualRejected, ManualAccepted, Release, coordVars
  <2> QED
    BY <2>4, <2>5 DEF Next
<1> QED
  BY <1>1, BooksAlways, PTL DEF Spec, DueUntilRun

-------------------------------------------------------------------------------
(* Refinement *)

\* The coordinator implements the pool of slots.
THEOREM CoordinatorImplementsSlots == Spec => ImplementsCheckSlots
<1>1. Init => Slots!Init
  BY LimitAssumption DEF Init, Slots!Init
<1>2. Books /\ [Next]_coordVars => [Slots!Next]_(Slots!vars)
  <2> SUFFICES ASSUME Books, [Next]_coordVars
               PROVE  [Slots!Next]_(Slots!vars)
    OBVIOUS
  <2>1. Limit \in Nat /\ active \in Nat
    BY LimitAssumption DEF Books, TypeOK
  <2>2. CASE UNCHANGED <<inFlight, active>>
    BY <2>2 DEF Slots!vars
  <2>3. ASSUME NEW id \in Ids, NEW lag \in Lags,
               id \notin inFlight, active < Limit, Occupy(id, lag)
        PROVE  Slots!Acquire(id)
    BY <2>1, <2>3 DEF Occupy, Slots!Acquire
  <2>4. ASSUME NEW id \in Ids, id \in inFlight, Release(id)
        PROVE  Slots!Drop(id)
    BY <2>1, <2>4 DEF Release, Slots!Drop
  <2>5. ASSUME NEW id \in Ids, Call(id)
        PROVE  [Slots!Next]_(Slots!vars)
    BY <2>2, <2>3, <2>4, <2>5 DEF Slots!Next, Call, ClaimNotDue, ClaimOverlap, ClaimCapacity,
       ClaimAccepted, ManualRejected, ManualAccepted, RequestImmediate, Release, Forget, coordVars
  <2> QED
    BY <2>2, <2>5 DEF Next, Elapse, coordVars
<1> QED
  BY <1>1, <1>2, BooksAlways, PTL DEF Spec, Slots!Spec, ImplementsCheckSlots
===============================================================================
