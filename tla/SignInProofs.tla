----------------------------- MODULE SignInProofs -----------------------------
(***************************************************************************)
(* Proofs about SignIn for every finite set of handlers and every value of *)
(* the limits.  Two invariants carry them: SessionInv relates the map, the *)
(* table and the handlers that are between the two; LimiterInv bounds a    *)
(* lockout and says that no handler still under way can find the failures  *)
(* of a locked client expired.                                             *)
(***************************************************************************)
EXTENDS SignIn, FiniteSetTheorems, TLAPS

\* The handlers that hold a slot.
Hashing == {p \in Requests : At(p, "hash")}

PublishInv ==
    \A p \in Requests : At(p, "publish") =>
       /\ requests[p].id \in used \ issued
       /\ requests[p].id \in DOMAIN table => table[requests[p].id] = requests[p].at + TTL
       /\ now < requests[p].at + TTL => requests[p].id \in DOMAIN table
       /\ \A q \in Requests : At(q, "publish") /\ requests[q].id = requests[p].id => q = p

RevokeInv ==
    /\ \A p \in Requests : At(p, "revoke") =>
          requests[p].id \in issued /\ requests[p].id \notin DOMAIN active
    /\ \A id \in signedOut \ doubted : id \notin DOMAIN table /\ id \notin DOMAIN active

SessionInv ==
    /\ worker.cutoff =< now
    /\ \A id \in DOMAIN table : id \in DOMAIN active => table[id] = active[id]
    /\ DOMAIN table \subseteq used /\ DOMAIN active \subseteq used
    /\ MemoryMirrorsTable /\ PublishInv /\ RevokeInv

\* The handlers that may still record a failure.
Trying(p) == requests[p].pc \in {"wait", "hash", "right", "wrong"}

LimiterInv ==
    /\ worker.cutoff =< now
    /\ \A p \in Requests : Trying(p) => requests[p].at =< now /\ now =< requests[p].at + MaxWait
    /\ \A c \in DOMAIN records :
          /\ records[c].lockedUntil =< now + Lockout(records[c].lockouts)
          /\ Locked(c, now) /\ records[c].firstFailed # 0 =>
                \A p \in Requests : Trying(p) /\ requests[p].client = c =>
                   requests[p].at =< records[c].firstFailed + MaxWait

-------------------------------------------------------------------------------
(* Types *)

\* A lockout is a number of seconds and grows with the lockouts before it.
LEMMA LockoutGrows ==
    ASSUME NEW n \in 0..4
    PROVE  /\ Lockout(n) \in Nat
           /\ n < 4 => Lockout(n) =< Lockout(n + 1)
<1>1. LockoutBase \in Nat /\ LockoutMax \in Nat
  BY SignInAssumption
<1>2. CASE n = 0
  BY <1>1, <1>2 DEF Lockout
<1>3. CASE n = 1
  BY <1>1, <1>3 DEF Lockout
<1>4. CASE n = 2
  BY <1>1, <1>4 DEF Lockout
<1>5. CASE n = 3
  BY <1>1, <1>5 DEF Lockout
<1>6. CASE n = 4
  BY <1>1, <1>6 DEF Lockout
<1> QED
  BY <1>2, <1>3, <1>4, <1>5, <1>6

\* One more failure leaves a record of the same kind.
LEMMA FailedTyped ==
    ASSUME TypeOK, NEW c \in Clients, NEW t \in Nat
    PROVE  Failed(c, t) \in Attempts
<1> DEFINE old == IF c \notin DOMAIN records \/ Expired(c, t) THEN NoAttempts ELSE records[c]
<1>1. Threshold \in Nat \ {0}
  BY SignInAssumption
<1>2. old \in Attempts
  BY <1>1 DEF TypeOK, NoAttempts, Attempts
<1> HIDE DEF old
<1>3. Lockout(old.lockouts) \in Nat
  BY <1>2, LockoutGrows DEF Attempts
<1>4. Failed(c, t) = IF old.failures + 1 >= Threshold
      THEN [failures |-> 0, firstFailed |-> 0, lockedUntil |-> t + Lockout(old.lockouts),
            lockouts |-> IF old.lockouts = 4 THEN 4 ELSE old.lockouts + 1]
      ELSE [old EXCEPT !.failures = @ + 1, !.firstFailed = IF old.failures = 0 THEN t ELSE @]
  BY DEF Failed, old
<1>5. CASE old.failures + 1 >= Threshold
  <2>1. 0 \in 0..Threshold /\ (IF old.lockouts = 4 THEN 4 ELSE old.lockouts + 1) \in 0..4
    BY <1>1, <1>2 DEF Attempts
  <2> QED
    BY <1>3, <1>4, <1>5, <2>1 DEF Attempts
<1>6. CASE ~(old.failures + 1 >= Threshold)
  <2>1. old.failures + 1 \in 0..Threshold
    BY <1>1, <1>2, <1>6 DEF Attempts
  <2>2. (IF old.failures = 0 THEN t ELSE old.firstFailed) \in Nat
    BY <1>2 DEF Attempts
  <2> QED
    BY <1>2, <1>4, <1>6, <2>1, <2>2 DEF Attempts
<1> QED
  BY <1>5, <1>6

\* Nothing is held, counted or known before the first step.
LEMMA InitTyped == Init => TypeOK /\ HashSlotsCounted
<1> SUFFICES ASSUME Init PROVE TypeOK /\ HashSlotsCounted
  OBVIOUS
<1>1. {p \in Requests : At(p, "hash")} = {}
  BY DEF Init, At, Idle
<1>2. HashSlotsCounted
  BY <1>1, FS_EmptySet, SignInAssumption DEF Init, HashSlotsCounted
<1>3. TypeOK
  BY SignInAssumption DEF Init, TypeOK, Idle
<1> QED
  BY <1>2, <1>3

\* The type of a handler.
Request == [pc : {"idle", "wait", "hash", "right", "wrong", "issue", "publish", "revoke"},
            client : Clients \cup {NoId}, at : Nat, id : Ids \cup {NoId}]

\* Whatever is written about one handler, typed or not, is about that one.
LEMMA RequestStep ==
    ASSUME TypeOK, NEW p \in Requests, NEW r \in Request, requests' = [requests EXCEPT ![p] = r]
    PROVE  /\ requests' \in [Requests -> Request]
           /\ requests'[p] = r
           /\ \A q \in Requests : q # p => requests'[q] = requests[q]
BY DEF TypeOK, Request

\* A handler that moves on keeps its client and its time.
LEMMA GotoStep ==
    ASSUME TypeOK, NEW p \in Requests, Goto(p, "hash") \/ Goto(p, "right") \/ Goto(p, "wrong") \/ Goto(p, "issue")
    PROVE  /\ requests' \in [Requests -> Request]
           /\ requests'[p].pc \in {"hash", "right", "wrong", "issue"}
           /\ requests'[p].at = requests[p].at /\ requests'[p].client = requests[p].client
           /\ \A q \in Requests : q # p => requests'[q] = requests[q]
BY DEF TypeOK, Request, Goto

\* A handler that is answered is idle.
LEMMA AnswerStep ==
    ASSUME TypeOK, NEW p \in Requests, Answer(p)
    PROVE  /\ requests' \in [Requests -> Request]
           /\ requests'[p] = Idle
           /\ \A q \in Requests : q # p => requests'[q] = requests[q]
BY DEF TypeOK, Request, Answer, Idle

\* A handler that takes a slot, or gives its own back, is counted.
LEMMA SlotTaken ==
    ASSUME TypeOK, HashSlotsCounted, NEW p \in Requests, ~At(p, "hash"),
           requests'[p].pc = "hash", \A q \in Requests : q # p => requests'[q] = requests[q],
           slots < MaxHashes, slots' = slots + 1
    PROVE  HashSlotsCounted' /\ slots' \in 0..MaxHashes
<1>1. {q \in Requests : At(q, "hash")}' = Hashing \cup {p} /\ p \notin Hashing
  BY DEF At, Hashing
<1>2. IsFiniteSet(Hashing)
  BY SignInAssumption, FS_Subset DEF Hashing
<1>3. Cardinality(Hashing \cup {p}) = Cardinality(Hashing) + 1
  BY <1>1, <1>2, FS_AddElement
<1>4. slots \in 0..MaxHashes /\ slots = Cardinality(Hashing)
  BY DEF HashSlotsCounted, TypeOK, Hashing
<1>5. MaxHashes \in Nat
  BY SignInAssumption
<1>6. slots' \in 0..MaxHashes
  BY <1>3, <1>4, <1>5
<1> QED
  BY <1>1, <1>3, <1>4, <1>5, <1>6 DEF HashSlotsCounted

\* A handler that stops verifying has given its slot back.
LEMMA SlotReturned ==
    ASSUME TypeOK, HashSlotsCounted, NEW p \in Requests, At(p, "hash"),
           requests'[p].pc # "hash", \A q \in Requests : q # p => requests'[q] = requests[q],
           slots' = slots - 1
    PROVE  HashSlotsCounted' /\ slots' \in 0..MaxHashes
<1>1. {q \in Requests : At(q, "hash")}' = Hashing \ {p} /\ p \in Hashing
  BY DEF At, Hashing
<1>2. IsFiniteSet(Hashing)
  BY SignInAssumption, FS_Subset DEF Hashing
<1>3. Cardinality(Hashing \ {p}) = Cardinality(Hashing) - 1 /\ Cardinality(Hashing \ {p}) \in Nat
  BY <1>1, <1>2, FS_RemoveElement, FS_Subset, FS_CardinalityType
<1>4. slots \in 0..MaxHashes /\ slots = Cardinality(Hashing)
  BY DEF HashSlotsCounted, TypeOK, Hashing
<1>5. MaxHashes \in Nat
  BY SignInAssumption
<1>6. slots' \in 0..MaxHashes
  BY <1>3, <1>4, <1>5
<1>7. slots' = Cardinality(Hashing \ {p}) /\ slots' =< MaxHashes
  BY <1>3, <1>4, <1>5
<1>8. slots' = Cardinality({q \in Requests : At(q, "hash")}')
  BY <1>1, <1>7
<1> QED
  BY <1>6, <1>7, <1>8 DEF HashSlotsCounted

\* A step that starts and ends no verification changes no count.
LEMMA SlotsKept ==
    ASSUME HashSlotsCounted, UNCHANGED slots,
           \A q \in Requests : requests'[q].pc = "hash" <=> requests[q].pc = "hash"
    PROVE  HashSlotsCounted'
<1>1. {q \in Requests : At(q, "hash")}' = {q \in Requests : At(q, "hash")}
  BY DEF At
<1> QED
  BY <1>1 DEF HashSlotsCounted

\* What the type of the handlers says when one of them is answered or moved on.
LEMMA Moved ==
    ASSUME TypeOK, NEW p \in Requests,
           requests' \in [Requests -> Request],
           \A q \in Requests : q # p => requests'[q] = requests[q],
           requests'[p].pc \in {"wait", "hash", "right", "wrong"} => requests'[p].client \in Clients,
           used \subseteq used', issued \subseteq issued',
           requests'[p].pc = "publish" => requests'[p].id \in used',
           requests'[p].pc = "revoke" => requests'[p].id \in issued'
    PROVE  \A q \in Requests :
              /\ requests'[q].pc \in {"wait", "hash", "right", "wrong"} => requests'[q].client \in Clients
              /\ requests'[q].pc = "publish" => requests'[q].id \in used'
              /\ requests'[q].pc = "revoke" => requests'[q].id \in issued'
BY DEF TypeOK

\* Every step keeps the types and the count of the slots.
LEMMA TypesKept ==
    ASSUME TypeOK, HashSlotsCounted, [Next]_vars
    PROVE  TypeOK' /\ HashSlotsCounted'
<1> USE DEF At
<1>1. ASSUME NEW p \in Requests, NEW c \in Clients, Login(p, c) PROVE TypeOK' /\ HashSlotsCounted'
  <2>1. [pc |-> "wait", client |-> c, at |-> now, id |-> NoId] \in Request
    BY DEF Request, TypeOK
  <2>2. /\ requests' \in [Requests -> Request]
        /\ requests'[p] = [pc |-> "wait", client |-> c, at |-> now, id |-> NoId]
        /\ \A q \in Requests : q # p => requests'[q] = requests[q]
    BY <1>1, <2>1, RequestStep DEF Login
  <2>3. HashSlotsCounted'
    BY <1>1, <2>2, SlotsKept DEF Login
  <2>4. DOMAIN records' \subseteq Clients /\ \A x \in DOMAIN records' : records'[x] \in Attempts
    BY <1>1 DEF Login, TypeOK, Without
  <2> QED
    BY <1>1, <2>2, <2>3, <2>4, Moved DEF Login, TypeOK, sessionVars, Request
<1>2. ASSUME NEW p \in Requests, AcquireHashSlot(p) PROVE TypeOK' /\ HashSlotsCounted'
  <2>1. /\ requests' \in [Requests -> Request] /\ requests'[p].pc = "hash"
        /\ requests'[p].client \in Clients
        /\ \A q \in Requests : q # p => requests'[q] = requests[q]
    BY <1>2, GotoStep DEF AcquireHashSlot, Goto, TypeOK
  <2>2. HashSlotsCounted' /\ slots' \in 0..MaxHashes
    BY <1>2, <2>1, SlotTaken DEF AcquireHashSlot
  <2> QED
    BY <1>2, <2>1, <2>2, Moved DEF AcquireHashSlot, TypeOK, sessionVars, Request
<1>3. ASSUME NEW p \in Requests, Verify(p) PROVE TypeOK' /\ HashSlotsCounted'
  <2>1. /\ requests' \in [Requests -> Request] /\ requests'[p].pc \in {"right", "wrong"}
        /\ requests'[p].client \in Clients
        /\ \A q \in Requests : q # p => requests'[q] = requests[q]
    BY <1>3, GotoStep DEF Verify, Goto, TypeOK
  <2>2. HashSlotsCounted' /\ slots' \in 0..MaxHashes
    BY <1>3, <2>1, SlotReturned DEF Verify
  <2> QED
    BY <1>3, <2>1, <2>2, Moved DEF Verify, TypeOK, sessionVars, Request
<1>4. ASSUME NEW p \in Requests, Answer(p), ~At(p, "hash"), UNCHANGED <<slots, used>>,
             issued \subseteq issued'
      PROVE  /\ requests' \in [Requests -> Request] /\ HashSlotsCounted'
             /\ \A q \in Requests :
                   /\ requests'[q].pc \in {"wait", "hash", "right", "wrong"} => requests'[q].client \in Clients
                   /\ requests'[q].pc = "publish" => requests'[q].id \in used'
                   /\ requests'[q].pc = "revoke" => requests'[q].id \in issued'
  <2>1. /\ requests' \in [Requests -> Request] /\ requests'[p].pc = "idle"
        /\ \A q \in Requests : q # p => requests'[q] = requests[q]
    BY <1>4, AnswerStep DEF Idle
  <2> QED
    BY <1>4, <2>1, SlotsKept, Moved
<1>5. ASSUME NEW p \in Requests, GiveUp(p) \/ IssueFails(p) PROVE TypeOK' /\ HashSlotsCounted'
  BY <1>5, <1>4 DEF GiveUp, IssueFails, TypeOK, sessionVars, limiterVars, Request
<1>6. ASSUME NEW p \in Requests, RecordFailure(p) PROVE TypeOK' /\ HashSlotsCounted'
  <2> DEFINE c == requests[p].client
  <2>1. c \in Clients /\ requests[p].at \in Nat
    BY <1>6 DEF RecordFailure, TypeOK
  <2>2. Failed(c, requests[p].at) \in Attempts
    BY <2>1, FailedTyped
  <2>3. records' = With(records, c, Failed(c, requests[p].at))
    BY <1>6 DEF RecordFailure
  <2> HIDE DEF c
  <2>4. DOMAIN records' \subseteq Clients /\ \A x \in DOMAIN records' : records'[x] \in Attempts
    BY <2>1, <2>2, <2>3 DEF TypeOK, With
  <2> QED
    BY <1>6, <1>4, <2>4 DEF RecordFailure, TypeOK, sessionVars, Request
<1>7. ASSUME NEW p \in Requests, RecordSuccess(p) PROVE TypeOK' /\ HashSlotsCounted'
  <2>1. /\ requests' \in [Requests -> Request] /\ requests'[p].pc = "issue"
        /\ \A q \in Requests : q # p => requests'[q] = requests[q]
    BY <1>7, GotoStep DEF RecordSuccess, Goto, TypeOK
  <2>2. HashSlotsCounted'
    BY <1>7, <2>1, SlotsKept DEF RecordSuccess
  <2>3. DOMAIN records' \subseteq Clients /\ \A x \in DOMAIN records' : records'[x] \in Attempts
    BY <1>7 DEF RecordSuccess, TypeOK, Without
  <2> QED
    BY <1>7, <2>1, <2>2, <2>3, Moved DEF RecordSuccess, TypeOK, sessionVars, Request
<1>8. ASSUME NEW p \in Requests, IssueInsert(p) PROVE TypeOK' /\ HashSlotsCounted'
  <2>1. PICK id \in Ids \ used :
          /\ At(p, "issue")
          /\ table' = With(table, id, requests[p].at + TTL)
          /\ used' = used \cup {id}
          /\ requests' = [requests EXCEPT ![p].pc = "publish", ![p].id = id]
          /\ UNCHANGED <<now, active, issued, signedOut, doubted, limiterVars, worker>>
    BY <1>8 DEF IssueInsert
  <2>2. /\ requests' \in [Requests -> Request] /\ requests'[p].pc = "publish" /\ requests'[p].id = id
        /\ \A q \in Requests : q # p => requests'[q] = requests[q]
    BY <2>1 DEF TypeOK, Request
  <2>3. HashSlotsCounted'
    BY <2>1, <2>2, SlotsKept DEF limiterVars
  <2>4. DOMAIN table' \subseteq Ids /\ \A x \in DOMAIN table' : table'[x] \in Nat
    BY <2>1, SignInAssumption DEF TypeOK, With, Request
  <2> QED
    BY <2>1, <2>2, <2>3, <2>4, Moved DEF TypeOK, limiterVars, Request
<1>9. ASSUME NEW p \in Requests, IssuePublish(p) PROVE TypeOK' /\ HashSlotsCounted'
  <2>1. requests[p].id \in Ids /\ requests[p].at + TTL \in Nat
    BY <1>9, SignInAssumption DEF IssuePublish, TypeOK
  <2>2. DOMAIN active' \subseteq Ids /\ \A x \in DOMAIN active' : active'[x] \in Nat
    BY <1>9, <2>1 DEF IssuePublish, TypeOK, With
  <2>3. /\ UNCHANGED <<now, table, used, signedOut, doubted, slots, records, worker>>
        /\ issued \subseteq issued' /\ issued' \subseteq used'
    BY <1>9 DEF IssuePublish, TypeOK, limiterVars
  <2> QED
    BY <1>9, <1>4, <2>2, <2>3 DEF IssuePublish, TypeOK, limiterVars, Request
<1>10. ASSUME NEW p \in Requests, Logout(p) PROVE TypeOK' /\ HashSlotsCounted'
  <2>1. PICK id \in issued :
          /\ At(p, "idle")
          /\ active' = Without(active, {id})
          /\ requests' = [requests EXCEPT ![p] = [pc |-> "revoke", client |-> NoId, at |-> now, id |-> id]]
          /\ UNCHANGED <<now, table, used, issued, signedOut, doubted, limiterVars, worker>>
    BY <1>10 DEF Logout
  <2>2. id \in Ids
    BY DEF TypeOK
  <2>3. [pc |-> "revoke", client |-> NoId, at |-> now, id |-> id] \in Request
    BY <2>2 DEF Request, TypeOK
  <2>4. /\ requests' \in [Requests -> Request]
        /\ requests'[p] = [pc |-> "revoke", client |-> NoId, at |-> now, id |-> id]
        /\ \A q \in Requests : q # p => requests'[q] = requests[q]
    BY <2>1, <2>3, RequestStep
  <2>5. HashSlotsCounted'
    BY <2>1, <2>4, SlotsKept DEF limiterVars
  <2>6. DOMAIN active' \subseteq Ids /\ \A x \in DOMAIN active' : active'[x] \in Nat
    BY <2>1 DEF TypeOK, Without
  <2> QED
    BY <2>1, <2>2, <2>4, <2>5, <2>6, Moved DEF TypeOK, limiterVars, Request
<1>11. ASSUME NEW p \in Requests, RevokeDelete(p) \/ RevokeFails(p) PROVE TypeOK' /\ HashSlotsCounted'
  <2>1. DOMAIN table' \subseteq Ids /\ \A x \in DOMAIN table' : table'[x] \in Nat
    BY <1>11 DEF RevokeDelete, RevokeFails, TypeOK, Without
  <2>2. UNCHANGED <<now, active, used, issued, slots, records, worker>>
    BY <1>11 DEF RevokeDelete, RevokeFails, limiterVars
  <2> QED
    BY <1>11, <1>4, <2>1, <2>2 DEF RevokeDelete, RevokeFails, TypeOK, Request
<1>12. CASE PruneMemory
  <2>1. HashSlotsCounted'
    BY <1>12, SlotsKept DEF PruneMemory, limiterVars
  <2> QED
    BY <1>12, <2>1 DEF PruneMemory, TypeOK, Without, limiterVars
<1>13. CASE PruneTable
  <2>1. HashSlotsCounted'
    BY <1>13, SlotsKept DEF PruneTable, limiterVars
  <2>2. DOMAIN table' \subseteq Ids /\ \A x \in DOMAIN table' : table'[x] \in Nat
    BY <1>13 DEF PruneTable, TypeOK, Without
  <2> QED
    BY <1>13, <2>1, <2>2 DEF PruneTable, TypeOK, limiterVars
<1>14. CASE ForgetStale
  <2>1. HashSlotsCounted'
    BY <1>14, SlotsKept DEF ForgetStale
  <2> QED
    BY <1>14, <2>1 DEF ForgetStale, TypeOK, Without, sessionVars
<1>15. CASE Restart
  <2>1. Hashing' = {}
    BY <1>15 DEF Restart, Hashing, Idle
  <2>2. HashSlotsCounted'
    BY <1>15, <2>1, FS_EmptySet, SignInAssumption DEF Restart, HashSlotsCounted, Hashing
  <2>3. DOMAIN table' \subseteq Ids /\ \A x \in DOMAIN table' : table'[x] \in Nat
    BY <1>15 DEF Restart, TypeOK, Without
  <2> QED
    BY <1>15, <2>2, <2>3, SignInAssumption DEF Restart, TypeOK, Idle
<1>16. CASE Elapse
  <2>1. HashSlotsCounted'
    BY <1>16, SlotsKept DEF Elapse, limiterVars
  <2> QED
    BY <1>16, <2>1 DEF Elapse, TypeOK, sessionVars, limiterVars
<1>17. CASE UNCHANGED vars
  BY <1>17 DEF TypeOK, HashSlotsCounted, vars, sessionVars, limiterVars
<1> QED
  BY <1>1, <1>2, <1>3, <1>5, <1>6, <1>7, <1>8, <1>9, <1>10, <1>11, <1>12, <1>13, <1>14, <1>15,
     <1>16, <1>17 DEF Next

-------------------------------------------------------------------------------
(* Sessions *)

\* The steps that leave the sessions alone and neither start nor end an issue or a
\* revoke.
LEMMA SessionsUntouched ==
    ASSUME TypeOK, SessionInv, UNCHANGED sessionVars, UNCHANGED now, worker'.cutoff =< now,
           \A q \in Requests : \/ requests'[q] = requests[q]
                               \/ requests[q].pc \notin {"publish", "revoke"}
                                  /\ requests'[q].pc \notin {"publish", "revoke"}
    PROVE  SessionInv'
<1>1. PublishInv' /\ RevokeInv'
  BY DEF SessionInv, PublishInv, RevokeInv, At, sessionVars
<1>2. MemoryMirrorsTable'
  BY DEF SessionInv, MemoryMirrorsTable, Busy, sessionVars
<1> QED
  BY <1>1, <1>2 DEF SessionInv, sessionVars

\* Every step keeps the map, the table and the handlers between them in line, and
\* keeps out the sessions that were signed out.
LEMMA SessionsKept ==
    ASSUME TypeOK, TypeOK', SessionInv, [Next]_vars
    PROVE  /\ SessionInv'
           /\ \A x \in signedOut' :
                 x \in DOMAIN active' => \/ x \in signedOut /\ x \in DOMAIN active
                                         \/ x \in doubted /\ Restart
<1> DEFINE StaysOut == \A x \in signedOut' :
                 x \in DOMAIN active' => \/ x \in signedOut /\ x \in DOMAIN active
                                         \/ x \in doubted /\ Restart
<1> SUFFICES SessionInv' /\ StaysOut
  OBVIOUS
<1>1. ASSUME NEW p \in Requests, NEW r \in Request,
             requests' = [requests EXCEPT ![p] = r], r.pc \notin {"publish", "revoke"},
             ~At(p, "publish"), ~At(p, "revoke"), UNCHANGED <<now, sessionVars, worker>>
      PROVE  SessionInv' /\ StaysOut
  <2>1. /\ requests'[p] = r
        /\ \A q \in Requests : q # p => requests'[q] = requests[q]
    BY <1>1, RequestStep
  <2>2. worker'.cutoff =< now
    BY <1>1 DEF SessionInv
  <2>3. SessionInv'
    BY <1>1, <2>1, <2>2, SessionsUntouched DEF At
  <2> QED
    BY <1>1, <2>3 DEF sessionVars
<1>2. ASSUME NEW p \in Requests, NEW s \in {"hash", "right", "wrong", "issue"}, Goto(p, s),
             ~At(p, "publish"), ~At(p, "revoke"), UNCHANGED <<now, sessionVars, worker>>
      PROVE  SessionInv' /\ StaysOut
  <2>1. [requests[p] EXCEPT !.pc = s] \in Request /\ [requests[p] EXCEPT !.pc = s].pc = s
    BY DEF TypeOK, Request
  <2>2. requests' = [requests EXCEPT ![p] = [requests[p] EXCEPT !.pc = s]]
    BY <1>2 DEF Goto
  <2> QED
    BY <1>1, <1>2, <2>1, <2>2
<1>3. ASSUME NEW p \in Requests,
             \/ \E c \in Clients : Login(p, c)
             \/ AcquireHashSlot(p) \/ GiveUp(p) \/ Verify(p)
             \/ RecordFailure(p) \/ RecordSuccess(p) \/ IssueFails(p)
      PROVE  SessionInv' /\ StaysOut
  <2>1. Idle \in Request /\ Idle.pc = "idle"
    BY DEF Idle, Request
  <2>2. \A c \in Clients : [pc |-> "wait", client |-> c, at |-> now, id |-> NoId] \in Request
    BY DEF Request, TypeOK
  <2>3. CASE \E c \in Clients : Login(p, c)
    BY <1>1, <2>2, <2>3 DEF Login, At
  <2>4. CASE AcquireHashSlot(p)
    BY <1>2, <2>4 DEF AcquireHashSlot, At
  <2>5. CASE GiveUp(p) \/ IssueFails(p)
    BY <1>1, <2>1, <2>5 DEF GiveUp, IssueFails, Answer, At
  <2>6. CASE Verify(p)
    BY <1>2, <2>6 DEF Verify, At
  <2>7. CASE RecordFailure(p)
    BY <1>1, <2>1, <2>7 DEF RecordFailure, Answer, At
  <2>8. CASE RecordSuccess(p)
    BY <1>2, <2>8 DEF RecordSuccess, At
  <2> QED
    BY <1>3, <2>3, <2>4, <2>5, <2>6, <2>7, <2>8
<1>4. ASSUME NEW p \in Requests, IssueInsert(p) PROVE SessionInv' /\ StaysOut
  <2>1. PICK id \in Ids \ used :
          /\ At(p, "issue")
          /\ table' = With(table, id, requests[p].at + TTL)
          /\ used' = used \cup {id}
          /\ requests' = [requests EXCEPT ![p].pc = "publish", ![p].id = id]
          /\ UNCHANGED <<now, active, issued, signedOut, doubted, limiterVars, worker>>
    BY <1>4 DEF IssueInsert
  <2>2. /\ requests'[p].pc = "publish" /\ requests'[p].id = id /\ requests'[p].at = requests[p].at
        /\ \A q \in Requests : q # p => requests'[q] = requests[q]
    BY <2>1 DEF TypeOK, Request
  <2>3. /\ DOMAIN table' = DOMAIN table \cup {id} /\ table'[id] = requests[p].at + TTL
        /\ \A x \in DOMAIN table : x # id => table'[x] = table[x]
    BY <2>1 DEF With
  <2>4. id \notin used /\ id \notin DOMAIN table /\ id \notin DOMAIN active /\ id \notin issued
    BY DEF TypeOK, SessionInv
  <2>5. id \notin signedOut
    BY <2>4 DEF TypeOK
  <2>6. used' = used \cup {id} /\ UNCHANGED <<now, active, issued, signedOut, doubted>>
    BY <2>1
  <2>7. PublishInv'
    BY <2>2, <2>3, <2>4, <2>6 DEF SessionInv, PublishInv, At
  <2>8. RevokeInv'
    BY <2>2, <2>3, <2>5, <2>6 DEF SessionInv, RevokeInv, At
  <2>9. MemoryMirrorsTable'
    <3>1. \A x \in DOMAIN active : now < active[x] => x \in DOMAIN table' /\ table'[x] = active[x]
      BY <2>3, <2>4 DEF SessionInv, MemoryMirrorsTable
    <3>2. \A x \in Ids, s \in {"publish", "revoke"} : Busy(s, x) => Busy(s, x)'
      BY <2>1, <2>2 DEF Busy, At
    <3>3. Busy("publish", id)'
      BY <2>2 DEF Busy
    <3>4. \A x \in DOMAIN table : x \in Ids
      BY DEF TypeOK
    <3>5. \A x \in DOMAIN table' : now < table'[x] =>
             x \in DOMAIN active \/ Busy("publish", x)' \/ Busy("revoke", x)' \/ x \in doubted
      BY <2>3, <2>4, <3>2, <3>3, <3>4 DEF SessionInv, MemoryMirrorsTable
    <3> QED
      BY <2>1, <3>1, <3>5 DEF MemoryMirrorsTable
  <2>10. /\ worker'.cutoff =< now'
         /\ \A x \in DOMAIN table' : x \in DOMAIN active' => table'[x] = active'[x]
         /\ DOMAIN table' \subseteq used' /\ DOMAIN active' \subseteq used'
    BY <2>1, <2>3, <2>4 DEF SessionInv
  <2> QED
    BY <2>1, <2>7, <2>8, <2>9, <2>10 DEF SessionInv
<1>5. ASSUME NEW p \in Requests, IssuePublish(p) PROVE SessionInv' /\ StaysOut
  <2> DEFINE id == requests[p].id
  <2>1. /\ At(p, "publish")
        /\ active' = With(active, id, requests[p].at + TTL)
        /\ issued' = issued \cup {id}
        /\ UNCHANGED <<now, table, used, signedOut, doubted, limiterVars, worker>>
    BY <1>5 DEF IssuePublish
  <2>2. /\ requests'[p].pc = "idle"
        /\ \A q \in Requests : q # p => requests'[q] = requests[q]
    BY <1>5, AnswerStep DEF IssuePublish, Idle
  <2>3. /\ DOMAIN active' = DOMAIN active \cup {id} /\ active'[id] = requests[p].at + TTL
        /\ \A x \in DOMAIN active : x # id => active'[x] = active[x]
    BY <2>1 DEF With
  <2>4. /\ id \in used /\ id \notin issued
        /\ id \in DOMAIN table => table[id] = requests[p].at + TTL
        /\ now < requests[p].at + TTL => id \in DOMAIN table
        /\ \A q \in Requests : At(q, "publish") /\ requests[q].id = id => q = p
    BY <2>1 DEF SessionInv, PublishInv
  <2>5. id \notin signedOut
    BY <2>4 DEF TypeOK
  <2> HIDE DEF id
  <2>6. PublishInv'
    BY <2>1, <2>2, <2>4 DEF SessionInv, PublishInv, At
  <2>7. RevokeInv'
    BY <2>1, <2>2, <2>3, <2>4, <2>5 DEF SessionInv, RevokeInv, At
  <2>8. MemoryMirrorsTable'
    <3>1. \A x \in DOMAIN active' : now < active'[x] => x \in DOMAIN table /\ table[x] = active'[x]
      BY <2>3, <2>4 DEF SessionInv, MemoryMirrorsTable
    <3>2. \A x : x # id => (Busy("publish", x) => Busy("publish", x)') /\ (Busy("revoke", x) => Busy("revoke", x)')
      BY <2>1, <2>2 DEF Busy, At, id
    <3>3. \A x \in DOMAIN table : now < table[x] =>
             x \in DOMAIN active' \/ Busy("publish", x)' \/ Busy("revoke", x)' \/ x \in doubted
      BY <2>3, <3>2 DEF SessionInv, MemoryMirrorsTable
    <3> QED
      BY <2>1, <3>1, <3>3 DEF MemoryMirrorsTable
  <2>9. /\ worker'.cutoff =< now'
        /\ \A x \in DOMAIN table' : x \in DOMAIN active' => table'[x] = active'[x]
        /\ DOMAIN table' \subseteq used' /\ DOMAIN active' \subseteq used'
    BY <2>1, <2>3, <2>4 DEF SessionInv
  <2>10. StaysOut
    BY <2>1, <2>3, <2>5
  <2> QED
    BY <2>6, <2>7, <2>8, <2>9, <2>10 DEF SessionInv
<1>6. ASSUME NEW p \in Requests, Logout(p) PROVE SessionInv' /\ StaysOut
  <2>1. PICK id \in issued :
          /\ At(p, "idle")
          /\ active' = Without(active, {id})
          /\ requests' = [requests EXCEPT ![p] = [pc |-> "revoke", client |-> NoId, at |-> now, id |-> id]]
          /\ UNCHANGED <<now, table, used, issued, signedOut, doubted, limiterVars, worker>>
    BY <1>6 DEF Logout
  <2>2. [pc |-> "revoke", client |-> NoId, at |-> now, id |-> id] \in Request
    BY DEF Request, TypeOK
  <2>3. /\ requests'[p].pc = "revoke" /\ requests'[p].id = id
        /\ \A q \in Requests : q # p => requests'[q] = requests[q]
    BY <2>1, <2>2, RequestStep
  <2>4. /\ DOMAIN active' = DOMAIN active \ {id}
        /\ \A x \in DOMAIN active' : active'[x] = active[x]
    BY <2>1 DEF Without
  <2>5. PublishInv'
    BY <2>1, <2>3 DEF SessionInv, PublishInv, At
  <2>6. RevokeInv'
    BY <2>1, <2>3, <2>4 DEF SessionInv, RevokeInv, At
  <2>7. MemoryMirrorsTable'
    <3>1. \A x : (Busy("publish", x) => Busy("publish", x)') /\ (Busy("revoke", x) => Busy("revoke", x)')
      BY <2>1, <2>3 DEF Busy, At
    <3>2. Busy("revoke", id)'
      BY <2>3 DEF Busy
    <3> QED
      BY <2>1, <2>4, <3>1, <3>2 DEF SessionInv, MemoryMirrorsTable
  <2> QED
    BY <2>1, <2>4, <2>5, <2>6, <2>7 DEF SessionInv
<1>7. ASSUME NEW p \in Requests, RevokeDelete(p) \/ RevokeFails(p) PROVE SessionInv' /\ StaysOut
  <2> DEFINE id == requests[p].id
  <2>1. /\ At(p, "revoke") /\ signedOut' = signedOut \cup {id}
        /\ UNCHANGED <<now, active, used, issued, limiterVars, worker>>
        /\ \/ table' = Without(table, {id}) /\ UNCHANGED doubted
           \/ UNCHANGED table /\ doubted' = doubted \cup {id}
    BY <1>7 DEF RevokeDelete, RevokeFails
  <2>2. /\ requests'[p].pc = "idle"
        /\ \A q \in Requests : q # p => requests'[q] = requests[q]
    BY <1>7, AnswerStep DEF RevokeDelete, RevokeFails, Idle
  <2>3. id \in issued /\ id \notin DOMAIN active
    BY <2>1 DEF SessionInv, RevokeInv
  <2>4. /\ DOMAIN table' \subseteq DOMAIN table /\ DOMAIN table \ {id} \subseteq DOMAIN table'
        /\ \A x \in DOMAIN table' : table'[x] = table[x]
        /\ id \in doubted' \/ id \notin DOMAIN table'
        /\ doubted \subseteq doubted' /\ doubted' \subseteq doubted \cup {id}
    BY <2>1 DEF Without
  <2> HIDE DEF id
  <2>5. PublishInv'
    BY <2>1, <2>2, <2>3, <2>4 DEF SessionInv, PublishInv, At
  <2>6. RevokeInv'
    BY <2>1, <2>2, <2>3, <2>4 DEF SessionInv, RevokeInv, At
  <2>7. MemoryMirrorsTable'
    <3>1. \A x : x # id => (Busy("publish", x) => Busy("publish", x)') /\ (Busy("revoke", x) => Busy("revoke", x)')
      BY <2>1, <2>2 DEF Busy, At, id
    <3> QED
      BY <2>1, <2>3, <2>4, <3>1 DEF SessionInv, MemoryMirrorsTable
  <2>8. StaysOut
    BY <2>1, <2>3
  <2> QED
    BY <2>1, <2>4, <2>5, <2>6, <2>7, <2>8 DEF SessionInv
<1>8. CASE PruneMemory
  <2>1. /\ DOMAIN active' \subseteq DOMAIN active
        /\ \A x \in DOMAIN active' : active'[x] = active[x]
        /\ \A x \in DOMAIN active : now < active[x] => x \in DOMAIN active'
        /\ UNCHANGED <<now, table, used, issued, signedOut, doubted, requests>>
        /\ worker'.cutoff = now
    BY <1>8 DEF Without, PruneMemory, TypeOK
  <2>2. PublishInv' /\ RevokeInv'
    BY <2>1 DEF SessionInv, PublishInv, RevokeInv, At
  <2>3. MemoryMirrorsTable'
    BY <2>1 DEF SessionInv, MemoryMirrorsTable, Busy
  <2> QED
    BY <2>1, <2>2, <2>3 DEF SessionInv, TypeOK
<1>9. CASE PruneTable
  <2>1. /\ DOMAIN table' \subseteq DOMAIN table
        /\ \A x \in DOMAIN table' : table'[x] = table[x]
        /\ \A x \in DOMAIN table : worker.cutoff < table[x] => x \in DOMAIN table'
        /\ UNCHANGED <<now, active, used, issued, signedOut, doubted, requests>>
        /\ worker'.cutoff = worker.cutoff
    BY <1>9 DEF Without, PruneTable, TypeOK
  <2>2. \A x \in DOMAIN table : now < table[x] => x \in DOMAIN table'
    BY <2>1 DEF SessionInv, TypeOK
  <2>3. PublishInv'
    BY <2>1, <2>2 DEF SessionInv, PublishInv, At
  <2>4. RevokeInv'
    BY <2>1 DEF SessionInv, RevokeInv, At
  <2>5. MemoryMirrorsTable'
    BY <2>1, <2>2 DEF SessionInv, MemoryMirrorsTable, Busy
  <2> QED
    BY <2>1, <2>3, <2>4, <2>5 DEF SessionInv
<1>10. CASE ForgetStale
  <2>1. SessionInv'
    BY <1>10, SessionsUntouched DEF ForgetStale, SessionInv, TypeOK
  <2> QED
    BY <1>10, <2>1 DEF ForgetStale, sessionVars
<1>11. CASE Restart
  <2>1. /\ DOMAIN table' \subseteq DOMAIN table /\ active' = table'
        /\ UNCHANGED <<now, used, issued, signedOut, doubted>>
        /\ \A p \in Requests : requests'[p].pc = "idle"
        /\ worker'.cutoff = 0
    BY <1>11 DEF Without, Restart, Idle
  <2>2. PublishInv' /\ RevokeInv'
    BY <2>1 DEF SessionInv, PublishInv, RevokeInv, At
  <2>3. MemoryMirrorsTable'
    BY <2>1 DEF MemoryMirrorsTable
  <2>4. StaysOut
    BY <1>11, <2>1 DEF SessionInv, RevokeInv
  <2> QED
    BY <2>1, <2>2, <2>3, <2>4 DEF SessionInv, TypeOK
<1>12. CASE Elapse
  <2>1. UNCHANGED <<sessionVars, requests, worker>> /\ now' = now + 1 /\ now \in Nat
    BY <1>12 DEF Elapse, TypeOK
  <2>2. PublishInv' /\ RevokeInv'
    BY <2>1, SignInAssumption DEF SessionInv, PublishInv, RevokeInv, At, sessionVars, TypeOK
  <2>3. MemoryMirrorsTable'
    BY <2>1 DEF SessionInv, MemoryMirrorsTable, Busy, sessionVars, TypeOK
  <2> QED
    BY <2>1, <2>2, <2>3 DEF SessionInv, sessionVars, TypeOK
<1>13. CASE UNCHANGED vars
  <2>1. SessionInv'
    BY <1>13, SessionsUntouched DEF vars, SessionInv
  <2> QED
    BY <1>13, <2>1 DEF vars, sessionVars
<1> QED
  BY <1>3, <1>4, <1>5, <1>6, <1>7, <1>8, <1>9, <1>10, <1>11, <1>12, <1>13 DEF Next

-------------------------------------------------------------------------------
(* Lockouts *)

\* What one more failure makes of a record.
LEMMA FailedKeeps ==
    ASSUME TypeOK, NEW c \in Clients, NEW t \in Nat, t =< now, now =< t + MaxWait,
           LimiterInv, \E p \in Requests : Trying(p) /\ requests[p].client = c /\ requests[p].at = t
    PROVE  LET new == Failed(c, t) IN
           /\ new.lockedUntil =< now + Lockout(new.lockouts)
           /\ now < new.lockedUntil /\ new.firstFailed # 0 =>
                 /\ Locked(c, now)
                 /\ new.firstFailed = t \/ new.firstFailed = records[c].firstFailed
           /\ Locked(c, now) => new.lockedUntil >= records[c].lockedUntil - MaxWait
<1> DEFINE fresh == c \notin DOMAIN records \/ Expired(c, t)
           old == IF fresh THEN NoAttempts ELSE records[c]
           new == Failed(c, t)
<1>1. Threshold \in Nat \ {0} /\ Window \in Nat /\ MaxWait \in Nat /\ MaxWait =< Window
  BY SignInAssumption
<1>2. old \in Attempts
  BY <1>1 DEF TypeOK, NoAttempts, Attempts
<1>3. Locked(c, now) => ~fresh
  BY <1>1 DEF LimiterInv, Locked, Expired, TypeOK, Attempts
<1>4. ~fresh => old = records[c] /\ old.lockedUntil =< now + Lockout(old.lockouts)
  BY DEF LimiterInv
<1>5. fresh => old.lockedUntil = 0
  BY DEF NoAttempts
<1>6. new = IF old.failures + 1 >= Threshold
      THEN [failures |-> 0, firstFailed |-> 0, lockedUntil |-> t + Lockout(old.lockouts),
            lockouts |-> IF old.lockouts = 4 THEN 4 ELSE old.lockouts + 1]
      ELSE [old EXCEPT !.failures = @ + 1, !.firstFailed = IF old.failures = 0 THEN t ELSE @]
  BY DEF Failed
<1> HIDE DEF old, fresh, new
<1>7. /\ old.lockouts \in 0..4 /\ old.lockedUntil \in Nat /\ Lockout(old.lockouts) \in Nat
      /\ old.lockouts < 4 => Lockout(old.lockouts) =< Lockout(old.lockouts + 1)
  BY <1>2, LockoutGrows DEF Attempts
<1>8. now \in Nat
  BY DEF TypeOK
<1>9. CASE old.failures + 1 >= Threshold
  <2>1. new.lockedUntil = t + Lockout(old.lockouts) /\ new.firstFailed = 0
        /\ new.lockouts = (IF old.lockouts = 4 THEN 4 ELSE old.lockouts + 1)
    BY <1>6, <1>9
  <2>2. Lockout(old.lockouts) =< Lockout(new.lockouts) /\ Lockout(new.lockouts) \in Nat
    BY <1>7, <2>1, LockoutGrows
  <2>3. new.lockedUntil =< now + Lockout(new.lockouts)
    BY <1>7, <1>8, <2>1, <2>2
  <2>4. Locked(c, now) => new.lockedUntil >= records[c].lockedUntil - MaxWait
    BY <1>1, <1>3, <1>4, <1>7, <1>8, <2>1
  <2> QED
    BY <2>1, <2>3, <2>4 DEF new
<1>10. CASE ~(old.failures + 1 >= Threshold)
  <2>1. /\ new.lockedUntil = old.lockedUntil /\ new.lockouts = old.lockouts
        /\ new.firstFailed = t \/ new.firstFailed = old.firstFailed
    BY <1>2, <1>6, <1>10 DEF Attempts
  <2>2. new.lockedUntil =< now + Lockout(new.lockouts)
    BY <1>4, <1>5, <1>7, <1>8, <2>1
  <2>3. now < new.lockedUntil => ~fresh /\ Locked(c, now)
    BY <1>4, <1>5, <1>8, <2>1 DEF Locked, fresh
  <2>4. Locked(c, now) => new.lockedUntil >= records[c].lockedUntil - MaxWait
    BY <1>1, <1>3, <1>4, <1>7, <2>1
  <2> QED
    BY <1>4, <2>1, <2>2, <2>3, <2>4 DEF new
<1> QED
  BY <1>9, <1>10

\* No step ends or shortens a lockout, but for a right password and a restart.
LockoutStep ==
    \A c \in DOMAIN records :
       Locked(c, now) =>
          \/ /\ c \in DOMAIN records'
             /\ records'[c].lockedUntil >= records[c].lockedUntil - MaxWait
          \/ Restart
          \/ \E p \in Requests : RecordSuccess(p) /\ requests[p].client = c

\* A record that is dropped, or left as it was, says nothing new, if no handler of
\* its client starts.
LEMMA RecordsShrink ==
    ASSUME TypeOK, LimiterInv, worker'.cutoff =< now', now' = now,
           DOMAIN records' \subseteq DOMAIN records,
           \A c \in DOMAIN records' : records'[c] = records[c],
           \A q \in Requests : Trying(q)' =>
              \/ Trying(q) /\ requests'[q].at = requests[q].at /\ requests'[q].client = requests[q].client
              \/ /\ requests'[q].at = now
                 /\ requests'[q].client \in DOMAIN records' => ~Locked(requests'[q].client, now)
    PROVE  LimiterInv'
<1>1. MaxWait \in Nat /\ now \in Nat
  BY SignInAssumption DEF TypeOK
<1>2. \A q \in Requests : Trying(q)' => requests'[q].at =< now' /\ now' =< requests'[q].at + MaxWait
  BY <1>1 DEF LimiterInv
<1>3. ASSUME NEW c \in DOMAIN records'
      PROVE  records'[c].lockedUntil =< now' + Lockout(records'[c].lockouts)
  BY <1>3 DEF LimiterInv, Lockout
<1>4. ASSUME NEW c \in DOMAIN records', Locked(c, now)', records'[c].firstFailed # 0,
             NEW q \in Requests, Trying(q)', requests'[q].client = c
      PROVE  requests'[q].at =< records'[c].firstFailed + MaxWait
  <2>1. c \in DOMAIN records /\ Locked(c, now) /\ records[c].firstFailed # 0
    BY <1>4 DEF Locked
  <2> QED
    BY <1>4, <2>1 DEF LimiterInv
<1> QED
  BY <1>2, <1>3, <1>4 DEF LimiterInv

\* Every step keeps the bounds of the records and what locks a client.
LEMMA LockoutsKept ==
    ASSUME TypeOK, TypeOK', LimiterInv, [Next]_vars
    PROVE  LimiterInv' /\ LockoutStep
<1>1. ASSUME NEW p \in Requests, NEW c \in Clients, Login(p, c) PROVE LimiterInv' /\ LockoutStep
  <2>1. [pc |-> "wait", client |-> c, at |-> now, id |-> NoId] \in Request
    BY DEF Request, TypeOK
  <2>2. /\ requests'[p] = [pc |-> "wait", client |-> c, at |-> now, id |-> NoId]
        /\ \A q \in Requests : q # p => requests'[q] = requests[q]
    BY <1>1, <2>1, RequestStep DEF Login
  <2>3. /\ DOMAIN records' \subseteq DOMAIN records /\ DOMAIN records \ {c} \subseteq DOMAIN records'
        /\ \A x \in DOMAIN records' : records'[x] = records[x]
        /\ ~Locked(c, now) /\ UNCHANGED <<now, worker>>
    BY <1>1 DEF Login, Without
  <2>4. LimiterInv'
    BY <2>2, <2>3, RecordsShrink DEF Trying, LimiterInv
  <2>5. LockoutStep
    <3> SUFFICES ASSUME NEW x \in DOMAIN records, Locked(x, now)
                 PROVE  x \in DOMAIN records' /\ records'[x].lockedUntil >= records[x].lockedUntil - MaxWait
      BY DEF LockoutStep
    <3>1. x # c /\ x \in DOMAIN records'
      BY <2>3
    <3> QED
      BY <2>3, <3>1, SignInAssumption DEF TypeOK, Attempts
  <2> QED
    BY <2>4, <2>5
<1>2. ASSUME UNCHANGED <<now, records>>, worker'.cutoff =< now',
             \A q \in Requests : Trying(q)' =>
                Trying(q) /\ requests'[q].at = requests[q].at /\ requests'[q].client = requests[q].client
      PROVE  LimiterInv' /\ LockoutStep
  <2>1. LimiterInv'
    BY <1>2, RecordsShrink
  <2>2. LockoutStep
    BY <1>2, SignInAssumption DEF LockoutStep, TypeOK, Attempts
  <2> QED
    BY <2>1, <2>2
<1>3. ASSUME NEW p \in Requests, AcquireHashSlot(p) \/ Verify(p) PROVE LimiterInv' /\ LockoutStep
  <2>1. /\ requests'[p].at = requests[p].at /\ requests'[p].client = requests[p].client
        /\ \A q \in Requests : q # p => requests'[q] = requests[q]
        /\ Trying(p) /\ UNCHANGED <<now, records, worker>>
    BY <1>3, GotoStep DEF AcquireHashSlot, Verify, Trying, At
  <2> QED
    BY <1>2, <2>1 DEF Trying, LimiterInv
<1>4. ASSUME NEW p \in Requests,
             GiveUp(p) \/ IssueFails(p) \/ IssuePublish(p) \/ RevokeDelete(p) \/ RevokeFails(p)
      PROVE  LimiterInv' /\ LockoutStep
  <2>1. /\ requests'[p].pc = "idle"
        /\ \A q \in Requests : q # p => requests'[q] = requests[q]
        /\ UNCHANGED <<now, records, worker>>
    BY <1>4, AnswerStep DEF GiveUp, IssueFails, IssuePublish, RevokeDelete, RevokeFails, Idle, limiterVars
  <2> QED
    BY <1>2, <2>1 DEF Trying, LimiterInv
<1>5. ASSUME NEW p \in Requests, IssueInsert(p) \/ Logout(p) PROVE LimiterInv' /\ LockoutStep
  <2>1. /\ requests'[p].pc \in {"publish", "revoke"}
        /\ \A q \in Requests : q # p => requests'[q] = requests[q]
        /\ UNCHANGED <<now, records, worker>>
    <3>1. CASE IssueInsert(p)
      BY <3>1 DEF IssueInsert, TypeOK, limiterVars
    <3>2. CASE Logout(p)
      BY <3>2 DEF Logout, TypeOK, limiterVars
    <3> QED
      BY <1>5, <3>1, <3>2
  <2> QED
    BY <1>2, <2>1 DEF Trying, LimiterInv
<1>6. ASSUME NEW p \in Requests, RecordSuccess(p) PROVE LimiterInv' /\ LockoutStep
  <2>1. /\ requests'[p].pc = "issue"
        /\ \A q \in Requests : q # p => requests'[q] = requests[q]
    BY <1>6, GotoStep DEF RecordSuccess, Goto, TypeOK
  <2>2. /\ DOMAIN records' = DOMAIN records \ {requests[p].client}
        /\ \A x \in DOMAIN records' : records'[x] = records[x]
        /\ UNCHANGED <<now, worker>>
    BY <1>6 DEF RecordSuccess, Without
  <2>3. LimiterInv'
    BY <2>1, <2>2, RecordsShrink DEF Trying, LimiterInv
  <2>4. LockoutStep
    BY <1>6, <2>2, SignInAssumption DEF LockoutStep, TypeOK, Attempts
  <2> QED
    BY <2>3, <2>4
<1>7. ASSUME NEW p \in Requests, RecordFailure(p) PROVE LimiterInv' /\ LockoutStep
  <2> DEFINE c == requests[p].client
             t == requests[p].at
             new == Failed(c, t)
  <2>1. c \in Clients /\ t \in Nat /\ Trying(p) /\ t =< now /\ now =< t + MaxWait
    BY <1>7 DEF RecordFailure, TypeOK, LimiterInv, Trying, At
  <2>2. /\ DOMAIN records' = DOMAIN records \cup {c} /\ records'[c] = new
        /\ \A x \in DOMAIN records : x # c => records'[x] = records[x]
        /\ UNCHANGED <<now, worker>>
    BY <1>7 DEF RecordFailure, With
  <2>3. /\ requests'[p].pc = "idle"
        /\ \A q \in Requests : q # p => requests'[q] = requests[q]
    BY <1>7, AnswerStep DEF RecordFailure, Idle
  <2>4. /\ new.lockedUntil =< now + Lockout(new.lockouts)
        /\ now < new.lockedUntil /\ new.firstFailed # 0 =>
              /\ Locked(c, now)
              /\ new.firstFailed = t \/ new.firstFailed = records[c].firstFailed
        /\ Locked(c, now) => new.lockedUntil >= records[c].lockedUntil - MaxWait
    BY <2>1, FailedKeeps
  <2>5. \A q \in Requests : Trying(q)' => Trying(q) /\ requests'[q] = requests[q]
    BY <2>3 DEF Trying
  <2> HIDE DEF c, t, new
  <2>6. \A q \in Requests : Trying(q) => requests[q].at =< now /\ now =< requests[q].at + MaxWait
    BY DEF LimiterInv
  <2>7. ASSUME NEW x \in DOMAIN records'
        PROVE  /\ records'[x].lockedUntil =< now + Lockout(records'[x].lockouts)
               /\ Locked(x, now)' /\ records'[x].firstFailed # 0 =>
                     \A q \in Requests : Trying(q) /\ requests[q].client = x =>
                        requests[q].at =< records'[x].firstFailed + MaxWait
    <3>1. CASE x # c
      BY <2>2, <2>7, <3>1 DEF LimiterInv, Locked
    <3>2. CASE x = c
      <4>1. ASSUME Locked(x, now)', new.firstFailed # 0,
                   NEW q \in Requests, Trying(q), requests[q].client = c
            PROVE  requests[q].at =< new.firstFailed + MaxWait
        <5>1. Locked(c, now) /\ (new.firstFailed = t \/ new.firstFailed = records[c].firstFailed)
          BY <2>2, <2>4, <3>2, <4>1 DEF Locked
        <5>2. CASE new.firstFailed = t
          <6>1. MaxWait \in Nat /\ now \in Nat /\ requests[q].at \in Nat
            BY SignInAssumption DEF TypeOK
          <6>2. requests[q].at =< now /\ now =< t + MaxWait
            BY <2>1, <2>6, <4>1
          <6> QED
            BY <2>1, <5>2, <6>1, <6>2
        <5>3. CASE new.firstFailed = records[c].firstFailed
          <6>1. c \in DOMAIN records /\ records[c].firstFailed # 0
            BY <4>1, <5>1, <5>3 DEF Locked
          <6>2. requests[q].at =< records[c].firstFailed + MaxWait
            BY <4>1, <5>1, <6>1, <3>2 DEF LimiterInv
          <6> QED
            BY <5>3, <6>2
        <5> QED
          BY <5>1, <5>2, <5>3
      <4> QED
        BY <2>2, <2>4, <3>2, <4>1
    <3> QED
      BY <3>1, <3>2
  <2>8. LimiterInv'
    BY <2>2, <2>5, <2>6, <2>7 DEF LimiterInv, Lockout
  <2>9. LockoutStep
    BY <2>2, <2>4, SignInAssumption DEF LockoutStep, TypeOK, Attempts
  <2> QED
    BY <2>8, <2>9
<1>8. CASE PruneMemory \/ PruneTable
  <2>1. UNCHANGED <<now, records, requests>> /\ (worker'.cutoff = now \/ worker'.cutoff = worker.cutoff)
    BY <1>8 DEF PruneMemory, PruneTable, limiterVars, TypeOK
  <2> QED
    BY <1>2, <2>1 DEF Trying, LimiterInv, TypeOK
<1>9. CASE ForgetStale
  <2>1. /\ DOMAIN records' = DOMAIN records \ {c \in DOMAIN records : Stale(c, worker.cutoff)}
        /\ \A x \in DOMAIN records' : records'[x] = records[x]
        /\ UNCHANGED <<now, requests>> /\ worker'.cutoff = worker.cutoff
    BY <1>9 DEF ForgetStale, Without, TypeOK
  <2>2. LimiterInv'
    BY <2>1, RecordsShrink DEF Trying, LimiterInv
  <2>3. \A c \in DOMAIN records : Locked(c, now) => ~Stale(c, worker.cutoff)
    BY DEF Locked, Stale, LimiterInv, TypeOK, Attempts
  <2>4. LockoutStep
    BY <2>1, <2>3, SignInAssumption DEF LockoutStep, TypeOK, Attempts
  <2> QED
    BY <2>2, <2>4
<1>10. CASE Restart
  BY <1>10 DEF Restart, LimiterInv, LockoutStep, Trying, Idle, TypeOK
<1>11. CASE Elapse
  <2>1. /\ UNCHANGED <<records, requests, worker>> /\ now' = now + 1 /\ now \in Nat
        /\ \A p \in Requests : Trying(p) => now < requests[p].at + MaxWait
    BY <1>11 DEF Elapse, limiterVars, TypeOK, Trying, At
  <2>2. MaxWait \in Nat
    BY SignInAssumption
  <2>3. \A c \in DOMAIN records :
           records[c].lockedUntil \in Nat /\ Lockout(records[c].lockouts) \in Nat
    BY LockoutGrows DEF TypeOK, Attempts
  <2>4. \A c \in DOMAIN records : Locked(c, now)' => Locked(c, now)
    BY <2>1, <2>3 DEF Locked
  <2>5. \A q \in Requests : Trying(q) => requests[q].at =< now' /\ now' =< requests[q].at + MaxWait
    BY <2>1, <2>2 DEF LimiterInv, TypeOK
  <2>6. \A c \in DOMAIN records : records[c].lockedUntil =< now' + Lockout(records[c].lockouts)
    BY <2>1, <2>3 DEF LimiterInv
  <2>7. LimiterInv'
    BY <2>1, <2>4, <2>5, <2>6 DEF LimiterInv, Trying, Lockout, TypeOK
  <2>8. LockoutStep
    BY <2>1, <2>2, <2>3 DEF LockoutStep
  <2> QED
    BY <2>7, <2>8
<1>12. CASE UNCHANGED vars
  BY <1>2, <1>12 DEF vars, limiterVars, Trying, LimiterInv
<1> QED
  BY <1>1, <1>3, <1>4, <1>5, <1>6, <1>7, <1>8, <1>9, <1>10, <1>11, <1>12 DEF Next

-------------------------------------------------------------------------------
(* The theorems *)

Invariants == TypeOK /\ HashSlotsCounted /\ SessionInv /\ LimiterInv

\* Nothing is signed in, signed out or locked before the first step.
LEMMA InitInvariants == Init => Invariants
<1> SUFFICES ASSUME Init PROVE Invariants
  OBVIOUS
<1>1. TypeOK /\ HashSlotsCounted
  BY InitTyped
<1>2. SessionInv
  BY DEF Init, SessionInv, PublishInv, RevokeInv, MemoryMirrorsTable, At, Idle
<1>3. LimiterInv
  BY DEF Init, LimiterInv, Trying, Idle
<1> QED
  BY <1>1, <1>2, <1>3 DEF Invariants

\* Every step keeps all of it.
LEMMA NextInvariants == Invariants /\ [Next]_vars => Invariants'
BY TypesKept, SessionsKept, LockoutsKept DEF Invariants

\* No session, record or handler is ever of another kind than the code's types allow.
THEOREM TypeSafety == Spec => []TypeOK
<1>1. Invariants => TypeOK
  BY DEF Invariants
<1> QED
  BY InitInvariants, NextInvariants, <1>1, PTL DEF Spec

\* The slots in use are the handlers that verify a password, never more than there are.
THEOREM SlotsComeBack == Spec => []HashSlotsCounted
<1>1. Invariants => HashSlotsCounted
  BY DEF Invariants
<1> QED
  BY InitInvariants, NextInvariants, <1>1, PTL DEF Spec

\* Memory and table say the same of every session that has not expired.
THEOREM SessionsMirrored == Spec => []MemoryMirrorsTable
<1>1. Invariants => MemoryMirrorsTable
  BY DEF Invariants, SessionInv
<1> QED
  BY InitInvariants, NextInvariants, <1>1, PTL DEF Spec

\* A session that was signed out stays out.
THEOREM SignOutIsFinal == Spec => RevokedStaysOut
<1>1. Invariants /\ Invariants' /\ [Next]_vars =>
         [\A id \in signedOut' :
             id \in DOMAIN active' => \/ id \in signedOut /\ id \in DOMAIN active
                                      \/ id \in doubted /\ Restart]_vars
  BY SessionsKept DEF Invariants
<1> QED
  BY InitInvariants, NextInvariants, <1>1, PTL DEF Spec, RevokedStaysOut

\* A lockout holds until it is over, a right password or a restart.
THEOREM LockoutsHold == Spec => LockoutHolds
<1>1. Invariants /\ [Next]_vars =>
         [\A c \in DOMAIN records :
            Locked(c, now) =>
               \/ /\ c \in DOMAIN records'
                  /\ records'[c].lockedUntil >= records[c].lockedUntil - MaxWait
               \/ Restart
               \/ \E p \in Requests : RecordSuccess(p) /\ requests[p].client = c]_vars
  BY LockoutsKept, NextInvariants DEF Invariants, LockoutStep
<1> QED
  BY InitInvariants, NextInvariants, <1>1, PTL DEF Spec, LockoutHolds
===============================================================================
