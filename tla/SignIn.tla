-------------------------------- MODULE SignIn --------------------------------
(***************************************************************************)
(* The administrator's sessions and the limits on signing in: sessionStore *)
(* (a map in memory and its table), loginLimiter (hash slots and a record  *)
(* per client), the login and logout handlers, the worker that prunes both *)
(* and a restart, which keeps only the table.                              *)
(*                                                                         *)
(* Each lock or statement is one action, so handlers, the worker and a     *)
(* crash interleave between them.  A handler reads the clock once, when it *)
(* starts.  A statement may fail (the client went away, the disk is full). *)
(* Passwords are right or wrong; cookies, signatures and answers are left  *)
(* out, and so is the text of an answer.  Seconds since the start stand    *)
(* for times, so 0 is time.Time{}.                                         *)
(***************************************************************************)
EXTENDS Integers, FiniteSets

CONSTANTS Requests,       \* concurrent handlers of /login and /logout
          Clients,        \* clientKey
          Ids,            \* bound: session ids, 32 random bytes and never repeated
          MaxHashes,      \* loginMaxConcurrentHashes
          TTL,            \* sessionTTL
          Threshold, Window, LockoutBase, LockoutMax,   \* login...
          MaxWait,        \* bound: seconds a handler takes, 5 of them for a hash slot
          MaxTime         \* bound: the clock

NoId == "none"

ASSUME SignInAssumption ==
    /\ IsFiniteSet(Requests) /\ NoId \notin Ids
    /\ MaxHashes \in Nat /\ TTL \in Nat /\ MaxTime \in Nat
    /\ Threshold \in Nat \ {0} /\ Window \in Nat /\ MaxWait \in 0..Window
    /\ LockoutBase \in Nat /\ LockoutMax \in Nat

VARIABLES
    now,
    table,        \* sessions: id -> expires_at
    active,       \* sessionStore.active: id -> expiresAt
    slots,        \* len(hashSlots)
    records,      \* loginLimiter.clients: client -> loginAttempts
    requests,     \* the handlers
    worker,       \* retentionWorker: [pc, cutoff]
    used,         \* ids drawn so far
    issued,       \* sessions whose cookie a client has
    signedOut,    \* sessions whose logout was answered
    doubted       \* of these, the ones whose DELETE failed

sessionVars == <<table, active, used, issued, signedOut, doubted>>
limiterVars == <<slots, records>>
vars == <<now, sessionVars, limiterVars, requests, worker>>

Idle == [pc |-> "idle", client |-> NoId, at |-> 0, id |-> NoId]
Attempts == [failures : 0..Threshold, firstFailed : Nat, lockedUntil : Nat, lockouts : 0..4]
NoAttempts == [failures |-> 0, firstFailed |-> 0, lockedUntil |-> 0, lockouts |-> 0]

Without(f, S) == [x \in DOMAIN f \ S |-> f[x]]
With(f, x, v) == [y \in DOMAIN f \cup {x} |-> IF y = x THEN v ELSE f[y]]

At(p, pc) == requests[p].pc = pc
Goto(p, pc) == requests' = [requests EXCEPT ![p].pc = pc]
Answer(p) == requests' = [requests EXCEPT ![p] = Idle]

-------------------------------------------------------------------------------
(* loginLimiter *)

Locked(c, t) == c \in DOMAIN records /\ t < records[c].lockedUntil

\* The failures of a client are out of the window.
Expired(c, t) == records[c].firstFailed # 0 /\ t - records[c].firstFailed > Window

Lockout(lockouts) == LET doubled == LockoutBase * <<1, 2, 4, 8, 16>>[lockouts + 1] IN
                     IF doubled > LockoutMax THEN LockoutMax ELSE doubled

\* The record after one more failure, of a request that arrived at t.  Of lockouts
\* only min(lockouts, 4) is ever read.
Failed(c, t) ==
    LET old == IF c \notin DOMAIN records \/ Expired(c, t) THEN NoAttempts ELSE records[c] IN
    IF old.failures + 1 >= Threshold
    THEN [failures |-> 0, firstFailed |-> 0, lockedUntil |-> t + Lockout(old.lockouts),
          lockouts |-> IF old.lockouts = 4 THEN 4 ELSE old.lockouts + 1]
    ELSE [old EXCEPT !.failures = @ + 1, !.firstFailed = IF old.failures = 0 THEN t ELSE @]

StaleFault(c, t) ==                         \* mutant: a lockout in force is not looked at
    records[c].firstFailed = 0 \/ Expired(c, t)

\* forgetStale
Stale(c, t) ==
    /\ t > records[c].lockedUntil
    /\ records[c].firstFailed = 0 \/ Expired(c, t)

-------------------------------------------------------------------------------
(* login *)

\* A locked client is turned away at once; lockedFor drops a record that is out of
\* its window on the way.
Login(p, c) ==
    /\ At(p, "idle")
    /\ ~Locked(c, now)
    /\ records' = IF c \in DOMAIN records /\ Expired(c, now) THEN Without(records, {c}) ELSE records
    /\ requests' = [requests EXCEPT ![p] = [pc |-> "wait", client |-> c, at |-> now, id |-> NoId]]
    /\ UNCHANGED <<now, sessionVars, slots, worker>>

AcquireHashSlot(p) ==
    /\ At(p, "wait")
    /\ slots < MaxHashes
    /\ slots' = slots + 1
    /\ Goto(p, "hash")
    /\ UNCHANGED <<now, sessionVars, records, worker>>

\* The timer or the client ends the wait.
GiveUpFault(p) ==                           \* mutant: it releases what it does not hold
    /\ At(p, "wait")
    /\ slots' = slots - 1
    /\ Answer(p)
    /\ UNCHANGED <<now, sessionVars, records, worker>>

GiveUp(p) ==
    /\ At(p, "wait")
    /\ Answer(p)
    /\ UNCHANGED <<now, sessionVars, limiterVars, worker>>

\* verifyPassword, then releaseHashSlot whatever it says.
Verify(p) ==
    /\ At(p, "hash")
    /\ slots' = slots - 1
    /\ Goto(p, "right") \/ Goto(p, "wrong")
    /\ UNCHANGED <<now, sessionVars, records, worker>>

RecordFailure(p) ==
    LET c == requests[p].client IN
    /\ At(p, "wrong")
    /\ records' = With(records, c, Failed(c, requests[p].at))
    /\ Answer(p)
    /\ UNCHANGED <<now, sessionVars, slots, worker>>

RecordSuccess(p) ==
    /\ At(p, "right")
    /\ records' = Without(records, {requests[p].client})
    /\ Goto(p, "issue")
    /\ UNCHANGED <<now, sessionVars, slots, worker>>

IssueFails(p) ==
    /\ At(p, "issue")
    /\ Answer(p)
    /\ UNCHANGED <<now, sessionVars, limiterVars, worker>>

IssueInsert(p) ==
    \E id \in Ids \ used :
        /\ At(p, "issue")
        /\ table' = With(table, id, requests[p].at + TTL)
        /\ used' = used \cup {id}
        /\ requests' = [requests EXCEPT ![p].pc = "publish", ![p].id = id]
        /\ UNCHANGED <<now, active, issued, signedOut, doubted, limiterVars, worker>>

IssuePublish(p) ==
    /\ At(p, "publish")
    /\ active' = With(active, requests[p].id, requests[p].at + TTL)
    /\ issued' = issued \cup {requests[p].id}
    /\ Answer(p)
    /\ UNCHANGED <<now, table, used, signedOut, doubted, limiterVars, worker>>

-------------------------------------------------------------------------------
(* logout: revoke *)

Logout(p) ==
    \E id \in issued :
        /\ At(p, "idle")
        /\ active' = Without(active, {id})
        /\ requests' = [requests EXCEPT ![p] = [pc |-> "revoke", client |-> NoId, at |-> now, id |-> id]]
        /\ UNCHANGED <<now, table, used, issued, signedOut, doubted, limiterVars, worker>>

RevokeDeleteFault(p) ==                     \* mutant: only the map forgets the session
    /\ At(p, "revoke")
    /\ signedOut' = signedOut \cup {requests[p].id}
    /\ Answer(p)
    /\ UNCHANGED <<now, table, active, used, issued, doubted, limiterVars, worker>>

RevokeDelete(p) ==
    /\ At(p, "revoke")
    /\ table' = Without(table, {requests[p].id})
    /\ signedOut' = signedOut \cup {requests[p].id}
    /\ Answer(p)
    /\ UNCHANGED <<now, active, used, issued, doubted, limiterVars, worker>>

\* The error is dropped and the client told it is signed out.
RevokeFails(p) ==
    /\ At(p, "revoke")
    /\ signedOut' = signedOut \cup {requests[p].id}
    /\ doubted' = doubted \cup {requests[p].id}
    /\ Answer(p)
    /\ UNCHANGED <<now, table, active, used, issued, limiterVars, worker>>

-------------------------------------------------------------------------------
(* retentionWorker: prune and forgetStale, with the time of the round's start *)

PruneMemory ==
    /\ worker.pc = "idle"
    /\ active' = Without(active, {id \in DOMAIN active : active[id] =< now})
    /\ worker' = [pc |-> "table", cutoff |-> now]
    /\ UNCHANGED <<now, table, used, issued, signedOut, doubted, limiterVars, requests>>

PruneTableFault ==                          \* mutant: one second too many
    /\ worker.pc = "table"
    /\ table' = Without(table, {id \in DOMAIN table : table[id] =< worker.cutoff + 1})
    /\ worker' = [worker EXCEPT !.pc = "limiter"]
    /\ UNCHANGED <<now, active, used, issued, signedOut, doubted, limiterVars, requests>>

PruneTable ==
    /\ worker.pc = "table"
    /\ \/ table' = Without(table, {id \in DOMAIN table : table[id] =< worker.cutoff})
       \/ UNCHANGED table       \* the error is dropped
    /\ worker' = [worker EXCEPT !.pc = "limiter"]
    /\ UNCHANGED <<now, active, used, issued, signedOut, doubted, limiterVars, requests>>

ForgetStale ==
    /\ worker.pc = "limiter"
    /\ records' = Without(records, {c \in DOMAIN records : Stale(c, worker.cutoff)})
    /\ worker' = [worker EXCEPT !.pc = "idle"]
    /\ UNCHANGED <<now, sessionVars, slots, requests>>

-------------------------------------------------------------------------------
(* The process *)

\* A crash or a stop, and the next start: load.
Restart ==
    /\ table' = Without(table, {id \in DOMAIN table : table[id] =< now})
    /\ active' = table'
    /\ slots' = 0
    /\ records' = [c \in {} |-> NoAttempts]
    /\ requests' = [p \in Requests |-> Idle]
    /\ worker' = [pc |-> "idle", cutoff |-> 0]
    /\ UNCHANGED <<now, used, issued, signedOut, doubted>>

Elapse ==
    /\ now < MaxTime
    /\ \A p \in Requests : At(p, "idle") \/ now < requests[p].at + MaxWait
    /\ now' = now + 1
    /\ UNCHANGED <<sessionVars, limiterVars, requests, worker>>

Init == /\ now = 1
        /\ table = [id \in {} |-> 0] /\ active = table
        /\ slots = 0
        /\ records = [c \in {} |-> NoAttempts]
        /\ requests = [p \in Requests |-> Idle]
        /\ worker = [pc |-> "idle", cutoff |-> 0]
        /\ used = {} /\ issued = {} /\ signedOut = {} /\ doubted = {}

Next ==
    \/ \E p \in Requests :
          \/ \E c \in Clients : Login(p, c)
          \/ AcquireHashSlot(p) \/ GiveUp(p) \/ Verify(p)
          \/ RecordFailure(p) \/ RecordSuccess(p)
          \/ IssueFails(p) \/ IssueInsert(p) \/ IssuePublish(p)
          \/ Logout(p) \/ RevokeDelete(p) \/ RevokeFails(p)
    \/ PruneMemory \/ PruneTable \/ ForgetStale
    \/ Restart \/ Elapse

Spec == Init /\ [][Next]_vars

-------------------------------------------------------------------------------
(* Properties *)

TypeOK ==
    /\ now \in Nat
    /\ DOMAIN table \subseteq Ids /\ \A id \in DOMAIN table : table[id] \in Nat
    /\ DOMAIN active \subseteq Ids /\ \A id \in DOMAIN active : active[id] \in Nat
    /\ slots \in 0..MaxHashes
    /\ DOMAIN records \subseteq Clients /\ \A c \in DOMAIN records : records[c] \in Attempts
    /\ requests \in [Requests -> [pc : {"idle", "wait", "hash", "right", "wrong", "issue", "publish", "revoke"},
                                  client : Clients \cup {NoId}, at : Nat, id : Ids \cup {NoId}]]
    /\ \A p \in Requests :
          /\ requests[p].pc \in {"wait", "hash", "right", "wrong"} => requests[p].client \in Clients
          /\ requests[p].pc = "publish" => requests[p].id \in used
          /\ requests[p].pc = "revoke" => requests[p].id \in issued
    /\ worker \in [pc : {"idle", "table", "limiter"}, cutoff : Nat]
    /\ used \subseteq Ids /\ issued \subseteq used /\ signedOut \subseteq issued /\ doubted \subseteq signedOut

Busy(pc, id) == \E p \in Requests : requests[p].pc = pc /\ requests[p].id = id

\* "Records are persisted so a restart does not sign the operator out, and mirrored
\* in memory" (session.go:31): a session that has not expired is in memory only if
\* the table has it with the same expiry, whatever the worker, other sign-ins and
\* sign-outs do in between; and it is in the table only without being in memory
\* while a handler is between the two, or when the DELETE of its sign-out failed or
\* never ran.
MemoryMirrorsTable ==
    /\ \A id \in DOMAIN active :
          now < active[id] => id \in DOMAIN table /\ table[id] = active[id]
    /\ \A id \in DOMAIN table :
          now < table[id] => \/ id \in DOMAIN active
                             \/ Busy("publish", id) \/ Busy("revoke", id)
                             \/ id \in doubted

\* "signing out actually revokes a session" (session.go:29): once its logout has
\* been answered a session is not valid again, unless the DELETE failed and the
\* process restarts; the handler drops that error.
RevokedStaysOut ==
    [][\A id \in signedOut' :
          id \in DOMAIN active' => \/ id \in signedOut /\ id \in DOMAIN active
                                   \/ id \in doubted /\ Restart]_vars

\* Every hash slot is held by a handler that is verifying a password and comes back,
\* whoever gives up waiting: the slots never run out for good.
HashSlotsCounted ==
    /\ slots = Cardinality({p \in Requests : At(p, "hash")})
    /\ slots =< MaxHashes

\* A lockout in force is lifted by a right password of the same client or by a
\* restart, and by nothing else: not by the worker, not by failures of requests that
\* had passed the gate before it.  Those may shorten it by no more than they take.
LockoutHolds ==
    [][\A c \in DOMAIN records :
          Locked(c, now) =>
             \/ /\ c \in DOMAIN records'
                /\ records'[c].lockedUntil >= records[c].lockedUntil - MaxWait
             \/ Restart
             \/ \E p \in Requests : RecordSuccess(p) /\ requests[p].client = c]_vars
===============================================================================
