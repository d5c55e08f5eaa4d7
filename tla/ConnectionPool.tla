----------------------------- MODULE ConnectionPool -----------------------------
(***************************************************************************)
(* The pool of database connections that openDatabase bounds, and the one  *)
(* place that asks for a second connection while it holds one: after its   *)
(* transaction recordResult calls enqueueNotification, which inserts into  *)
(* the outbox through the pool from inside the loop over the rows of the   *)
(* enabled channels (kind is UNIQUE: at most one row).  None of these      *)
(* calls has a context, so a caller waits for a connection for ever.       *)
(*                                                                         *)
(* Every other use of the database borrows one connection, finishes by     *)
(* itself and returns it: the scheduler's reads, the handlers, the         *)
(* notification and retention workers, the dashboard snapshot.             *)
(*                                                                         *)
(* SQLite admits one writer.  A write that finds another one waits for     *)
(* busy_timeout and then fails; that it may fail is all that matters here. *)
(***************************************************************************)
EXTENDS Integers, FiniteSets

CONSTANTS Recorders,     \* goroutines that may be in recordResult: one per check
          Others,        \* the other users of the database
          Conns,         \* maxOpenConnections
          None

ASSUME ConnsAssumption == Conns \in Nat \ {0}
ASSUME ActorAssumption == /\ IsFiniteSet(Recorders) /\ IsFiniteSet(Others)
                          /\ Recorders \cap Others = {}
                          /\ None \notin Recorders \cup Others

VARIABLES pc,        \* what each recorder is about to do
          using,     \* the others that hold a connection
          free,      \* connections nobody holds
          writer     \* who has SQLite's write lock

vars == <<pc, using, free, writer>>

At(label) == {c \in Recorders : pc[c] = label}

Init == /\ pc = [c \in Recorders |-> "checking"]
        /\ using = {}
        /\ free = Conns
        /\ writer = None

-------------------------------------------------------------------------------
(* recordResult: Begin, the first write, Commit or Rollback *)

BeginFault(c) ==                        \* mutant: openDatabase sets no SetMaxOpenConns
    /\ pc[c] = "checking"
    /\ free' = free - 1
    /\ pc' = [pc EXCEPT ![c] = "begun"]
    /\ UNCHANGED <<using, writer>>

Begin(c) == /\ pc[c] = "checking"
            /\ free > 0
            /\ free' = free - 1
            /\ pc' = [pc EXCEPT ![c] = "begun"]
            /\ UNCHANGED <<using, writer>>

Write(c) == /\ pc[c] = "begun"
            /\ writer = None
            /\ writer' = c
            /\ pc' = [pc EXCEPT ![c] = "writing"]
            /\ UNCHANGED <<using, free>>

\* SQLITE_BUSY: the deferred Rollback returns the connection, the result is lost.
Busy(c) == /\ pc[c] = "begun"
           /\ writer # None
           /\ free' = free + 1
           /\ pc' = [pc EXCEPT ![c] = "checking"]
           /\ UNCHANGED <<using, writer>>

CommitFault(c) ==                       \* mutant: the transaction is never closed
    /\ pc[c] = "writing"
    /\ writer' = None
    /\ \E next \in {"checking", "committed"} : pc' = [pc EXCEPT ![c] = next]
    /\ UNCHANGED <<using, free>>

\* A result that opens, changes or resolves an incident goes on to notify.
Commit(c) == /\ pc[c] = "writing"
             /\ writer' = None
             /\ free' = free + 1
             /\ \E next \in {"checking", "committed"} : pc' = [pc EXCEPT ![c] = next]
             /\ UNCHANGED using

-------------------------------------------------------------------------------
(* enqueueNotification *)

NoChannel(c) == /\ pc[c] = "committed"
                /\ free > 0
                /\ pc' = [pc EXCEPT ![c] = "checking"]
                /\ UNCHANGED <<using, free, writer>>

\* rows.Next has returned the enabled channel: rows keeps its connection.
Query(c) == /\ pc[c] = "committed"
            /\ free > 0
            /\ free' = free - 1
            /\ pc' = [pc EXCEPT ![c] = "reading"]
            /\ UNCHANGED <<using, writer>>

Insert(c) == /\ pc[c] = "reading"
             /\ free > 0
             /\ free' = free - 1
             /\ pc' = [pc EXCEPT ![c] = "inserting"]
             /\ UNCHANGED <<using, writer>>

FinishFault(c) ==                       \* mutant: rows is not closed
    /\ pc[c] = "inserting"
    /\ free' = free + 1
    /\ pc' = [pc EXCEPT ![c] = "checking"]
    /\ UNCHANGED <<using, writer>>

\* The insert has been executed or has failed, which is ignored; there is no
\* further row, so rows closes itself.
Finish(c) == /\ pc[c] = "inserting"
             /\ free' = free + 2
             /\ pc' = [pc EXCEPT ![c] = "checking"]
             /\ UNCHANGED <<using, writer>>

-------------------------------------------------------------------------------
(* Everything else *)

Borrow(o) == /\ o \notin using
             /\ free > 0
             /\ free' = free - 1
             /\ using' = using \cup {o}
             /\ \/ UNCHANGED writer
                \/ writer = None /\ writer' = o
             /\ UNCHANGED pc

Return(o) == /\ o \in using
             /\ free' = free + 1
             /\ using' = using \ {o}
             /\ writer' = IF writer = o THEN None ELSE writer
             /\ UNCHANGED pc

Record(c) == Begin(c) \/ Write(c) \/ Busy(c) \/ Commit(c)
Enqueue(c) == NoChannel(c) \/ Query(c) \/ Insert(c) \/ Finish(c)

Next == \/ \E c \in Recorders : Record(c) \/ Enqueue(c)
        \/ \E o \in Others : Borrow(o) \/ Return(o)

Spec == Init /\ [][Next]_vars

(* A running statement ends.  database/sql hands a returned connection to one  *)
(* of the waiting requests at random, so one that keeps asking is served as    *)
(* long as connections keep coming back: strong fairness for those.  Nothing   *)
(* makes a check have a result to record.                                      *)
Fairness == /\ \A c \in Recorders : /\ WF_vars(Write(c) \/ Busy(c))
                                    /\ WF_vars(Commit(c))
                                    /\ SF_vars(NoChannel(c) \/ Query(c))
                                    /\ SF_vars(Insert(c))
                                    /\ WF_vars(Finish(c))
            /\ \A o \in Others : WF_vars(Return(o))

FairSpec == Spec /\ Fairness

-------------------------------------------------------------------------------
(* Properties *)

TypeOK == /\ pc \in [Recorders -> {"checking", "begun", "writing", "committed",
                                   "reading", "inserting"}]
          /\ using \subseteq Others
          /\ free \in 0..Conns
          /\ writer \in Recorders \cup Others \cup {None}

\* No connection leaks on any path through recordResult and enqueueNotification,
\* and none is given to two callers: what is not free is held by a call in
\* progress, two by a notification being inserted.
PoolConserved ==
    free + Cardinality(At("begun")) + Cardinality(At("writing")) + Cardinality(At("reading"))
         + 2 * Cardinality(At("inserting")) + Cardinality(using) = Conns

\* The callers of the pool never all wait for each other: when no connection is
\* free, one is held by somebody who returns it without asking for another.
PoolNeverJams ==
    free = 0 => using \cup At("begun") \cup At("writing") \cup At("inserting") # {}

\* Every result that recordResult starts to store is stored or lost to an error,
\* its notification is queued, and the check's goroutine goes on to Release.
RecordingEnds == \A c \in Recorders : pc[c] # "checking" ~> pc[c] = "checking"
===============================================================================
