------------------------------ MODULE CheckSlots ------------------------------
(***************************************************************************)
(* What the check scheduler promises, without saying how: a bounded pool   *)
(* of check slots in which one monitor holds at most one slot              *)
(* (docs/design/2026-08-21-dashboard-redesign.md, "Scheduler protection"). *)
(* RunCoordinator implements it with its books, CheckScheduler with the    *)
(* goroutines that really run.                                             *)
(***************************************************************************)
EXTENDS Naturals

CONSTANTS Ids,      \* identities that can hold a slot
          Limit     \* slots in the pool

VARIABLES held,     \* the identities that hold a slot
          free      \* slots left

vars == <<held, free>>

Init == /\ held = {}
        /\ free = Limit

Acquire(id) == /\ id \notin held
               /\ free > 0
               /\ held' = held \cup {id}
               /\ free' = free - 1

Drop(id) == /\ id \in held
            /\ held' = held \ {id}
            /\ free' = free + 1

Next == \E id \in Ids : Acquire(id) \/ Drop(id)

Spec == Init /\ [][Next]_vars
===============================================================================
