--------------------------- MODULE MCRunCoordinator ---------------------------
(* Model checking of RunCoordinator: three monitors competing for two slots, *)
(* a short and a long interval, and callers whose clock reading is up to one *)
(* unit old.                                                                 *)
EXTENDS RunCoordinator

MCIntervals == {1, 2}
MCLags == {0, 1}
===============================================================================
