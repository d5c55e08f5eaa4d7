--------------------------- MODULE MCCheckScheduler ---------------------------
(* Model checking of CheckScheduler: one cfg per question, see the README.   *)
EXTENDS CheckScheduler, TLC

EveryTick == {1}           \* due again at the next tick
OneWorkerMore == 1..(Limit + 1)
Symmetry == Permutations(Handlers)
===============================================================================
