------------------------------- MODULE MCOutbox -------------------------------
(* Model checking of Outbox: one event more than a batch has room for.  The run *)
(* outbox has one monitor, outbox_reset the interleavings of two.               *)
EXTENDS Outbox, TLC
===============================================================================
