------------------------- MODULE MCKvMemRepository -------------------------
(* One contended slot, and the worker as its only reclaimer.               *)
EXTENDS KvMemRepository
=============================================================================
