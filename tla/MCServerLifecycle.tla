------------------------- MODULE MCServerLifecycle -------------------------
(* ServerLifecycle with three threads that stop and three runs, for TLC.       *)
EXTENDS ServerLifecycle

CONSTANTS t1, t2, t3
=============================================================================
