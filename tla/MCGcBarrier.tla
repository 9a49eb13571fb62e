---------------------------- MODULE MCGcBarrier ----------------------------
(***************************************************************************)
(* GcBarrier for TLC.  The threads that are started are interchangeable.   *)
(***************************************************************************)
EXTENDS GcBarrier, TLC

StartedThreads == Permutations(Threads \ {Main})
=============================================================================
