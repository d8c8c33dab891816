------------------------------ MODULE MCSched ------------------------------
(* Sched for TLC.  Threads other than init are interchangeable; the runs   *)
(* that check liveness do not use the symmetry.                            *)
EXTENDS Sched, TLC

ThreadSymmetry == Permutations(Threads \ {Init0})
=============================================================================
