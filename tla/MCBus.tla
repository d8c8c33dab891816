------------------------------- MODULE MCBus -------------------------------
(* Bus for TLC: the processes other than init are interchangeable, and so  *)
(* are the devices.                                                        *)
EXTENDS Bus, TLC

Symmetry == Permutations(Threads \ {Init0}) \cup Permutations(Devs)
=============================================================================
