------------------------------- MODULE MCPmap -------------------------------
(* Pmap for TLC: frames and processes are model values.                    *)
EXTENDS Pmap, TLC

(* Frames are interchangeable: no action or property names one of them.    *)
FrameSymmetry == Permutations(Pfns)
=============================================================================
