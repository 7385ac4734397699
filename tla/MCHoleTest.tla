---------------------------- MODULE MCHoleTest ----------------------------
(* The command lines and kernels holetest is checked with. *)
EXTENDS HoleTest

Accepted == {o \in SUBSET {"f", "w", "r", "F", "p"} : ~{"w", "p"} \subseteq o}
AllKernels == {"sound", "racy", "lossy"}

(* Processes with private mappings, and a kernel that loses markers. *)
PrivateChildren == {{"F", "p"}}
Lossy == {"lossy"}
============================================================================
