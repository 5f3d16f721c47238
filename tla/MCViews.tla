------------------------------ MODULE MCViews ------------------------------
(* Instances of Views for TLC. *)
EXTENDS Views, TLC

CONSTANTS p1, p2, p3, p4, p5, v1, v2

MCPtrs == {p1, p2, p3, p4, p5}
MCValues == {v1, v2}
Symmetry == Permutations(MCPtrs) \cup Permutations(MCValues)
=============================================================================
