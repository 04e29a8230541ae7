----------------------------- MODULE MCSolverRun -----------------------------
(***************************************************************************)
(* SolverRun on small instances. Every run is requested for a term named   *)
(* by one of the assignments below; the .cfg files pick the rest.          *)
(***************************************************************************)
EXTENDS SolverRun, TLC

CONSTANTS r1, r2, p1, p2, w1, t1, t2

SameTerm == [r \in Runs |-> t1]
Symmetry == Permutations(Runs) \cup Permutations(Pollers)
=============================================================================
