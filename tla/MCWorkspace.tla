---------------------------- MODULE MCWorkspace ----------------------------
(* TLC instance of Workspace.                                               *)
EXTENDS Workspace, TLC

CONSTANTS c1, c2, c3, work, home, ask, tell, r1, r2, r3

MCSymmetry == Permutations(Cards) \cup Permutations(Runs) \cup Permutations(Queries)
=============================================================================
