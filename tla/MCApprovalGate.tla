--------------------------- MODULE MCApprovalGate ---------------------------
(* TLC instance of ApprovalGate.                                            *)
EXTENDS ApprovalGate, TLC

CONSTANTS t1, t2, q1, search, trash, write

MCTasks == {t1, t2}
MCIntents == {q1}
MCSafe == {search}
MCDestructive == {trash, write}
MCOneDestructive == {trash}

(* The safety runs: nothing tells tasks apart, nor destructive tools.       *)
Symmetry == Permutations(MCTasks) \cup Permutations(MCDestructive)
=============================================================================
