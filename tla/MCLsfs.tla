------------------------------- MODULE MCLsfs -------------------------------
(* Small instances of Lsfs.  Paths and contents are interchangeable.       *)
EXTENDS Lsfs, TLC

Symmetry == Permutations(Paths) \cup Permutations(Contents)
=============================================================================
