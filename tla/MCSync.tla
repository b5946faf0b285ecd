------------------------------- MODULE MCSync -------------------------------
(* TLC instance of Sync.                                                    *)
EXTENDS Sync, TLC

CONSTANTS c1, c2
=============================================================================
