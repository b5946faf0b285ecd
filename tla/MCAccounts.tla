----------------------------- MODULE MCAccounts -----------------------------
(* Small instances of Accounts: the desktop and one remote browser.         *)
EXTENDS Accounts, TLC

CONSTANTS mac, ipad, a1, a2

\* Account ids are given out in any order and nothing compares them.
MCSymmetry == Permutations(Accounts)

MCMaxProfiles == (mac :> 2) @@ (ipad :> 0)
=============================================================================
