------------------------- MODULE MCSyscallScheduler -------------------------
(* Small instances of SyscallScheduler: two agents, one of them with two   *)
(* concurrent callers.                                                     *)
EXTENDS SyscallScheduler, TLC

CONSTANTS a1, a2, c1, c2, c3

MCAgents == {a1, a2}
MCClients == {c1, c2, c3}
MCOwner == (c1 :> a1) @@ (c2 :> a1) @@ (c3 :> a2)
=============================================================================
