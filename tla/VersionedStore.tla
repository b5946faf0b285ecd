--------------------------- MODULE VersionedStore ---------------------------
(***************************************************************************)
(* What the versioned file system of the kernel (storage.rs) promises its  *)
(* callers about history, whatever crashes between two SQL statements: a   *)
(* recorded version keeps its content while versioning is on, new versions *)
(* go on top, pruning takes the oldest and always leaves the newest, and a *)
(* crash takes nothing away.                                               *)
(***************************************************************************)
EXTENDS Naturals

CONSTANTS Paths, Contents, Versions  \* version numbers, naturals above 0

VARIABLES
    log,        \* for each path, the recorded versions and their contents
    versioning  \* whether a write makes a version or overwrites one

Init ==
    /\ log = [p \in Paths |-> [v \in {} |-> <<>>]]
    /\ versioning \in BOOLEAN

Put(p, v, d) == log' = [log EXCEPT ![p] = [r \in DOMAIN log[p] \cup {v} |->
                                              IF r = v THEN d ELSE log[p][r]]]

\* A write while versioning is on: a version above all others.
NewVersion(p, d) ==
    /\ versioning
    /\ \E v \in Versions : (\A r \in DOMAIN log[p] : r < v) /\ Put(p, v, d)
    /\ UNCHANGED versioning

\* A create: version 1, of a path that has no version 1.
FirstVersion(p, d) ==
    /\ 1 \notin DOMAIN log[p]
    /\ Put(p, 1, d)
    /\ UNCHANGED versioning

\* A write while versioning is off: one version, already there, gets a new content.
Overwrite(p, d) ==
    /\ ~versioning
    /\ \E v \in DOMAIN log[p] : Put(p, v, d)
    /\ UNCHANGED versioning

\* Retention: the newest versions stay, at least one of them.
Prune(p) ==
    /\ versioning
    /\ \E kept \in SUBSET DOMAIN log[p] :
          /\ kept # {}
          /\ \A k \in kept, r \in DOMAIN log[p] \ kept : r < k
          /\ log' = [log EXCEPT ![p] = [r \in kept |-> log[p][r]]]
    /\ UNCHANGED versioning

SetVersioning == versioning' \in BOOLEAN /\ UNCHANGED log

Next ==
    \/ \E p \in Paths, d \in Contents :
          NewVersion(p, d) \/ FirstVersion(p, d) \/ Overwrite(p, d)
    \/ \E p \in Paths : Prune(p)
    \/ SetVersioning

Spec == Init /\ [][Next]_<<log, versioning>>
=============================================================================
