-------------------------------- MODULE Lsfs --------------------------------
(***************************************************************************)
(* The versioned file system of the kernel (StorageManager, storage.rs).   *)
(* The memory worker serves one storage syscall at a time.  Each SQL       *)
(* statement commits on its own and each content file is truncated and     *)
(* then written, so an error or a crash can strike between any two of      *)
(* these steps; after a crash the database and the files are what they     *)
(* were and the configuration is read again.                               *)
(*                                                                         *)
(* A path stands for an (agent id, path) pair.  A content stands for a     *)
(* string and for its hash, which is taken to be injective.  Timestamps,   *)
(* sizes and directory listings are left out, and so is the fallback to    *)
(* the memory store when the database cannot be opened.                    *)
(***************************************************************************)
EXTENDS Integers, FiniteSets

CONSTANTS
    Paths,
    Contents,
    RetentionLimits, \* the values of max_versions_per_file, 0 for "keep all"
    MaxVersion,      \* bound: the highest version number a write creates
    MaxFaults        \* bound: how many errors and crashes strike

ASSUME LsfsAssumption ==
    /\ RetentionLimits \subseteq Nat
    /\ MaxVersion \in Nat \ {0}
    /\ MaxFaults \in Nat

VARIABLES
    record,          \* table files: for a path NoRecord or its current_version
    versions,        \* table file_versions: for a path, version -> content hash
    shared,          \* table permissions: the paths some row refers to
    content,         \* storage/content/<hash>: absent, torn or full
    auto_versioning, \* StorageManager.auto_versioning
    max_versions,    \* StorageManager.max_versions
    op,              \* the storage syscall being served and where it is
    reply,           \* the last reply, until the next syscall is taken
    faults           \* how many errors and crashes have struck

config == <<auto_versioning, max_versions>>
vars == <<record, versions, shared, content, auto_versioning, max_versions,
          op, reply, faults>>

NoRecord == 0
Idle == [kind |-> "none"]
NoReply == [kind |-> "none"]

Rows(p) == DOMAIN versions[p]

\* Mutant of IsNextVersion: COUNT(*) + 1.
IsCountedVersion(v, p) == v = Cardinality(Rows(p)) + 1

\* COALESCE(MAX(version), 0) + 1
IsNextVersion(v, p) == (\A r \in Rows(p) : r < v) /\ v - 1 \in Rows(p) \cup {0}

\* ORDER BY version DESC LIMIT 1
Newest(p) == CHOOSE v \in Rows(p) : \A r \in Rows(p) : r <= v

\* read: the newest version, whatever current_version says.
ReadResult(p) ==
    CASE Rows(p) = {} -> "not_found"
      [] Rows(p) # {} /\ content[versions[p][Newest(p)]] = "full" -> versions[p][Newest(p)]
      [] OTHER -> "damaged"

\* read_version
ReadVersionResult(p, v) ==
    CASE v \notin Rows(p) -> "not_found"
      [] v \in Rows(p) /\ content[versions[p][v]] = "full" -> versions[p][v]
      [] OTHER -> "damaged"

-----------------------------------------------------------------------------
Init ==
    /\ record = [p \in Paths |-> NoRecord]
    /\ versions = [p \in Paths |-> [v \in {} |-> <<>>]]
    /\ shared = {}
    /\ content = [d \in Contents |-> "absent"]
    /\ auto_versioning \in BOOLEAN
    /\ max_versions \in RetentionLimits
    /\ op = Idle
    /\ reply = NoReply
    /\ faults = 0

-----------------------------------------------------------------------------
(* Taking a syscall: the checks and lookups before anything is written.    *)

Begin(kind, p, d, v, at) ==
    /\ op' = [kind |-> kind, path |-> p, data |-> d, version |-> v, at |-> at]
    /\ reply' = NoReply

\* An early return, or the end of the handler: the worker sends the reply.
Answer(r) == op' = Idle /\ reply' = r
Refused(kind, p) == [kind |-> kind, path |-> p, ok |-> FALSE]
Done(kind, p, d) == [kind |-> kind, path |-> p, data |-> d, ok |-> TRUE]

\* create_file; get_or_create_file_record inserts a row unless there is one.
CreateFile(p, d) ==
    /\ op = Idle
    /\ record' = [record EXCEPT ![p] = IF @ = NoRecord THEN 1 ELSE @]
    /\ Begin("create", p, d, 1, "store")
    /\ UNCHANGED <<versions, shared, content, config, faults>>

\* create_dir: a record like a file's, and a directory no other operation looks at.
CreateDir(p) ==
    /\ op = Idle
    /\ record' = [record EXCEPT ![p] = IF @ = NoRecord THEN 1 ELSE @]
    /\ Answer(Done("create_dir", p, p))
    /\ UNCHANGED <<versions, shared, content, config, faults>>

WriteMissing(p, d) ==
    /\ op = Idle
    /\ record[p] = NoRecord
    /\ Answer(Refused("write", p))
    /\ UNCHANGED <<record, versions, shared, content, config, faults>>

\* write with versioning on fixes the number of the new version before it stores the
\* content; with versioning off it fixes the version to overwrite.
WriteVersion(p, d) ==
    /\ op = Idle
    /\ record[p] # NoRecord
    /\ auto_versioning
    /\ \E v \in 1 .. MaxVersion : IsNextVersion(v, p) /\ Begin("write", p, d, v, "store")
    /\ UNCHANGED <<record, versions, shared, content, config, faults>>

\* Mutant of WriteInPlace: no check that the file exists.
WriteInPlaceUnchecked(p, d) ==
    /\ op = Idle
    /\ ~auto_versioning
    /\ Begin("overwrite", p, d, record[p], "store")
    /\ UNCHANGED <<record, versions, shared, content, config, faults>>

WriteInPlace(p, d) ==
    /\ op = Idle
    /\ record[p] # NoRecord
    /\ ~auto_versioning
    /\ Begin("overwrite", p, d, record[p], "store")
    /\ UNCHANGED <<record, versions, shared, content, config, faults>>

\* delete: one statement.  The foreign keys of file_versions and permissions refuse it
\* while a row refers to the file; deleting what is not there succeeds.
Delete(p) ==
    /\ op = Idle
    /\ IF Rows(p) = {} /\ p \notin shared
       THEN record' = [record EXCEPT ![p] = NoRecord] /\ Answer(Done("delete", p, p))
       ELSE UNCHANGED record /\ Answer(Refused("delete", p))
    /\ UNCHANGED <<versions, shared, content, config, faults>>

\* rollback: moves current_version and nothing else.
Rollback(p, v) ==
    /\ op = Idle
    /\ IF v \in Rows(p)
       THEN /\ record' = [record EXCEPT ![p] = v]
            /\ Answer([kind |-> "rollback", path |-> p, version |-> v, ok |-> TRUE])
       ELSE UNCHANGED record /\ Answer(Refused("rollback", p))
    /\ UNCHANGED <<versions, shared, content, config, faults>>

\* share: which agent and which permission are not told apart, as nothing reads them.
Share(p) ==
    /\ op = Idle
    /\ IF record[p] # NoRecord
       THEN shared' = shared \cup {p} /\ Answer(Done("share", p, p))
       ELSE UNCHANGED shared /\ Answer(Refused("share", p))
    /\ UNCHANGED <<record, versions, content, config, faults>>

UpdateConfig(auto, max) ==
    /\ op = Idle
    /\ auto_versioning' = auto
    /\ max_versions' = max
    /\ reply' = NoReply
    /\ UNCHANGED <<record, versions, shared, content, op, faults>>

-----------------------------------------------------------------------------
(* The steps of create_file and write.                                     *)

Advance(at) == op' = [op EXCEPT !.at = at] /\ UNCHANGED reply

\* Mutant of TruncateContent: the file is created and the content never written.
CreateOnly ==
    /\ op # Idle /\ op.at = "store"
    /\ content' = [content EXCEPT ![op.data] = "torn"]
    /\ Advance("stored")
    /\ UNCHANGED <<record, versions, shared, config, faults>>

\* fs::write: truncates the file of this hash, which other versions may share ..
TruncateContent ==
    /\ op # Idle /\ op.at = "store"
    /\ content' = [content EXCEPT ![op.data] = "torn"]
    /\ Advance("storing")
    /\ UNCHANGED <<record, versions, shared, config, faults>>

\* .. and writes it.
WriteContent ==
    /\ op # Idle /\ op.at = "storing"
    /\ content' = [content EXCEPT ![op.data] = "full"]
    /\ Advance("stored")
    /\ UNCHANGED <<record, versions, shared, config, faults>>

WithRow(p, v, d) == [versions EXCEPT ![p] = [r \in Rows(p) \cup {v} |->
                                                IF r = v THEN d ELSE versions[p][r]]]

\* INSERT INTO file_versions; UNIQUE(file_id, version) refuses a second row.
InsertVersion ==
    /\ op # Idle /\ op.at = "stored" /\ op.kind \in {"create", "write"}
    /\ IF op.version \in Rows(op.path)
       THEN Answer(Refused(op.kind, op.path)) /\ UNCHANGED versions
       ELSE /\ versions' = WithRow(op.path, op.version, op.data)
            /\ Advance(IF op.kind = "create" THEN "finish" ELSE "point")
    /\ UNCHANGED <<record, shared, content, config, faults>>

\* UPDATE file_versions .. WHERE version = current_version: no row, no change.
UpdateVersion ==
    /\ op # Idle /\ op.at = "stored" /\ op.kind = "overwrite"
    /\ versions' = IF op.version \in Rows(op.path)
                   THEN WithRow(op.path, op.version, op.data) ELSE versions
    /\ Advance("finish")
    /\ UNCHANGED <<record, shared, content, config, faults>>

\* Mutant of PointToVersion: the pointer is left where it was.
LeavePointer == op # Idle /\ op.at = "point" /\ Advance("prune")
                /\ UNCHANGED <<record, versions, shared, content, config, faults>>

\* UPDATE files SET current_version
PointToVersion ==
    /\ op # Idle /\ op.at = "point"
    /\ record' = [record EXCEPT ![op.path] = op.version]
    /\ Advance("prune")
    /\ UNCHANGED <<versions, shared, content, config, faults>>

\* Mutants of PruneVersions: the newest rows go first (ORDER BY version DESC); at most
\* one row goes (LIMIT 1).
PruneNewest ==
    /\ op # Idle /\ op.at = "prune"
    /\ IF max_versions > 0 /\ Cardinality(Rows(op.path)) > max_versions
       THEN \E kept \in SUBSET Rows(op.path) :
               /\ Cardinality(kept) = max_versions
               /\ \A k \in kept, r \in Rows(op.path) \ kept : r > k
               /\ versions' = [versions EXCEPT ![op.path] = [r \in kept |-> @[r]]]
       ELSE UNCHANGED versions
    /\ Advance("finish")
    /\ UNCHANGED <<record, shared, content, config, faults>>
PruneOne ==
    /\ op # Idle /\ op.at = "prune"
    /\ IF max_versions > 0 /\ Cardinality(Rows(op.path)) > max_versions
       THEN \E old \in Rows(op.path) :
               /\ \A r \in Rows(op.path) : old <= r
               /\ versions' = [versions EXCEPT ![op.path] =
                                  [r \in Rows(op.path) \ {old} |-> @[r]]]
       ELSE UNCHANGED versions
    /\ Advance("finish")
    /\ UNCHANGED <<record, shared, content, config, faults>>

\* DELETE the oldest rows, as many as there are beyond max_versions.
PruneVersions ==
    /\ op # Idle /\ op.at = "prune"
    /\ IF max_versions > 0 /\ Cardinality(Rows(op.path)) > max_versions
       THEN \E kept \in SUBSET Rows(op.path) :
               /\ Cardinality(kept) = max_versions
               /\ \A k \in kept, r \in Rows(op.path) \ kept : r < k
               /\ versions' = [versions EXCEPT ![op.path] = [r \in kept |-> @[r]]]
       ELSE UNCHANGED versions
    /\ Advance("finish")
    /\ UNCHANGED <<record, shared, content, config, faults>>

Finish ==
    /\ op # Idle /\ op.at = "finish"
    /\ Answer(Done(op.kind, op.path, op.data))
    /\ UNCHANGED <<record, versions, shared, content, config, faults>>

-----------------------------------------------------------------------------
(* Faults: they leave the disk as it is.                                   *)

\* A file operation or an SQL statement fails: map_err(..)? returns from the handler.
Fail ==
    /\ op # Idle
    /\ faults < MaxFaults
    /\ faults' = faults + 1
    /\ Answer(Refused(op.kind, op.path))
    /\ UNCHANGED <<record, versions, shared, content, config>>

\* The application stops at any point and starts again: the new StorageManager gets
\* the configuration then found in the settings.
Crash ==
    /\ faults < MaxFaults
    /\ faults' = faults + 1
    /\ op' = Idle
    /\ reply' = NoReply
    /\ auto_versioning' \in BOOLEAN
    /\ max_versions' \in RetentionLimits
    /\ UNCHANGED <<record, versions, shared, content>>

-----------------------------------------------------------------------------
Step == TruncateContent \/ WriteContent \/ InsertVersion \/ UpdateVersion
        \/ PointToVersion \/ PruneVersions \/ Finish

Next ==
    \/ \E p \in Paths, d \in Contents :
          CreateFile(p, d) \/ WriteMissing(p, d) \/ WriteVersion(p, d) \/ WriteInPlace(p, d)
    \/ \E p \in Paths : CreateDir(p) \/ Delete(p) \/ Share(p)
    \/ \E p \in Paths, v \in 1 .. MaxVersion : Rollback(p, v)
    \/ \E auto \in BOOLEAN, max \in RetentionLimits : UpdateConfig(auto, max)
    \/ Step
    \/ Fail
    \/ Crash

Spec == Init /\ [][Next]_vars

-----------------------------------------------------------------------------
(* Properties.                                                             *)

OpKinds == {"create", "write", "overwrite"}
Stages == {"store", "storing", "stored", "point", "prune", "finish"}

\* Every variable has its type; version numbers stay within the bound.
TypeOK ==
    /\ record \in [Paths -> 0 .. MaxVersion]
    /\ DOMAIN versions = Paths
    /\ \A p \in Paths : Rows(p) \subseteq 1 .. MaxVersion
                        /\ \A v \in Rows(p) : versions[p][v] \in Contents
    /\ shared \subseteq Paths
    /\ content \in [Contents -> {"absent", "torn", "full"}]
    /\ auto_versioning \in BOOLEAN
    /\ max_versions \in RetentionLimits
    /\ op = Idle \/ op \in [kind : OpKinds, path : Paths, data : Contents,
                            version : 1 .. MaxVersion, at : Stages]
    /\ faults \in 0 .. MaxFaults

\* The pointer never dangles: in a file that has versions, current_version is one of
\* them, although inserting, pointing and pruning are three separate statements and a
\* rollback may have left the pointer on the version that is pruned next.
CurrentExists ==
    \A p \in Paths : Rows(p) # {} => record[p] \in Rows(p)

\* No row of file_versions refers to a content file that was never written, at any
\* point of any operation and after any crash.
RecordedContentStored ==
    \A p \in Paths : \A v \in Rows(p) : content[versions[p][v]] # "absent"

\* Both together: nothing that is recorded refers to something that is not there.
NothingDangles == CurrentExists /\ RecordedContentStored

\* Between syscalls, and as long as nothing has failed, every version of every file
\* is readable in full, although files with equal contents share one content file and
\* every write of that content truncates it first.
RecordedContentReadable ==
    (faults = 0 /\ op = Idle) =>
        \A p \in Paths : \A v \in Rows(p) : ReadVersionResult(p, v) = versions[p][v]

\* A write that was acknowledged while versioning is on is what the next read returns,
\* whatever earlier crashes, rollbacks and configurations left behind.
AcknowledgedWriteIsRead ==
    (reply # NoReply /\ reply.kind = "write" /\ reply.ok) =>
        ReadResult(reply.path) = reply.data

\* After an acknowledged write no more versions are kept than max_versions asks for,
\* even if the limit was lowered or crashes had left too many behind.
RetentionRespected ==
    (reply # NoReply /\ reply.kind = "write" /\ reply.ok /\ max_versions > 0) =>
        Cardinality(Rows(reply.path)) <= max_versions

\* The implementation keeps the promise of VersionedStore about history.
History == INSTANCE VersionedStore WITH log <- versions, versioning <- auto_versioning,
                                       Versions <- 1 .. MaxVersion
KeepsHistory == History!Spec

\* test_rollback: after a rollback to a version, a read returns that version.
RollbackIsRead ==
    (reply # NoReply /\ reply.kind = "rollback" /\ reply.ok) =>
        ReadResult(reply.path) = ReadVersionResult(reply.path, reply.version)
=============================================================================
