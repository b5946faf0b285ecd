----------------------------- MODULE LsfsProofs -----------------------------
(***************************************************************************)
(* Proofs about Lsfs for all paths, contents, retention limits and any     *)
(* number of faults: the pointer of a file never dangles, every recorded   *)
(* content was stored first, what the replies to writes promise is true,   *)
(* and the steps of the file system implement VersionedStore.              *)
(***************************************************************************)
EXTENDS Lsfs, FiniteSetTheorems, TLAPS

-----------------------------------------------------------------------------
(* The inductive invariant.                                                *)

\* A file without versions still has the pointer it was created with.
FreshPointer == \A p \in Paths : Rows(p) = {} => record[p] \in {NoRecord, 1}

\* What the handler of the current syscall has already established at each stage.
OpOK ==
    op # Idle =>
        /\ record[op.path] # NoRecord
        /\ op.kind = "create" => op.version = 1
        /\ op.kind = "write" => auto_versioning
        /\ op.kind = "overwrite" => ~auto_versioning
        /\ op.at \in {"point", "prune"} =>
              /\ op.kind = "write"
              /\ op.version \in Rows(op.path)
              /\ \A r \in Rows(op.path) : r <= op.version
        /\ op.at = "prune" => record[op.path] = op.version
        /\ (op.kind = "write" /\ op.at \in {"store", "storing", "stored"}) =>
              IsNextVersion(op.version, op.path)
        /\ op.at = "stored" => content[op.data] = "full"

IInv == TypeOK /\ CurrentExists /\ FreshPointer /\ OpOK /\ RecordedContentStored

OpType == [kind : OpKinds, path : Paths, data : Contents,
           version : 1 .. MaxVersion, at : Stages]

LEMMA OpTyped ==
    ASSUME IInv, op # Idle
    PROVE  /\ op \in OpType
           /\ op.kind \in OpKinds /\ op.path \in Paths /\ op.data \in Contents
           /\ op.version \in 1 .. MaxVersion /\ op.at \in Stages
  BY DEF IInv, TypeOK, OpType

\* A syscall that has been taken is not the idle state.
LEMMA OpNotIdle ==
    ASSUME NEW o \in OpType
    PROVE  o # Idle
  BY DEF OpType, OpKinds, Idle

\* Moving on to another stage changes nothing else of the syscall.
LEMMA AdvanceType ==
    ASSUME IInv, op # Idle, NEW at \in Stages, Advance(at)
    PROVE  /\ op' \in OpType /\ op' # Idle
           /\ op'.kind = op.kind /\ op'.path = op.path /\ op'.data = op.data
           /\ op'.version = op.version /\ op'.at = at
<1>1. op \in OpType /\ op' = [op EXCEPT !.at = at]
  BY OpTyped DEF Advance
<1>2. op' \in OpType
  BY <1>1 DEF OpType
<1> QED
  BY <1>1, <1>2, OpNotIdle DEF OpType

LEMMA InitIInv == Init => IInv
  BY LsfsAssumption DEF Init, IInv, TypeOK, CurrentExists, FreshPointer, OpOK,
     RecordedContentStored, Rows, NoRecord

-----------------------------------------------------------------------------
(* Taking a syscall.                                                       *)

\* A step that ends with no syscall in service and changes no table and no file.
LEMMA IdleStep ==
    ASSUME IInv, op' = Idle, UNCHANGED <<record, versions, shared, content>>,
           auto_versioning' \in BOOLEAN, max_versions' \in RetentionLimits,
           faults' \in 0 .. MaxFaults
    PROVE  IInv'
<1>1. TypeOK'
  BY DEF IInv, TypeOK, Rows
<1>2. CurrentExists' /\ FreshPointer' /\ RecordedContentStored'
  BY DEF IInv, CurrentExists, FreshPointer, RecordedContentStored, Rows
<1>3. OpOK'
  BY DEF OpOK
<1> QED
  BY <1>1, <1>2, <1>3 DEF IInv

LEMMA CreateFileStep ==
    ASSUME IInv, NEW p \in Paths, NEW d \in Contents, CreateFile(p, d)
    PROVE  IInv'
<1>1. record' = [record EXCEPT ![p] = IF record[p] = NoRecord THEN 1 ELSE record[p]]
      /\ UNCHANGED <<versions, shared, content, config, faults>>
  BY DEF CreateFile
<1>2. op' = [kind |-> "create", path |-> p, data |-> d, version |-> 1, at |-> "store"]
  BY DEF CreateFile, Begin
<1>3. op' \in OpType /\ op' # Idle
  BY <1>2, LsfsAssumption, OpNotIdle DEF OpType, OpKinds, Stages
<1>4. TypeOK'
  BY <1>1, <1>3, LsfsAssumption DEF IInv, TypeOK, Rows, config, OpType
<1>5. CurrentExists' /\ FreshPointer'
  <2> SUFFICES ASSUME NEW q \in Paths
               PROVE  /\ Rows(q)' # {} => record'[q] \in Rows(q)'
                      /\ Rows(q)' = {} => record'[q] \in {NoRecord, 1}
    BY DEF CurrentExists, FreshPointer
  <2>1. /\ Rows(q) # {} => record[q] \in Rows(q)
        /\ Rows(q) = {} => record[q] \in {NoRecord, 1}
        /\ Rows(q) \subseteq 1 .. MaxVersion
    BY DEF IInv, CurrentExists, FreshPointer, TypeOK
  <2>2. Rows(q)' = Rows(q)
    BY <1>1 DEF Rows
  <2>3. record'[q] = IF q = p /\ record[q] = NoRecord THEN 1 ELSE record[q]
    BY <1>1 DEF IInv, TypeOK
  <2>4. Rows(q) # {} => record[q] # NoRecord
    BY <2>1 DEF NoRecord
  <2> QED
    BY <2>1, <2>2, <2>3, <2>4
<1>6. RecordedContentStored'
  BY <1>1 DEF IInv, RecordedContentStored, Rows
<1>7. OpOK'
  BY <1>1, <1>2 DEF OpOK, IInv, TypeOK, NoRecord
<1> QED
  BY <1>4, <1>5, <1>6, <1>7 DEF IInv

\* create_dir and delete change the record of one path only, and never the record of
\* a path that has versions.
LEMMA RecordStep ==
    ASSUME IInv, NEW p \in Paths, op' = Idle,
           NEW r \in {NoRecord, 1, record[p]},
           Rows(p) # {} => r = record[p],
           record' = [record EXCEPT ![p] = r],
           UNCHANGED <<versions, shared, content, config, faults>>
    PROVE  IInv'
<1>1. r \in 0 .. MaxVersion
  BY LsfsAssumption DEF IInv, TypeOK, NoRecord
<1>2. TypeOK'
  BY <1>1 DEF IInv, TypeOK, Rows, config
<1>3. \A q \in Paths : Rows(q)' = Rows(q) /\ record'[q] = IF q = p THEN r ELSE record[q]
  BY DEF Rows, IInv, TypeOK
<1>4. CurrentExists' /\ FreshPointer'
  BY <1>3 DEF IInv, CurrentExists, FreshPointer, TypeOK
<1>5. RecordedContentStored'
  BY DEF IInv, RecordedContentStored, Rows
<1>6. OpOK'
  BY DEF OpOK
<1> QED
  BY <1>2, <1>4, <1>5, <1>6 DEF IInv

LEMMA CreateDirStep ==
    ASSUME IInv, NEW p \in Paths, CreateDir(p)
    PROVE  IInv'
<1> DEFINE r == IF record[p] = NoRecord THEN 1 ELSE record[p]
<1>1. r \in {NoRecord, 1, record[p]}
  OBVIOUS
<1>2. Rows(p) # {} => r = record[p]
  BY DEF IInv, CurrentExists, TypeOK, NoRecord
<1>3. record' = [record EXCEPT ![p] = r] /\ op' = Idle
      /\ UNCHANGED <<versions, shared, content, config, faults>>
  BY DEF CreateDir, Answer
<1> HIDE DEF r
<1> QED
  BY <1>1, <1>2, <1>3, RecordStep

LEMMA DeleteStep ==
    ASSUME IInv, NEW p \in Paths, Delete(p)
    PROVE  IInv'
<1>1. CASE Rows(p) = {} /\ p \notin shared
  <2>1. record' = [record EXCEPT ![p] = NoRecord] /\ op' = Idle
        /\ UNCHANGED <<versions, shared, content, config, faults>>
    BY <1>1 DEF Delete, Answer
  <2> QED
    BY <1>1, <2>1, RecordStep
<1>2. CASE ~(Rows(p) = {} /\ p \notin shared)
  <2>1. op' = Idle /\ UNCHANGED <<record, versions, shared, content, config, faults>>
    BY <1>2 DEF Delete, Answer
  <2> QED
    BY <2>1, IdleStep DEF config, IInv, TypeOK
<1> QED
  BY <1>1, <1>2

LEMMA RollbackStep ==
    ASSUME IInv, NEW p \in Paths, NEW v \in 1 .. MaxVersion, Rollback(p, v)
    PROVE  IInv'
<1>1. CASE v \in Rows(p)
  <2>1. record' = [record EXCEPT ![p] = v] /\ op' = Idle
        /\ UNCHANGED <<versions, shared, content, config, faults>>
    BY <1>1 DEF Rollback, Answer
  <2>2. TypeOK'
    BY <2>1, LsfsAssumption DEF IInv, TypeOK, Rows, config
  <2>3. \A q \in Paths : Rows(q)' = Rows(q) /\ record'[q] = IF q = p THEN v ELSE record[q]
    BY <2>1 DEF Rows, IInv, TypeOK
  <2>4. CurrentExists' /\ FreshPointer'
    BY <1>1, <2>3 DEF IInv, CurrentExists, FreshPointer
  <2>5. RecordedContentStored'
    BY <2>1 DEF IInv, RecordedContentStored, Rows
  <2>6. OpOK'
    BY <2>1 DEF OpOK
  <2> QED
    BY <2>2, <2>4, <2>5, <2>6 DEF IInv
<1>2. CASE v \notin Rows(p)
  <2>1. op' = Idle /\ UNCHANGED <<record, versions, shared, content, config, faults>>
    BY <1>2 DEF Rollback, Answer
  <2> QED
    BY <2>1, IdleStep DEF config, IInv, TypeOK
<1> QED
  BY <1>1, <1>2

LEMMA ShareStep ==
    ASSUME IInv, NEW p \in Paths, Share(p)
    PROVE  IInv'
<1>1. op' = Idle /\ UNCHANGED <<record, versions, content, config, faults>>
      /\ shared' \subseteq Paths
  BY DEF Share, Answer, IInv, TypeOK
<1>2. TypeOK'
  BY <1>1 DEF IInv, TypeOK, Rows, config
<1>3. CurrentExists' /\ FreshPointer' /\ RecordedContentStored'
  BY <1>1 DEF IInv, CurrentExists, FreshPointer, RecordedContentStored, Rows
<1>4. OpOK'
  BY <1>1 DEF OpOK
<1> QED
  BY <1>2, <1>3, <1>4 DEF IInv

\* A write fixes the version it is about before anything changes.
LEMMA BeginWriteStep ==
    ASSUME IInv, NEW p \in Paths, NEW d \in Contents,
           WriteVersion(p, d) \/ WriteInPlace(p, d)
    PROVE  IInv'
<1>1. UNCHANGED <<record, versions, shared, content, config, faults>> /\ record[p] # NoRecord
  BY DEF WriteVersion, WriteInPlace
<1>2. PICK kind \in {"write", "overwrite"}, v \in 1 .. MaxVersion :
         /\ op' = [kind |-> kind, path |-> p, data |-> d, version |-> v, at |-> "store"]
         /\ kind = "write" => auto_versioning /\ IsNextVersion(v, p)
         /\ kind = "overwrite" => ~auto_versioning
  <2>1. CASE WriteVersion(p, d)
    BY <2>1 DEF WriteVersion, Begin
  <2>2. CASE WriteInPlace(p, d)
    <3>1. record[p] \in 1 .. MaxVersion
      BY <1>1, LsfsAssumption DEF IInv, TypeOK, NoRecord
    <3> QED
      BY <2>2, <3>1 DEF WriteInPlace, Begin
  <2> QED
    BY <2>1, <2>2
<1>3. op' \in OpType /\ op' # Idle
  BY <1>2, OpNotIdle DEF OpType, OpKinds, Stages
<1>4. TypeOK'
  BY <1>1, <1>3 DEF IInv, TypeOK, Rows, config, OpType
<1>5. CurrentExists' /\ FreshPointer' /\ RecordedContentStored'
  BY <1>1 DEF IInv, CurrentExists, FreshPointer, RecordedContentStored, Rows
<1>6. OpOK'
  BY <1>1, <1>2 DEF OpOK, IsNextVersion, Rows, config
<1> QED
  BY <1>4, <1>5, <1>6 DEF IInv

-----------------------------------------------------------------------------
(* The steps of create_file and write.                                     *)

\* Writing a content file changes no table; what was stored stays stored.
LEMMA ContentStep ==
    ASSUME IInv, TruncateContent \/ WriteContent
    PROVE  IInv'
<1>1. op # Idle /\ UNCHANGED <<record, versions, shared, config, faults>>
  BY DEF TruncateContent, WriteContent
<1>2. PICK at \in {"storing", "stored"}, c \in {"torn", "full"} :
         /\ Advance(at)
         /\ content' = [content EXCEPT ![op.data] = c]
         /\ at = "stored" => c = "full"
         /\ op.at \in {"store", "storing"}
  <2>1. CASE TruncateContent
    BY <2>1 DEF TruncateContent
  <2>2. CASE WriteContent
    BY <2>2 DEF WriteContent
  <2> QED
    BY <2>1, <2>2
<1>3. /\ op' \in OpType /\ op' # Idle
      /\ op'.kind = op.kind /\ op'.path = op.path /\ op'.data = op.data
      /\ op'.version = op.version /\ op'.at = at
  BY <1>1, <1>2, AdvanceType DEF Stages
<1>4. op.data \in Contents
  BY <1>1, OpTyped
<1>5. \A d \in Contents : content'[d] = IF d = op.data THEN c ELSE content[d]
  BY <1>2 DEF IInv, TypeOK
<1>6. content' \in [Contents -> {"absent", "torn", "full"}]
  BY <1>2 DEF IInv, TypeOK
<1>7. TypeOK'
  BY <1>1, <1>3, <1>6 DEF IInv, TypeOK, Rows, config, OpType
<1>8. CurrentExists' /\ FreshPointer'
  BY <1>1 DEF IInv, CurrentExists, FreshPointer, Rows
<1>9. RecordedContentStored'
  BY <1>1, <1>2, <1>5 DEF IInv, RecordedContentStored, TypeOK, Rows
<1>10. OpOK'
  BY <1>1, <1>2, <1>3, <1>4, <1>5 DEF IInv, OpOK, IsNextVersion, Rows, config
<1> QED
  BY <1>7, <1>8, <1>9, <1>10 DEF IInv

\* What adding or replacing one row does to the table.
LEMMA WithRowEffect ==
    ASSUME TypeOK, NEW p \in Paths, NEW v, NEW d, versions' = WithRow(p, v, d)
    PROVE  /\ DOMAIN versions' = Paths
           /\ Rows(p)' = Rows(p) \cup {v}
           /\ \A r \in Rows(p)' : versions'[p][r] = IF r = v THEN d ELSE versions[p][r]
           /\ \A q \in Paths \ {p} : versions'[q] = versions[q] /\ Rows(q)' = Rows(q)
  BY DEF WithRow, Rows, TypeOK

\* A row with a stored content may be added wherever the pointer does not suffer.
LEMMA RowStep ==
    ASSUME IInv, op # Idle, op.at = "stored",
           versions' = WithRow(op.path, op.version, op.data),
           op.version \in Rows(op.path) \/ Rows(op.path) # {} \/ op.version = 1,
           UNCHANGED <<record, shared, content, config, faults>>,
           NEW at \in {"finish", "point"}, Advance(at),
           at = "point" => op.kind = "write"
    PROVE  IInv'
<1>1. PICK p \in Paths, d \in Contents, v \in 1 .. MaxVersion :
         p = op.path /\ d = op.data /\ v = op.version
  BY OpTyped
<1>2. /\ op' \in OpType /\ op' # Idle
      /\ op'.kind = op.kind /\ op'.path = p /\ op'.data = d /\ op'.version = v /\ op'.at = at
  BY <1>1, AdvanceType DEF Stages
<1>3. /\ record[p] # NoRecord /\ content[d] = "full"
      /\ op.kind = "write" => auto_versioning /\ IsNextVersion(v, p)
      /\ op.kind = "create" => v = 1
      /\ op.kind = "overwrite" => ~auto_versioning
  BY <1>1 DEF IInv, OpOK
<1>4. versions' = WithRow(p, v, d) /\ (v \in Rows(p) \/ Rows(p) # {} \/ v = 1)
  BY <1>1
<1>5. /\ DOMAIN versions' = Paths
      /\ Rows(p)' = Rows(p) \cup {v}
      /\ \A r \in Rows(p)' : versions'[p][r] = IF r = v THEN d ELSE versions[p][r]
      /\ \A q \in Paths \ {p} : versions'[q] = versions[q] /\ Rows(q)' = Rows(q)
  BY <1>1, <1>4, WithRowEffect DEF IInv
<1>6. \A q \in Paths : Rows(q)' \subseteq 1 .. MaxVersion
                     /\ \A r \in Rows(q)' : versions'[q][r] \in Contents
  BY <1>1, <1>5 DEF IInv, TypeOK
<1>7. TypeOK'
  BY <1>2, <1>5, <1>6 DEF IInv, TypeOK, config, OpType
<1>8. CurrentExists' /\ FreshPointer'
  <2>1. record[p] \in Rows(p)'
    <3>1. CASE Rows(p) # {}
      BY <1>1, <1>5, <3>1 DEF IInv, CurrentExists
    <3>2. CASE Rows(p) = {}
      BY <1>1, <1>3, <1>4, <1>5, <3>2 DEF IInv, FreshPointer
    <3> QED
      BY <3>1, <3>2
  <2> QED
    BY <1>5, <2>1 DEF IInv, CurrentExists, FreshPointer
<1>9. RecordedContentStored'
  <2> SUFFICES ASSUME NEW q \in Paths, NEW r \in Rows(q)'
               PROVE  content[versions'[q][r]] # "absent"
    BY DEF RecordedContentStored
  <2>1. CASE q = p /\ r = v
    BY <1>3, <1>5, <2>1
  <2>2. CASE ~(q = p /\ r = v)
    BY <1>5, <2>2 DEF IInv, RecordedContentStored
  <2> QED
    BY <2>1, <2>2
<1>10. OpOK'
  <2>1. at = "point" => \A r \in Rows(p) \cup {v} : r <= v
    BY <1>1, <1>3 DEF IsNextVersion, IInv, TypeOK
  <2> QED
    BY <1>1, <1>2, <1>3, <1>5, <2>1 DEF OpOK, config
<1> QED
  BY <1>7, <1>8, <1>9, <1>10 DEF IInv

LEMMA InsertVersionStep ==
    ASSUME IInv, InsertVersion
    PROVE  IInv'
<1>1. op # Idle /\ op.at = "stored" /\ op.kind \in {"create", "write"}
      /\ UNCHANGED <<record, shared, content, config, faults>>
  BY DEF InsertVersion
<1>2. CASE op.version \in Rows(op.path)
  <2>1. op' = Idle /\ UNCHANGED versions
    BY <1>2 DEF InsertVersion, Answer
  <2> QED
    BY <1>1, <2>1, IdleStep DEF config, IInv, TypeOK
<1>3. CASE op.version \notin Rows(op.path)
  <2>1. versions' = WithRow(op.path, op.version, op.data)
        /\ Advance(IF op.kind = "create" THEN "finish" ELSE "point")
    BY <1>3 DEF InsertVersion
  <2>2. Rows(op.path) # {} \/ op.version = 1
    <3>1. op.kind = "create" => op.version = 1
      BY <1>1 DEF IInv, OpOK
    <3>2. op.kind = "write" => IsNextVersion(op.version, op.path)
      BY <1>1 DEF IInv, OpOK
    <3>3. op.version \in 1 .. MaxVersion
      BY <1>1, OpTyped
    <3> QED
      BY <1>1, <3>1, <3>2, <3>3 DEF IsNextVersion
  <2>3. CASE op.kind = "create"
    BY <1>1, <2>1, <2>2, <2>3, RowStep
  <2>4. CASE op.kind = "write"
    BY <1>1, <2>1, <2>2, <2>4, RowStep
  <2> QED
    BY <1>1, <2>3, <2>4
<1> QED
  BY <1>2, <1>3

LEMMA UpdateVersionStep ==
    ASSUME IInv, UpdateVersion
    PROVE  IInv'
<1>1. op # Idle /\ op.at = "stored" /\ op.kind = "overwrite" /\ Advance("finish")
      /\ UNCHANGED <<record, shared, content, config, faults>>
  BY DEF UpdateVersion
<1>2. CASE op.version \in Rows(op.path)
  <2>1. versions' = WithRow(op.path, op.version, op.data)
    BY <1>2 DEF UpdateVersion
  <2> QED
    BY <1>1, <1>2, <2>1, RowStep
<1>3. CASE op.version \notin Rows(op.path)
  <2>1. UNCHANGED versions
    BY <1>3 DEF UpdateVersion
  <2>2. /\ op' \in OpType /\ op' # Idle
        /\ op'.kind = op.kind /\ op'.path = op.path /\ op'.at = "finish"
    BY <1>1, AdvanceType DEF Stages
  <2>3. TypeOK'
    BY <1>1, <2>1, <2>2 DEF IInv, TypeOK, Rows, config, OpType
  <2>4. CurrentExists' /\ FreshPointer' /\ RecordedContentStored'
    BY <1>1, <2>1 DEF IInv, CurrentExists, FreshPointer, RecordedContentStored, Rows
  <2>5. OpOK'
    BY <1>1, <2>2 DEF IInv, OpOK, config
  <2> QED
    BY <2>3, <2>4, <2>5 DEF IInv
<1> QED
  BY <1>2, <1>3

LEMMA PointToVersionStep ==
    ASSUME IInv, PointToVersion
    PROVE  IInv'
<1>0. op # Idle /\ op.at = "point" /\ Advance("prune")
      /\ UNCHANGED <<versions, shared, content, config, faults>>
  BY DEF PointToVersion
<1>1. PICK p \in Paths, v \in 1 .. MaxVersion : p = op.path /\ v = op.version
  BY <1>0, OpTyped
<1>2. /\ op' \in OpType /\ op' # Idle
      /\ op'.kind = op.kind /\ op'.path = p /\ op'.version = v /\ op'.at = "prune"
  BY <1>0, <1>1, AdvanceType DEF Stages
<1>3. /\ v \in Rows(p) /\ \A r \in Rows(p) : r <= v
      /\ op.kind = "write" /\ auto_versioning
  BY <1>0, <1>1 DEF IInv, OpOK
<1>4. record' = [record EXCEPT ![p] = v]
  BY <1>1 DEF PointToVersion
<1>5. \A q \in Paths : Rows(q)' = Rows(q) /\ record'[q] = IF q = p THEN v ELSE record[q]
  BY <1>0, <1>4 DEF Rows, IInv, TypeOK
<1>6. TypeOK'
  BY <1>0, <1>2, <1>4, LsfsAssumption DEF IInv, TypeOK, Rows, config, OpType
<1>7. CurrentExists' /\ FreshPointer'
  BY <1>3, <1>5 DEF IInv, CurrentExists, FreshPointer
<1>8. RecordedContentStored'
  BY <1>0 DEF IInv, RecordedContentStored, Rows
<1>9. OpOK'
  <2>1. record'[p] = v /\ v # NoRecord /\ auto_versioning'
    BY <1>0, <1>3, <1>5 DEF NoRecord, config
  <2>2. v \in Rows(p)' /\ \A r \in Rows(p)' : r <= v
    BY <1>3, <1>5
  <2> QED
    BY <1>2, <1>3, <2>1, <2>2 DEF OpOK
<1> QED
  BY <1>6, <1>7, <1>8, <1>9 DEF IInv

\* Whatever pruning keeps includes the newest version, which the pointer is on.
LEMMA PruneVersionsStep ==
    ASSUME IInv, PruneVersions
    PROVE  IInv'
<1>0. op # Idle /\ op.at = "prune" /\ Advance("finish")
      /\ UNCHANGED <<record, shared, content, config, faults>>
  BY DEF PruneVersions
<1>1. PICK p \in Paths, v \in 1 .. MaxVersion : p = op.path /\ v = op.version
  BY <1>0, OpTyped
<1>2. /\ op' \in OpType /\ op' # Idle
      /\ op'.kind = op.kind /\ op'.path = p /\ op'.version = v /\ op'.at = "finish"
  BY <1>0, <1>1, AdvanceType DEF Stages
<1>3. /\ v \in Rows(p) /\ (\A r \in Rows(p) : r <= v) /\ record[p] = v
      /\ op.kind = "write" /\ auto_versioning
  BY <1>0, <1>1 DEF IInv, OpOK
<1>4. OpOK'
  <2>1. record'[p] # NoRecord /\ auto_versioning'
    BY <1>0, <1>3 DEF NoRecord, config
  <2> QED
    BY <1>2, <1>3, <2>1 DEF OpOK
<1>5. CASE UNCHANGED versions
  <2>1. TypeOK'
    BY <1>0, <1>2, <1>5 DEF IInv, TypeOK, Rows, config, OpType
  <2>2. CurrentExists' /\ FreshPointer' /\ RecordedContentStored'
    BY <1>0, <1>5 DEF IInv, CurrentExists, FreshPointer, RecordedContentStored, Rows
  <2> QED
    BY <1>4, <2>1, <2>2 DEF IInv
<1>6. CASE ~UNCHANGED versions
  <2>1. PICK kept \in SUBSET Rows(p) :
           /\ Cardinality(kept) = max_versions /\ max_versions > 0
           /\ \A k \in kept, r \in Rows(p) \ kept : r < k
           /\ versions' = [versions EXCEPT ![p] = [r \in kept |-> versions[p][r]]]
    BY <1>1, <1>6 DEF PruneVersions
  <2>2. kept # {}
    BY <2>1, FS_EmptySet
  <2>3. v \in kept
    BY <1>3, <2>1, <2>2 DEF IInv, TypeOK
  <2>4. /\ DOMAIN versions' = Paths /\ Rows(p)' = kept
        /\ \A r \in kept : versions'[p][r] = versions[p][r]
        /\ \A q \in Paths \ {p} : versions'[q] = versions[q] /\ Rows(q)' = Rows(q)
    BY <2>1 DEF Rows, IInv, TypeOK
  <2>5. \A q \in Paths : Rows(q)' \subseteq Rows(q)
                       /\ \A r \in Rows(q)' : versions'[q][r] = versions[q][r]
    BY <2>1, <2>4
  <2>6. TypeOK'
    BY <1>0, <1>2, <2>4, <2>5 DEF IInv, TypeOK, config, OpType
  <2>7. CurrentExists' /\ FreshPointer'
    BY <1>0, <1>3, <2>3, <2>4 DEF IInv, CurrentExists, FreshPointer
  <2>8. RecordedContentStored'
    BY <1>0, <2>5 DEF IInv, RecordedContentStored
  <2> QED
    BY <1>4, <2>6, <2>7, <2>8 DEF IInv
<1> QED
  BY <1>5, <1>6

-----------------------------------------------------------------------------
(* The theorems.                                                           *)

\* IInv is inductive: one step per kind of syscall, per stage, and for the faults.
LEMMA NextIInv == IInv /\ [Next]_vars => IInv'
<1> SUFFICES ASSUME IInv, [Next]_vars PROVE IInv'
  OBVIOUS
<1>1. ASSUME NEW p \in Paths, NEW d \in Contents,
             CreateFile(p, d) \/ WriteMissing(p, d) \/ WriteVersion(p, d) \/ WriteInPlace(p, d)
      PROVE  IInv'
  <2>1. CASE CreateFile(p, d)
    BY <2>1, CreateFileStep
  <2>2. CASE WriteMissing(p, d)
    BY <2>2, IdleStep DEF WriteMissing, Answer, config, IInv, TypeOK
  <2>3. CASE WriteVersion(p, d) \/ WriteInPlace(p, d)
    BY <2>3, BeginWriteStep
  <2> QED
    BY <1>1, <2>1, <2>2, <2>3
<1>2. ASSUME NEW p \in Paths, CreateDir(p) \/ Delete(p) \/ Share(p)
      PROVE  IInv'
  BY <1>2, CreateDirStep, DeleteStep, ShareStep
<1>3. ASSUME NEW p \in Paths, NEW v \in 1 .. MaxVersion, Rollback(p, v)
      PROVE  IInv'
  BY <1>3, RollbackStep
<1>4. ASSUME NEW auto \in BOOLEAN, NEW max \in RetentionLimits, UpdateConfig(auto, max)
      PROVE  IInv'
  <2>1. op' = Idle /\ UNCHANGED <<record, versions, shared, content, faults>>
        /\ auto_versioning' \in BOOLEAN /\ max_versions' \in RetentionLimits
    BY <1>4 DEF UpdateConfig
  <2> QED
    BY <2>1, IdleStep DEF IInv, TypeOK
<1>5. CASE Step
  <2>1. CASE TruncateContent \/ WriteContent
    BY <2>1, ContentStep
  <2>2. CASE InsertVersion
    BY <2>2, InsertVersionStep
  <2>3. CASE UpdateVersion
    BY <2>3, UpdateVersionStep
  <2>4. CASE PointToVersion
    BY <2>4, PointToVersionStep
  <2>5. CASE PruneVersions
    BY <2>5, PruneVersionsStep
  <2>6. CASE Finish
    BY <2>6, IdleStep DEF Finish, Answer, config, IInv, TypeOK
  <2> QED
    BY <1>5, <2>1, <2>2, <2>3, <2>4, <2>5, <2>6 DEF Step
<1>6. CASE Fail
  BY <1>6, IdleStep, LsfsAssumption DEF Fail, Answer, config, IInv, TypeOK
<1>7. CASE Crash
  BY <1>7, IdleStep, LsfsAssumption DEF Crash, IInv, TypeOK
<1>8. CASE UNCHANGED vars
  <2>1. TypeOK'
    BY <1>8 DEF vars, IInv, TypeOK, Rows
  <2>2. CurrentExists' /\ FreshPointer' /\ RecordedContentStored'
    BY <1>8 DEF vars, IInv, CurrentExists, FreshPointer, RecordedContentStored, Rows
  <2>3. OpOK'
    BY <1>8 DEF vars, IInv, OpOK, IsNextVersion, Rows
  <2> QED
    BY <2>1, <2>2, <2>3 DEF IInv
<1> QED
  BY <1>1, <1>2, <1>3, <1>4, <1>5, <1>6, <1>7, <1>8 DEF Next

\* The inductive invariant holds in every reachable state of every instance.
THEOREM Invariance == Spec => []IInv
  BY InitIInv, NextIInv, PTL DEF Spec

\* Type correctness.
THEOREM TypeCorrect == Spec => []TypeOK
<1>1. IInv => TypeOK
  BY DEF IInv
<1> QED
  BY <1>1, Invariance, PTL

\* After any sequence of syscalls, errors and crashes, for any retention limit, the
\* current_version of a file that has versions is one of them.
THEOREM PointerNeverDangles == Spec => []CurrentExists
<1>1. IInv => CurrentExists
  BY DEF IInv
<1> QED
  BY <1>1, Invariance, PTL

\* The content of every recorded version was stored before the version was recorded.
THEOREM StoredBeforeRecorded == Spec => []RecordedContentStored
<1>1. IInv => RecordedContentStored
  BY DEF IInv
<1> QED
  BY <1>1, Invariance, PTL

\* Both at once, as the run checks them: no pointer and no row refers to something
\* that is not there, at any point of any operation.
THEOREM NoReferenceDangles == Spec => []NothingDangles
<1>1. CurrentExists /\ RecordedContentStored => NothingDangles
  BY DEF NothingDangles
<1> QED
  BY <1>1, PointerNeverDangles, StoredBeforeRecorded, PTL

-----------------------------------------------------------------------------
(* Lsfs implements VersionedStore: three statements map to a step of the   *)
(* history, a change of configuration to SetVersioning, the rest stutters. *)

\* Adding or replacing a row is what VersionedStore calls Put.
LEMMA WithRowIsPut ==
    ASSUME TypeOK, NEW p \in Paths, NEW v, NEW d, versions' = WithRow(p, v, d)
    PROVE  History!Put(p, v, d)
  BY DEF WithRow, Rows, TypeOK, History!Put

LEMMA InsertIsNewVersion ==
    ASSUME IInv, InsertVersion
    PROVE  History!Next \/ UNCHANGED <<versions, auto_versioning>>
<1>0. op # Idle /\ op.at = "stored" /\ op.kind \in {"create", "write"}
      /\ UNCHANGED auto_versioning
  BY DEF InsertVersion, config
<1>1. PICK p \in Paths, d \in Contents, v \in 1 .. MaxVersion :
         p = op.path /\ d = op.data /\ v = op.version
  BY <1>0, OpTyped
<1>2. CASE v \in Rows(p)
  BY <1>0, <1>1, <1>2 DEF InsertVersion
<1>3. CASE v \notin Rows(p)
  <2>1. History!Put(p, v, d)
    BY <1>0, <1>1, <1>3, WithRowIsPut DEF InsertVersion, IInv
  <2>2. CASE op.kind = "create"
    <3>1. v = 1 /\ 1 \notin DOMAIN versions[p]
      BY <1>0, <1>1, <1>3, <2>2 DEF IInv, OpOK, Rows
    <3>2. History!FirstVersion(p, d)
      BY <1>0, <2>1, <3>1 DEF History!FirstVersion
    <3> QED
      BY <3>2 DEF History!Next
  <2>3. CASE op.kind = "write"
    <3>1. auto_versioning /\ \A r \in DOMAIN versions[p] : r < v
      BY <1>0, <1>1, <2>3 DEF IInv, OpOK, IsNextVersion, Rows
    <3>2. History!NewVersion(p, d)
      BY <1>0, <2>1, <3>1 DEF History!NewVersion
    <3> QED
      BY <3>2 DEF History!Next
  <2> QED
    BY <1>0, <2>2, <2>3
<1> QED
  BY <1>2, <1>3

LEMMA UpdateIsOverwrite ==
    ASSUME IInv, UpdateVersion
    PROVE  History!Next \/ UNCHANGED <<versions, auto_versioning>>
<1>0. op # Idle /\ op.kind = "overwrite" /\ UNCHANGED auto_versioning /\ ~auto_versioning
  BY DEF UpdateVersion, config, IInv, OpOK
<1>1. PICK p \in Paths, d \in Contents, v \in 1 .. MaxVersion :
         p = op.path /\ d = op.data /\ v = op.version
  BY <1>0, OpTyped
<1>2. CASE v \in Rows(p)
  <2>1. History!Put(p, v, d)
    BY <1>1, <1>2, WithRowIsPut DEF UpdateVersion, IInv
  <2>2. History!Overwrite(p, d)
    BY <1>0, <1>2, <2>1 DEF History!Overwrite, Rows
  <2> QED
    BY <2>2 DEF History!Next
<1>3. CASE v \notin Rows(p)
  BY <1>0, <1>1, <1>3 DEF UpdateVersion
<1> QED
  BY <1>2, <1>3

LEMMA PruneIsPrune ==
    ASSUME IInv, PruneVersions
    PROVE  History!Next \/ UNCHANGED <<versions, auto_versioning>>
<1>0. op # Idle /\ op.at = "prune" /\ UNCHANGED auto_versioning /\ auto_versioning
  BY DEF PruneVersions, config, IInv, OpOK
<1>1. PICK p \in Paths : p = op.path
  BY <1>0, OpTyped
<1>2. CASE ~UNCHANGED versions
  <2>1. PICK kept \in SUBSET Rows(p) :
           /\ Cardinality(kept) = max_versions /\ max_versions > 0
           /\ \A k \in kept, r \in Rows(p) \ kept : r < k
           /\ versions' = [versions EXCEPT ![p] = [r \in kept |-> versions[p][r]]]
    BY <1>1, <1>2 DEF PruneVersions
  <2>2. kept # {}
    BY <2>1, FS_EmptySet
  <2>3. History!Prune(p)
    BY <1>0, <2>1, <2>2 DEF History!Prune, Rows
  <2> QED
    BY <2>3 DEF History!Next
<1> QED
  BY <1>0, <1>2

LEMMA StepRefines ==
    IInv /\ [Next]_vars => [History!Next]_<<versions, auto_versioning>>
<1> SUFFICES ASSUME IInv, [Next]_vars
             PROVE  History!Next \/ UNCHANGED <<versions, auto_versioning>>
  OBVIOUS
<1>1. ASSUME NEW p \in Paths, NEW d \in Contents,
             CreateFile(p, d) \/ WriteMissing(p, d) \/ WriteVersion(p, d) \/ WriteInPlace(p, d)
      PROVE  UNCHANGED <<versions, auto_versioning>>
  BY <1>1 DEF CreateFile, WriteMissing, WriteVersion, WriteInPlace, config
<1>2. ASSUME NEW p \in Paths, CreateDir(p) \/ Delete(p) \/ Share(p)
      PROVE  UNCHANGED <<versions, auto_versioning>>
  BY <1>2 DEF CreateDir, Delete, Share, config
<1>3. ASSUME NEW p \in Paths, NEW v \in 1 .. MaxVersion, Rollback(p, v)
      PROVE  UNCHANGED <<versions, auto_versioning>>
  BY <1>3 DEF Rollback, config
<1>4. ASSUME NEW auto \in BOOLEAN, NEW max \in RetentionLimits, UpdateConfig(auto, max)
      PROVE  History!SetVersioning
  BY <1>4 DEF UpdateConfig, History!SetVersioning
<1>5. CASE Step
  <2>1. CASE TruncateContent \/ WriteContent \/ PointToVersion \/ Finish
    BY <2>1 DEF TruncateContent, WriteContent, PointToVersion, Finish, config
  <2> QED
    BY <1>5, <2>1, InsertIsNewVersion, UpdateIsOverwrite, PruneIsPrune DEF Step
<1>6. CASE Fail
  BY <1>6 DEF Fail, config
<1>7. CASE Crash
  BY <1>7 DEF Crash, History!SetVersioning, History!Next
<1>8. CASE UNCHANGED vars
  BY <1>8 DEF vars
<1>9. History!SetVersioning => History!Next
  BY DEF History!Next
<1> QED
  BY <1>1, <1>2, <1>3, <1>4, <1>5, <1>6, <1>7, <1>8, <1>9 DEF Next

\* The file system keeps the promise of VersionedStore: with versioning on a recorded
\* version never changes its content, new versions go on top, pruning takes the oldest
\* and never the newest, and no error or crash takes a version away.
THEOREM Refinement == Spec => KeepsHistory
<1>1. Init => History!Init
  BY DEF Init, History!Init
<1> QED
  BY <1>1, StepRefines, Invariance, PTL DEF Spec, KeepsHistory, History!Spec

-----------------------------------------------------------------------------
(* What a reply promises.                                                  *)

\* As long as nothing has failed, the only recorded content that is not there in full
\* is the one the current syscall is writing again.
FullUnlessWriting ==
    faults = 0 => \A p \in Paths : \A v \in Rows(p) :
        \/ content[versions[p][v]] = "full"
        \/ op # Idle /\ op.at = "storing" /\ versions[p][v] = op.data

\* What a write has achieved once its row is inserted, and once it has pruned.
WriteOK ==
    (op # Idle /\ op.kind = "write" /\ op.at \in {"point", "prune", "finish"}) =>
        /\ op.version \in Rows(op.path)
        /\ \A r \in Rows(op.path) : r <= op.version
        /\ versions[op.path][op.version] = op.data
        /\ content[op.data] = "full"
        /\ (op.at = "finish" /\ max_versions > 0) =>
               Cardinality(Rows(op.path)) <= max_versions

\* There is no reply while a syscall is served, and a reply stays true until the next.
ReplyOK ==
    /\ op # Idle => reply = NoReply
    /\ AcknowledgedWriteIsRead
    /\ RetentionRespected

ReplyInv == FullUnlessWriting /\ WriteOK /\ ReplyOK

\* The reply to a write that succeeded.
Acknowledges(r) == r # NoReply /\ r.kind = "write" /\ r.ok

LEMMA RowsFinite ==
    ASSUME TypeOK, NEW p \in Paths
    PROVE  IsFiniteSet(Rows(p)) /\ Cardinality(Rows(p)) \in Nat
<1>1. IsFiniteSet(1 .. MaxVersion)
  BY FS_Interval, LsfsAssumption
<1>2. Rows(p) \in SUBSET (1 .. MaxVersion)
  BY DEF TypeOK
<1> QED
  BY <1>1, <1>2, FS_Subset, FS_CardinalityType

\* A read returns the content of the newest row, if its file is intact.
LEMMA ReadNewest ==
    ASSUME TypeOK, NEW p \in Paths, NEW v \in Rows(p), \A r \in Rows(p) : r <= v,
           content[versions[p][v]] = "full"
    PROVE  ReadResult(p) = versions[p][v]
<1>1. \A r \in Rows(p) : r \in Int
  BY DEF TypeOK
<1>2. \A w \in Rows(p) : (\A r \in Rows(p) : r <= w) => w = v
  BY <1>1
<1>3. Newest(p) = v
  BY <1>2 DEF Newest
<1> QED
  BY <1>3 DEF ReadResult

LEMMA InitReplyInv == Init => ReplyInv
  BY DEF Init, ReplyInv, FullUnlessWriting, WriteOK, ReplyOK, AcknowledgedWriteIsRead,
     RetentionRespected, Rows, Idle, NoReply

\* A step after which no syscall is served and no write is acknowledged.
LEMMA QuietStep ==
    ASSUME IInv, ReplyInv, op' = Idle, ~Acknowledges(reply'),
           UNCHANGED <<versions, content>>,
           faults' # 0 \/ (faults' = faults /\ op = Idle)
    PROVE  ReplyInv'
<1>1. FullUnlessWriting'
  BY DEF ReplyInv, FullUnlessWriting, Rows
<1>2. WriteOK'
  BY DEF WriteOK
<1>3. ReplyOK'
  BY DEF ReplyOK, AcknowledgedWriteIsRead, RetentionRespected, Acknowledges
<1> QED
  BY <1>1, <1>2, <1>3 DEF ReplyInv

\* A step that takes a create, a write or an overwrite.
LEMMA TakeStep ==
    ASSUME ReplyInv, op = Idle, op'.at = "store", reply' = NoReply,
           UNCHANGED <<versions, content, faults>>
    PROVE  ReplyInv'
<1>1. FullUnlessWriting'
  BY DEF ReplyInv, FullUnlessWriting, Rows
<1>2. WriteOK'
  BY DEF WriteOK
<1>3. ReplyOK'
  BY DEF ReplyOK, AcknowledgedWriteIsRead, RetentionRespected
<1> QED
  BY <1>1, <1>2, <1>3 DEF ReplyInv

\* While the syscall moves on there is still no reply.
LEMMA StillNoReply ==
    ASSUME ReplyInv, op # Idle, NEW at, Advance(at)
    PROVE  ReplyOK'
<1>1. reply' = NoReply
  BY DEF ReplyInv, ReplyOK, Advance
<1> QED
  BY <1>1 DEF ReplyOK, AcknowledgedWriteIsRead, RetentionRespected

LEMMA TruncateReply ==
    ASSUME IInv, ReplyInv, TruncateContent
    PROVE  ReplyInv'
<1>1. op # Idle /\ op.at = "store" /\ Advance("storing")
      /\ content' = [content EXCEPT ![op.data] = "torn"]
      /\ UNCHANGED <<versions, faults>>
  BY DEF TruncateContent
<1>2. op' # Idle /\ op'.data = op.data /\ op'.at = "storing"
  BY <1>1, AdvanceType DEF Stages
<1>3. FullUnlessWriting'
  <2> SUFFICES ASSUME faults = 0, NEW p \in Paths, NEW v \in Rows(p),
                      versions[p][v] # op.data
               PROVE  content'[versions[p][v]] = "full"
    BY <1>1, <1>2 DEF FullUnlessWriting, Rows
  <2>1. versions[p][v] \in Contents
    BY DEF IInv, TypeOK
  <2>2. content[versions[p][v]] = "full"
    BY <1>1 DEF ReplyInv, FullUnlessWriting
  <2> QED
    BY <1>1, <2>1, <2>2 DEF IInv, TypeOK
<1>4. WriteOK'
  BY <1>2 DEF WriteOK
<1> QED
  BY <1>1, <1>3, <1>4, StillNoReply DEF ReplyInv

LEMMA StoreReply ==
    ASSUME IInv, ReplyInv, WriteContent
    PROVE  ReplyInv'
<1>1. op # Idle /\ op.at = "storing" /\ Advance("stored")
      /\ content' = [content EXCEPT ![op.data] = "full"]
      /\ UNCHANGED <<versions, faults>>
  BY DEF WriteContent
<1>2. op' # Idle /\ op'.data = op.data /\ op'.at = "stored"
  BY <1>1, AdvanceType DEF Stages
<1>3. FullUnlessWriting'
  <2> SUFFICES ASSUME faults = 0, NEW p \in Paths, NEW v \in Rows(p)
               PROVE  content'[versions[p][v]] = "full"
    BY <1>1 DEF FullUnlessWriting, Rows
  <2>1. versions[p][v] \in Contents
    BY DEF IInv, TypeOK
  <2>2. content[versions[p][v]] = "full" \/ versions[p][v] = op.data
    BY <1>1 DEF ReplyInv, FullUnlessWriting
  <2> QED
    BY <1>1, <2>1, <2>2 DEF IInv, TypeOK
<1>4. WriteOK'
  BY <1>2 DEF WriteOK
<1> QED
  BY <1>1, <1>3, <1>4, StillNoReply DEF ReplyInv

\* A row may be added or replaced when its content is there in full.
LEMMA RowReply ==
    ASSUME IInv, ReplyInv, op # Idle, op.at = "stored",
           versions' = WithRow(op.path, op.version, op.data),
           UNCHANGED <<content, faults>>,
           NEW at \in {"finish", "point"}, Advance(at),
           op.kind = "write" => at = "point" /\ IsNextVersion(op.version, op.path)
    PROVE  ReplyInv'
<1>1. PICK p \in Paths, d \in Contents, v \in 1 .. MaxVersion :
         p = op.path /\ d = op.data /\ v = op.version
  BY OpTyped
<1>2. /\ op' # Idle /\ op'.kind = op.kind /\ op'.path = p /\ op'.data = d
      /\ op'.version = v /\ op'.at = at
  BY <1>1, AdvanceType DEF Stages
<1>3. versions' = WithRow(p, v, d)
  BY <1>1
<1>4. /\ DOMAIN versions' = Paths
      /\ Rows(p)' = Rows(p) \cup {v}
      /\ \A r \in Rows(p)' : versions'[p][r] = IF r = v THEN d ELSE versions[p][r]
      /\ \A q \in Paths \ {p} : versions'[q] = versions[q] /\ Rows(q)' = Rows(q)
  BY <1>1, <1>3, WithRowEffect DEF IInv
<1>5. content[d] = "full"
  BY <1>1 DEF IInv, OpOK
<1>6. FullUnlessWriting'
  <2> SUFFICES ASSUME faults = 0, NEW q \in Paths, NEW r \in Rows(q)'
               PROVE  content[versions'[q][r]] = "full"
    BY DEF FullUnlessWriting
  <2>1. \A s \in Rows(q) : content[versions[q][s]] = "full"
    BY DEF ReplyInv, FullUnlessWriting
  <2>2. CASE q = p /\ r = v
    BY <1>4, <1>5, <2>2
  <2>3. CASE ~(q = p /\ r = v)
    BY <1>4, <2>1, <2>3
  <2> QED
    BY <2>2, <2>3
<1>7. WriteOK'
  <2> SUFFICES ASSUME op.kind = "write"
               PROVE  /\ v \in Rows(p)' /\ \A r \in Rows(p)' : r <= v
                      /\ versions'[p][v] = d
    BY <1>2, <1>5 DEF WriteOK
  <2>1. \A r \in Rows(p) : r < v /\ r \in Int
    BY <1>1 DEF IsNextVersion, IInv, TypeOK
  <2> QED
    BY <1>1, <1>4, <2>1
<1> QED
  BY <1>6, <1>7, StillNoReply DEF ReplyInv

LEMMA InsertReply ==
    ASSUME IInv, ReplyInv, InsertVersion
    PROVE  ReplyInv'
<1>1. op # Idle /\ op.at = "stored" /\ op.kind \in {"create", "write"}
      /\ UNCHANGED <<content, faults>>
  BY DEF InsertVersion
<1>2. CASE op.version \in Rows(op.path)
  <2>1. op' = Idle /\ reply' = Refused(op.kind, op.path) /\ UNCHANGED versions
    BY <1>2 DEF InsertVersion, Answer
  <2>2. FullUnlessWriting'
    BY <1>1, <2>1 DEF ReplyInv, FullUnlessWriting, Rows
  <2>3. WriteOK'
    BY <2>1 DEF WriteOK
  <2>4. ReplyOK'
    BY <2>1 DEF ReplyOK, Refused, AcknowledgedWriteIsRead, RetentionRespected
  <2> QED
    BY <2>2, <2>3, <2>4 DEF ReplyInv
<1>3. CASE op.version \notin Rows(op.path)
  <2>1. versions' = WithRow(op.path, op.version, op.data)
        /\ Advance(IF op.kind = "create" THEN "finish" ELSE "point")
    BY <1>3 DEF InsertVersion
  <2>2. op.kind = "write" => IsNextVersion(op.version, op.path)
    BY <1>1 DEF IInv, OpOK
  <2>3. CASE op.kind = "create"
    BY <1>1, <2>1, <2>3, RowReply
  <2>4. CASE op.kind = "write"
    BY <1>1, <2>1, <2>2, <2>4, RowReply
  <2> QED
    BY <1>1, <2>3, <2>4
<1> QED
  BY <1>2, <1>3

LEMMA UpdateReply ==
    ASSUME IInv, ReplyInv, UpdateVersion
    PROVE  ReplyInv'
<1>1. op # Idle /\ op.at = "stored" /\ op.kind = "overwrite" /\ Advance("finish")
      /\ UNCHANGED <<content, faults>>
  BY DEF UpdateVersion
<1>2. CASE op.version \in Rows(op.path)
  <2>1. versions' = WithRow(op.path, op.version, op.data)
    BY <1>2 DEF UpdateVersion
  <2> QED
    BY <1>1, <2>1, RowReply
<1>3. CASE op.version \notin Rows(op.path)
  <2>1. UNCHANGED versions
    BY <1>3 DEF UpdateVersion
  <2>2. op' # Idle /\ op'.kind = op.kind /\ op'.at = "finish"
    BY <1>1, AdvanceType DEF Stages
  <2>3. FullUnlessWriting'
    BY <1>1, <2>1 DEF ReplyInv, FullUnlessWriting, Rows
  <2>4. WriteOK'
    BY <1>1, <2>2 DEF WriteOK
  <2> QED
    BY <1>1, <2>3, <2>4, StillNoReply DEF ReplyInv
<1> QED
  BY <1>2, <1>3

LEMMA PointReply ==
    ASSUME IInv, ReplyInv, PointToVersion
    PROVE  ReplyInv'
<1>1. op # Idle /\ op.at = "point" /\ Advance("prune") /\ op.kind = "write"
      /\ UNCHANGED <<versions, content, config, faults>>
  BY DEF PointToVersion, IInv, OpOK
<1>2. PICK p \in Paths, d \in Contents, v \in 1 .. MaxVersion :
         p = op.path /\ d = op.data /\ v = op.version
  BY <1>1, OpTyped
<1>3. /\ op' # Idle /\ op'.kind = op.kind /\ op'.path = p /\ op'.data = d
      /\ op'.version = v /\ op'.at = "prune"
  BY <1>1, <1>2, AdvanceType DEF Stages
<1>4. FullUnlessWriting'
  BY <1>1 DEF ReplyInv, FullUnlessWriting, Rows
<1>5. /\ v \in Rows(p) /\ \A r \in Rows(p) : r <= v
      /\ versions[p][v] = d /\ content[d] = "full"
  BY <1>1, <1>2 DEF ReplyInv, WriteOK
<1>6. Rows(p)' = Rows(p)
  BY <1>1 DEF Rows
<1>7. WriteOK'
  BY <1>1, <1>3, <1>5, <1>6 DEF WriteOK
<1> QED
  BY <1>1, <1>4, <1>7, StillNoReply DEF ReplyInv

\* Pruning leaves the newest row, which is the one written, and the limit respected.
LEMMA PruneReply ==
    ASSUME IInv, ReplyInv, PruneVersions
    PROVE  ReplyInv'
<1>1. op # Idle /\ op.at = "prune" /\ Advance("finish") /\ op.kind = "write"
      /\ UNCHANGED <<content, config, faults>>
  BY DEF PruneVersions, IInv, OpOK
<1>2. PICK p \in Paths, d \in Contents, v \in 1 .. MaxVersion :
         p = op.path /\ d = op.data /\ v = op.version
  BY <1>1, OpTyped
<1>3. /\ op' # Idle /\ op'.kind = op.kind /\ op'.path = p /\ op'.data = d
      /\ op'.version = v /\ op'.at = "finish"
  BY <1>1, <1>2, AdvanceType DEF Stages
<1>4. /\ v \in Rows(p) /\ \A r \in Rows(p) : r <= v
      /\ versions[p][v] = d /\ content[d] = "full"
  BY <1>1, <1>2 DEF ReplyInv, WriteOK
<1>5. ASSUME /\ \A q \in Paths : Rows(q)' \subseteq Rows(q)
                                 /\ \A r \in Rows(q)' : versions'[q][r] = versions[q][r]
             /\ v \in Rows(p)'
             /\ max_versions > 0 => Cardinality(Rows(p)') <= max_versions
      PROVE  ReplyInv'
  <2>1. FullUnlessWriting'
    BY <1>1, <1>5 DEF ReplyInv, FullUnlessWriting
  <2>2. WriteOK'
    <3>1. max_versions' = max_versions
      BY <1>1 DEF config
    <3> QED
      BY <1>1, <1>3, <1>4, <1>5, <3>1 DEF WriteOK
  <2> QED
    BY <1>1, <2>1, <2>2, StillNoReply DEF ReplyInv
<1>6. CASE max_versions > 0 /\ Cardinality(Rows(p)) > max_versions
  <2>1. PICK kept \in SUBSET Rows(p) :
           /\ Cardinality(kept) = max_versions
           /\ \A k \in kept, r \in Rows(p) \ kept : r < k
           /\ versions' = [versions EXCEPT ![p] = [r \in kept |-> versions[p][r]]]
    BY <1>2, <1>6 DEF PruneVersions
  <2>2. kept # {}
    BY <1>6, <2>1, FS_EmptySet
  <2>3. v \in kept
    BY <1>4, <2>1, <2>2 DEF IInv, TypeOK
  <2>4. /\ Rows(p)' = kept
        /\ \A r \in kept : versions'[p][r] = versions[p][r]
        /\ \A q \in Paths \ {p} : versions'[q] = versions[q] /\ Rows(q)' = Rows(q)
    BY <2>1 DEF Rows, IInv, TypeOK
  <2>5. max_versions \in Nat
    BY LsfsAssumption DEF IInv, TypeOK
  <2> QED
    BY <1>5, <2>1, <2>3, <2>4, <2>5
<1>7. CASE ~(max_versions > 0 /\ Cardinality(Rows(p)) > max_versions)
  <2>1. UNCHANGED versions
    BY <1>2, <1>7 DEF PruneVersions
  <2>2. \A q \in Paths : Rows(q)' = Rows(q)
    BY <2>1 DEF Rows
  <2>3. max_versions \in Nat /\ Cardinality(Rows(p)) \in Nat
    BY LsfsAssumption, RowsFinite DEF IInv, TypeOK
  <2> QED
    BY <1>4, <1>5, <1>7, <2>1, <2>2, <2>3
<1> QED
  BY <1>6, <1>7

\* The reply to a write that went through all its stages is true when it is sent.
LEMMA FinishReply ==
    ASSUME IInv, ReplyInv, Finish
    PROVE  ReplyInv'
<1>1. op # Idle /\ op.at = "finish" /\ op' = Idle /\ reply' = Done(op.kind, op.path, op.data)
      /\ UNCHANGED <<versions, content, config, faults>>
  BY DEF Finish, Answer
<1>2. PICK p \in Paths, d \in Contents, v \in 1 .. MaxVersion :
         p = op.path /\ d = op.data /\ v = op.version
  BY <1>1, OpTyped
<1>3. FullUnlessWriting'
  BY <1>1 DEF ReplyInv, FullUnlessWriting, Rows
<1>4. WriteOK'
  BY <1>1 DEF WriteOK
<1>5. ReplyOK'
  <2>1. reply'.kind = op.kind /\ reply'.path = p /\ reply'.data = d
    BY <1>1, <1>2 DEF Done
  <2>2. CASE op.kind # "write"
    BY <1>1, <2>1, <2>2 DEF ReplyOK, AcknowledgedWriteIsRead, RetentionRespected
  <2>3. CASE op.kind = "write"
    <3>1. /\ v \in Rows(p) /\ \A r \in Rows(p) : r <= v
          /\ versions[p][v] = d /\ content[d] = "full"
          /\ max_versions > 0 => Cardinality(Rows(p)) <= max_versions
      BY <1>1, <1>2, <2>3 DEF ReplyInv, WriteOK
    <3>2. ReadResult(p) = d
      BY <3>1, ReadNewest DEF IInv
    <3>3. Rows(p)' = Rows(p) /\ max_versions' = max_versions
      BY <1>1 DEF Rows, config
    <3>4. ReadResult(p)' = ReadResult(p)
      BY <1>1 DEF ReadResult, Newest, Rows
    <3>5. AcknowledgedWriteIsRead'
      BY <2>1, <3>2, <3>4 DEF AcknowledgedWriteIsRead
    <3>6. RetentionRespected'
      BY <2>1, <3>1, <3>3 DEF RetentionRespected
    <3> QED
      BY <1>1, <3>5, <3>6 DEF ReplyOK
  <2> QED
    BY <2>2, <2>3
<1> QED
  BY <1>3, <1>4, <1>5 DEF ReplyInv

LEMMA NextReplyInv == IInv /\ ReplyInv /\ [Next]_vars => ReplyInv'
<1> SUFFICES ASSUME IInv, ReplyInv, [Next]_vars PROVE ReplyInv'
  OBVIOUS
<1>1. ASSUME NEW p \in Paths, NEW d \in Contents,
             CreateFile(p, d) \/ WriteMissing(p, d) \/ WriteVersion(p, d) \/ WriteInPlace(p, d)
      PROVE  ReplyInv'
  <2>1. CASE CreateFile(p, d) \/ WriteVersion(p, d) \/ WriteInPlace(p, d)
    <3>1. op = Idle /\ op'.at = "store" /\ reply' = NoReply
          /\ UNCHANGED <<versions, content, faults>>
      BY <2>1 DEF CreateFile, WriteVersion, WriteInPlace, Begin
    <3> QED
      BY <3>1, TakeStep
  <2>2. CASE WriteMissing(p, d)
    BY <2>2, QuietStep DEF WriteMissing, Answer, Refused, Acknowledges
  <2> QED
    BY <1>1, <2>1, <2>2
<1>2. ASSUME NEW p \in Paths, CreateDir(p) \/ Delete(p) \/ Share(p)
      PROVE  ReplyInv'
  <2>1. op = Idle /\ op' = Idle /\ UNCHANGED <<versions, content, faults>>
    BY <1>2 DEF CreateDir, Delete, Share, Answer
  <2>2. reply'.kind \in {"create_dir", "delete", "share"}
    BY <1>2 DEF CreateDir, Delete, Share, Answer, Refused, Done
  <2> QED
    BY <2>1, <2>2, QuietStep DEF Acknowledges
<1>3. ASSUME NEW p \in Paths, NEW v \in 1 .. MaxVersion, Rollback(p, v)
      PROVE  ReplyInv'
  <2>1. op = Idle /\ op' = Idle /\ UNCHANGED <<versions, content, faults>>
    BY <1>3 DEF Rollback, Answer
  <2>2. reply'.kind = "rollback"
    BY <1>3 DEF Rollback, Answer, Refused
  <2> QED
    BY <2>1, <2>2, QuietStep DEF Acknowledges
<1>4. ASSUME NEW auto \in BOOLEAN, NEW max \in RetentionLimits, UpdateConfig(auto, max)
      PROVE  ReplyInv'
  BY <1>4, QuietStep DEF UpdateConfig, Acknowledges
<1>5. CASE Step
  BY <1>5, TruncateReply, StoreReply, InsertReply, UpdateReply, PointReply, PruneReply,
     FinishReply DEF Step
<1>6. CASE Fail
  <2>1. op' = Idle /\ ~Acknowledges(reply') /\ UNCHANGED <<versions, content>>
    BY <1>6 DEF Fail, Answer, Refused, Acknowledges
  <2>2. faults' # 0
    BY <1>6 DEF Fail, IInv, TypeOK
  <2> QED
    BY <2>1, <2>2, QuietStep
<1>7. CASE Crash
  <2>1. op' = Idle /\ ~Acknowledges(reply') /\ UNCHANGED <<versions, content>>
    BY <1>7 DEF Crash, Acknowledges
  <2>2. faults' # 0
    BY <1>7 DEF Crash, IInv, TypeOK
  <2> QED
    BY <2>1, <2>2, QuietStep
<1>8. CASE UNCHANGED vars
  <2>1. FullUnlessWriting' /\ WriteOK'
    BY <1>8 DEF vars, ReplyInv, FullUnlessWriting, WriteOK, Rows
  <2>2. ReplyOK'
    BY <1>8 DEF vars, ReplyInv, ReplyOK, AcknowledgedWriteIsRead, RetentionRespected,
       ReadResult, Newest, Rows
  <2> QED
    BY <2>1, <2>2 DEF ReplyInv
<1> QED
  BY <1>1, <1>2, <1>3, <1>4, <1>5, <1>6, <1>7, <1>8 DEF Next

\* What replies promise, with the state of the current syscall that it rests on.
THEOREM ReplyInvariance == Spec => []ReplyInv
  BY InitReplyInv, NextReplyInv, Invariance, PTL DEF Spec

\* For any paths, contents that files share and retention limits: between syscalls, and
\* as long as nothing has failed, every recorded version is there in full.
THEOREM EveryVersionReadable == Spec => []RecordedContentReadable
<1>1. IInv /\ ReplyInv => RecordedContentReadable
  <2> SUFFICES ASSUME IInv, ReplyInv, faults = 0, op = Idle,
                      NEW p \in Paths, NEW v \in Rows(p)
               PROVE  ReadVersionResult(p, v) = versions[p][v]
    BY DEF RecordedContentReadable
  <2>1. content[versions[p][v]] = "full"
    BY DEF ReplyInv, FullUnlessWriting
  <2> QED
    BY <2>1 DEF ReadVersionResult
<1> QED
  BY <1>1, Invariance, ReplyInvariance, PTL

\* An acknowledged write is what the next read returns, after any earlier faults.
THEOREM WriteIsRead == Spec => []AcknowledgedWriteIsRead
<1>1. ReplyInv => AcknowledgedWriteIsRead
  BY DEF ReplyInv, ReplyOK
<1> QED
  BY <1>1, ReplyInvariance, PTL

\* After an acknowledged write no more versions are kept than the limit, whatever
\* number of them earlier configurations and crashes had left.
THEOREM LimitRespected == Spec => []RetentionRespected
<1>1. ReplyInv => RetentionRespected
  BY DEF ReplyInv, ReplyOK
<1> QED
  BY <1>1, ReplyInvariance, PTL

=============================================================================
