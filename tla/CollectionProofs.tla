-------------------------- MODULE CollectionProofs --------------------------
(***************************************************************************)
(* Theorems about Collection for every value of its constants: the types,  *)
(* the files that the manifest lists, and the ids that are given out; then *)
(* what open rebuilds after a death, and what callers see of a collection. *)
(* The last two follow one id at a time, through the lines of the WAL and  *)
(* through the operations.                                                 *)
(***************************************************************************)
EXTENDS Collection, FiniteSetTheorems, TLAPS

(* What an operation in progress knows about the counters it will use.     *)
Counters ==
    /\ pc # "down" => next_id \in 1 .. MaxId + 1
    /\ pc = "supersede" => next_id <= MaxId /\ pending # Absent
    /\ pc = "archiving" => next_id >= 2 /\ pending # Absent
    /\ pc \in {"archiving", "grouping"} => due < MaxDue /\ seg_seq + due < MaxSeg
    /\ pc \in {"rename_wal", "write_manifest", "cleanup", "reset_wal"} => seg_seq \in SegNos
    /\ pc \in Recovering => due = 0 /\ before # Absent
    /\ seg_seq + due <= MaxSeg
    /\ pc = "replay" => file >= 1

(* The ids still to handle are there to be handled.                        *)
TodoThere ==
    /\ pc \in {"supersede", "forgetting"} => todo \subseteq LiveIn(docs) \cup LiveIn(archive)
    /\ pc = "touching" => todo \subseteq Held(docs)

TypeInv == TypeOK /\ Counters /\ TodoThere

-----------------------------------------------------------------------------
(* The operators that actions are built from keep the types.               *)

LEMMA ClosedType ==
    ASSUME NEW m \in Map, NEW i \in Ids, m[i] # Absent
    PROVE  Closed(m, i) \in Map
BY DEF Closed, Map, Record

LEMMA HitType ==
    ASSUME NEW m \in Map, NEW i \in Ids, m[i] # Absent
    PROVE  Hit(m, i) \in Map
BY ConstantsAssumption DEF Hit, Map, Record

LEMMA NewRecordType ==
    ASSUME NEW s \in Subjects \cup {NoSubject}, NEW tag \in BOOLEAN, NEW src \in SUBSET Ids
    PROVE  NewRecord(s, tag, src) \in Record
BY ConstantsAssumption DEF NewRecord, Record

LEMMA LineTypes ==
    ASSUME NEW i \in Ids
    PROVE  /\ \A r \in Record, a \in BOOLEAN : RememberLine(i, r, a) \in Line
           /\ ForgetLine(i) \in Line /\ TouchLine(i) \in Line
           /\ HardDeleteLine(i) \in Line /\ ArchiveLine(i) \in Line
BY DEF RememberLine, ForgetLine, TouchLine, HardDeleteLine, ArchiveLine, Line

LEMMA WrittenType ==
    ASSUME NEW w \in Seq(Line), NEW l \in Line
    PROVE  Written(w, l) \in Seq(Line)
BY DEF Written

LEMMA IndexType ==
    ASSUME NEW sub \in [Subjects -> SUBSET Ids], NEW r \in Record, NEW i \in Ids
    PROVE  /\ Indexed(sub, r, i) \in [Subjects -> SUBSET Ids]
           /\ Unindexed(sub, r, i) \in [Subjects -> SUBSET Ids]
BY DEF Indexed, Unindexed, Record

(* The effects that an operation shares with the replay of its line.       *)
Maps == docs \in Map /\ archive \in Map /\ subjects \in [Subjects -> SUBSET Ids]

LEMMA CloseFirstType ==
    ASSUME Maps, NEW i \in Ids, CloseFirst(i)
    PROVE  docs' \in Map /\ archive' \in Map
BY ClosedType DEF CloseFirst, Maps

LEMMA DropFirstType ==
    ASSUME Maps, NEW i \in Ids, DropFirst(i)
    PROVE  Maps'
<1>1. CASE docs[i] # Absent
  <2>1. docs[i] \in Record
    BY <1>1 DEF Maps, Map
  <2>2. docs' = [docs EXCEPT ![i] = Absent] /\ archive' = archive
        /\ subjects' = Unindexed(subjects, docs[i], i)
    BY <1>1 DEF DropFirst
  <2>3. subjects' \in [Subjects -> SUBSET Ids]
    BY <2>1, <2>2, IndexType DEF Maps
  <2> QED
    BY <2>2, <2>3 DEF Maps, Map
<1>2. CASE docs[i] = Absent
  <2>1. archive[i] \in Record
    BY <1>2 DEF Maps, Map, DropFirst
  <2>2. docs' = docs /\ archive' = [archive EXCEPT ![i] = Absent]
        /\ subjects' = Unindexed(subjects, archive[i], i)
    BY <1>2 DEF DropFirst
  <2>3. subjects' \in [Subjects -> SUBSET Ids]
    BY <2>1, <2>2, IndexType DEF Maps
  <2> QED
    BY <2>2, <2>3 DEF Maps, Map
<1> QED
  BY <1>1, <1>2

LEMMA MoveToArchiveType ==
    ASSUME Maps, NEW i \in Ids, MoveToArchive(i)
    PROVE  docs' \in Map /\ archive' \in Map
BY DEF MoveToArchive, Maps, Map

LEMMA InsertType ==
    ASSUME Maps, NEW i \in Ids, NEW r \in Record, NEW arch \in BOOLEAN, Insert(i, r, arch)
    PROVE  Maps'
BY IndexType DEF Insert, Maps, Map

-----------------------------------------------------------------------------
(* Type correctness: TypeInv is inductive.                                 *)

LEMMA Bounds ==
    /\ MaxId \in Nat /\ MaxId >= 1 /\ MaxHits \in Nat /\ MaxSeg \in Nat /\ MaxDue \in Nat
    /\ Tags \subseteq BOOLEAN /\ ImportRows \subseteq Record
    /\ Absent \notin Record /\ Absent \notin Snapshot
BY ConstantsAssumption

LEMMA InitTypeInv == Init => TypeInv
<1> SUFFICES ASSUME Init PROVE TypeInv
  OBVIOUS
<1>1. MemoryOK
  BY Bounds DEF Init, MemoryOK, Map, Empty
<1>2. HolderOK
  <2>1. pc \in Running /\ due \in 0 .. MaxDue /\ file \in Nat /\ pos \in Nat
    BY Bounds DEF Init, Running
  <2>2. keep \in BOOLEAN
    BY DEF Init
  <2> QED
    BY <2>1, <2>2 DEF Init, HolderOK
<1>3. DiskOK
  BY Bounds DEF Init, DiskOK, Manifest
<1>4. HistoryOK
  BY DEF Init, HistoryOK
<1>5. Counters
  BY Bounds DEF Init, Counters, Recovering
<1>6. TodoThere
  BY DEF Init, TodoThere
<1> QED
  BY <1>1, <1>2, <1>3, <1>4, <1>5, <1>6 DEF TypeInv, TypeOK

(* The calls that only take the lock.                                      *)
LEMMA BeginTypeInv ==
    ASSUME TypeInv,
           \/ \E s \in Subjects \cup {NoSubject}, tag \in Tags : BeginRemember(s, tag)
           \/ \E picked \in SUBSET Ids : BeginRecall(picked)
           \/ \E s \in Subjects : BeginForgetSubject(s)
           \/ \E group \in SUBSET Ids : BeginGroup(group)
    PROVE  TypeInv'
<1> USE DEF TypeInv, TypeOK, memory, replay, files, ghosts
<1>1. ASSUME NEW s \in Subjects \cup {NoSubject}, NEW tag \in Tags, BeginRemember(s, tag)
      PROVE  TypeInv'
  <2> USE <1>1 DEF BeginRemember, Enter
  <2>1. pending' \in Record /\ pending' # Absent
    BY NewRecordType, Bounds
  <2>2. MemoryOK'
    BY DEF MemoryOK
  <2>3. HolderOK'
    BY <2>1 DEF HolderOK, Running, LiveVersions, MemoryOK
  <2>4. DiskOK' /\ HistoryOK'
    BY DEF DiskOK, HistoryOK
  <2>5. Counters'
    BY <2>1 DEF Counters, Recovering
  <2>6. TodoThere'
    BY DEF TodoThere, LiveVersions, LiveIn, Held
  <2> QED
    BY <2>2, <2>3, <2>4, <2>5, <2>6
<1>2. ASSUME NEW picked \in SUBSET Ids, BeginRecall(picked)
      PROVE  TypeInv'
  <2> USE <1>2 DEF BeginRecall, Enter
  <2>1. MemoryOK' /\ HolderOK'
    BY DEF MemoryOK, HolderOK, Running
  <2>2. DiskOK' /\ HistoryOK'
    BY DEF DiskOK, HistoryOK
  <2>3. Counters'
    BY DEF Counters, Recovering
  <2>4. TodoThere'
    BY DEF TodoThere, LiveVersions, LiveIn, Held
  <2> QED
    BY <2>1, <2>2, <2>3, <2>4
<1>3. ASSUME NEW s \in Subjects, BeginForgetSubject(s)
      PROVE  TypeInv'
  <2> USE <1>3 DEF BeginForgetSubject, Enter
  <2>1. MemoryOK' /\ HolderOK'
    BY DEF MemoryOK, HolderOK, Running, LiveVersions
  <2>2. DiskOK' /\ HistoryOK'
    BY DEF DiskOK, HistoryOK
  <2>3. Counters'
    BY DEF Counters, Recovering
  <2>4. TodoThere'
    BY DEF TodoThere, LiveVersions, LiveIn, Held
  <2> QED
    BY <2>1, <2>2, <2>3, <2>4
<1>4. ASSUME NEW group \in SUBSET Ids, BeginGroup(group)
      PROVE  TypeInv'
  <2> USE <1>4 DEF BeginGroup, Enter
  <2>1. pending' \in Record /\ pending' # Absent
    BY NewRecordType, Bounds
  <2>2. next_id \in 1 .. MaxId /\ next_id' = next_id + 1
    BY Bounds DEF Counters, MemoryOK
  <2>3. MemoryOK'
    BY <2>2, Bounds DEF MemoryOK
  <2>4. HolderOK'
    BY <2>1 DEF HolderOK, Running
  <2>5. DiskOK' /\ HistoryOK'
    BY DEF DiskOK, HistoryOK
  <2>6. due < MaxDue /\ seg_seq + due < MaxSeg
    BY DEF Counters
  <2>7. seg_seq \in Nat /\ due \in Nat
    BY Bounds DEF MemoryOK, HolderOK
  <2>8. pc' = "archiving" /\ due' = due /\ seg_seq' = seg_seq
    OBVIOUS
  <2> HIDE <1>4 DEF BeginGroup, Enter, TypeInv, TypeOK
  <2>9. Counters'
    BY <2>1, <2>2, <2>6, <2>7, <2>8, Bounds DEF Counters, Recovering
  <2>10. TodoThere'
    BY <2>8 DEF TodoThere
  <2> QED
    BY <2>3, <2>4, <2>5, <2>9, <2>10 DEF TypeInv, TypeOK
<1> QED
  BY <1>1, <1>2, <1>3, <1>4

(* The steps that append a line.                                           *)
LEMMA CloseVersionTypeInv ==
    ASSUME TypeInv, NEW i \in Ids, CloseVersion(i)
    PROVE  TypeInv'
<1> USE DEF TypeInv, TypeOK, replay, files, ghosts
<1> USE DEF CloseVersion
<1>1. MemoryOK'
  <2>1. i \in todo /\ MemoryOK /\ UNCHANGED <<subjects, next_id, seg_seq>>
    OBVIOUS
  <2>2. CASE i \in LiveIn(docs)
    BY <2>1, <2>2, ClosedType DEF MemoryOK, LiveIn, Held
  <2>3. CASE i \notin LiveIn(docs)
    <3>1. i \in LiveIn(archive)
      BY <2>3 DEF TodoThere
    <3> QED
      BY <2>1, <2>3, <3>1, ClosedType DEF MemoryOK, LiveIn, Held
  <2> QED
    BY <2>2, <2>3
<1>2. HolderOK' /\ HistoryOK'
  BY DEF HolderOK, HistoryOK
<1>3. DiskOK'
  BY WrittenType, LineTypes DEF DiskOK, Log
<1>4. Counters'
  BY DEF Counters, Recovering
<1>5. TodoThere'
  <2>1. \A j \in Ids \ {i} : docs'[j] = docs[j] /\ archive'[j] = archive[j]
    BY DEF Closed, MemoryOK, Map
  <2> QED
    BY <2>1 DEF TodoThere, LiveIn, Held
<1> QED
  BY <1>1, <1>2, <1>3, <1>4, <1>5

LEMMA CommitRememberTypeInv ==
    ASSUME TypeInv, CommitRemember
    PROVE  TypeInv'
<1> USE DEF TypeInv, TypeOK, replay, files
<1>1. next_id \in Ids /\ pending \in Record
  BY Bounds DEF CommitRemember, Counters, HolderOK, MemoryOK, Ids
<1>2. MemoryOK'
  <2>1. Maps'
    BY <1>1, InsertType DEF CommitRemember, MemoryOK, Maps
  <2> QED
    BY <1>1, <2>1, Bounds DEF CommitRemember, MemoryOK, Maps, Ids
<1>3. HolderOK'
  BY DEF CommitRemember, HolderOK, Running
<1>4. DiskOK'
  <2>1. RememberLine(next_id, pending, FALSE) \in Line
    BY <1>1, LineTypes
  <2> QED
    BY <2>1, WrittenType DEF CommitRemember, DiskOK, Log
<1>5. HistoryOK'
  BY <1>1 DEF CommitRemember, HistoryOK
<1>6. Counters'
  BY <1>1, Bounds DEF CommitRemember, Counters, Recovering, Ids, MemoryOK
<1>7. TodoThere'
  BY DEF TodoThere, CommitRemember
<1> QED
  BY <1>2, <1>3, <1>4, <1>5, <1>6, <1>7

LEMMA TouchTypeInv ==
    ASSUME TypeInv, NEW i \in Ids, Touch(i)
    PROVE  TypeInv'
<1> USE DEF TypeInv, TypeOK, replay, files, ghosts
<1>1. docs[i] # Absent
  BY DEF TodoThere, Touch, Held
<1>2. MemoryOK'
  BY <1>1, HitType DEF MemoryOK, Touch
<1>3. HolderOK' /\ HistoryOK'
  BY DEF HolderOK, HistoryOK, Touch, Running
<1>4. DiskOK'
  BY WrittenType, LineTypes DEF DiskOK, Log, Touch
<1>5. Counters'
  BY DEF Counters, Recovering, Touch
<1>6. TodoThere'
  <2>1. \A j \in Ids \ {i} : docs'[j] = docs[j]
    BY DEF Touch, Hit, MemoryOK, Map
  <2> QED
    BY <2>1 DEF TodoThere, Touch, Held
<1> QED
  BY <1>2, <1>3, <1>4, <1>5, <1>6

LEMMA ForgetTypeInv ==
    ASSUME TypeInv, NEW i \in Ids, Forget(i)
    PROVE  TypeInv'
<1> USE DEF TypeInv, TypeOK, replay, files, ghosts, holder, Forget, Enter
<1>1. MemoryOK'
  BY CloseFirstType DEF MemoryOK, Maps
<1>2. HolderOK' /\ HistoryOK'
  BY DEF HolderOK, HistoryOK
<1>3. DiskOK'
  BY WrittenType, LineTypes DEF DiskOK, Log
<1>4. Counters'
  BY DEF Counters, Recovering
<1>5. TodoThere'
  BY DEF TodoThere
<1> QED
  BY <1>1, <1>2, <1>3, <1>4, <1>5

LEMMA HardDeleteTypeInv ==
    ASSUME TypeInv, NEW i \in Ids, HardDelete(i)
    PROVE  TypeInv'
<1> USE DEF TypeInv, TypeOK, replay, files, holder, HardDelete, Enter
<1>1. MemoryOK'
  BY DropFirstType DEF MemoryOK, Maps
<1>2. HolderOK' /\ HistoryOK'
  BY DEF HolderOK, HistoryOK
<1>3. DiskOK'
  BY WrittenType, LineTypes DEF DiskOK, Log
<1>4. Counters'
  BY DEF Counters, Recovering
<1>5. TodoThere'
  BY DEF TodoThere
<1> QED
  BY <1>1, <1>2, <1>3, <1>4, <1>5

LEMMA ImportRowTypeInv ==
    ASSUME TypeInv, NEW i \in Ids, NEW r \in ImportRows, NEW arch \in BOOLEAN,
           ImportRow(i, r, arch)
    PROVE  TypeInv'
<1> USE DEF TypeInv, TypeOK, replay, files, holder
<1>1. r \in Record
  BY Bounds
<1>2. next_id' \in 0 .. MaxId + 1 /\ next_id' \in 1 .. MaxId + 1
  BY Bounds DEF ImportRow, NextIdAfterImport, Larger, Ids, MemoryOK, Enter, Counters
<1>3. MemoryOK'
  BY <1>1, <1>2, InsertType DEF ImportRow, MemoryOK, Maps
<1>4. HolderOK' /\ HistoryOK'
  BY DEF ImportRow, HolderOK, HistoryOK
<1>5. DiskOK'
  BY <1>1, WrittenType, LineTypes DEF ImportRow, DiskOK, Log
<1>6. Counters'
  BY <1>2 DEF ImportRow, Enter, Counters, Recovering
<1>7. TodoThere'
  BY DEF TodoThere, ImportRow, Enter
<1> QED
  BY <1>3, <1>4, <1>5, <1>6, <1>7

LEMMA ArchiveMemberTypeInv ==
    ASSUME TypeInv, NEW i \in Ids, ArchiveMember(i)
    PROVE  TypeInv'
<1> USE DEF TypeInv, TypeOK, replay, files, ghosts, ArchiveMember
<1>1. MemoryOK'
  BY MoveToArchiveType DEF MemoryOK, Maps
<1>2. HolderOK' /\ HistoryOK'
  BY DEF HolderOK, HistoryOK
<1>3. DiskOK'
  BY WrittenType, LineTypes DEF DiskOK, Log
<1>4. Counters' /\ TodoThere'
  BY DEF Counters, Recovering, TodoThere
<1> QED
  BY <1>1, <1>2, <1>3, <1>4

LEMMA CommitSummaryTypeInv ==
    ASSUME TypeInv, CommitSummary
    PROVE  TypeInv'
<1> USE DEF TypeInv, TypeOK, replay, files
<1>1. next_id - 1 \in Ids /\ pending \in Record
  BY Bounds DEF CommitSummary, Counters, HolderOK, MemoryOK, Ids
<1>2. MemoryOK'
  BY <1>1 DEF CommitSummary, MemoryOK, Map
<1>3. HolderOK'
  BY DEF CommitSummary, HolderOK, Running
<1>4. DiskOK'
  BY <1>1, WrittenType, LineTypes DEF CommitSummary, DiskOK, Log
<1>5. HistoryOK'
  BY <1>1 DEF CommitSummary, HistoryOK
<1>6. Counters' /\ TodoThere'
  BY DEF CommitSummary, Counters, Recovering, TodoThere
<1> QED
  BY <1>2, <1>3, <1>4, <1>5, <1>6

(* Ends of operations, and compact, which writes no line.                  *)
LEMMA EndTypeInv ==
    ASSUME TypeInv, EndForgetSubject \/ EndConsolidate
    PROVE  TypeInv'
<1> USE DEF TypeInv, TypeOK, memory, replay, files, ghosts
<1>1. CASE EndForgetSubject
  <2>1. MemoryOK' /\ HolderOK'
    BY <1>1 DEF EndForgetSubject, MemoryOK, HolderOK, Running
  <2>2. DiskOK' /\ HistoryOK'
    BY <1>1 DEF EndForgetSubject, DiskOK, HistoryOK
  <2>3. Counters' /\ TodoThere'
    BY <1>1 DEF EndForgetSubject, Counters, Recovering, TodoThere
  <2> QED
    BY <2>1, <2>2, <2>3
<1>2. CASE EndConsolidate
  <2>1. due < MaxDue /\ seg_seq + due < MaxSeg /\ due' = due + 1 /\ seg_seq' = seg_seq
    BY <1>2 DEF EndConsolidate, Counters
  <2>2. MemoryOK' /\ HolderOK'
    BY <1>2, <2>1, Bounds DEF EndConsolidate, MemoryOK, HolderOK, Running
  <2>3. DiskOK' /\ HistoryOK'
    BY <1>2 DEF EndConsolidate, DiskOK, HistoryOK
  <2>4. Counters' /\ TodoThere'
    BY <1>2, <2>1, Bounds
       DEF EndConsolidate, Counters, Recovering, TodoThere, MemoryOK, HolderOK
  <2> QED
    BY <2>2, <2>3, <2>4
<1> QED
  BY <1>1, <1>2

LEMMA CompactTypeInv ==
    ASSUME TypeInv, NEW expired \in SUBSET Ids, Compact(expired)
    PROVE  TypeInv'
<1> USE DEF TypeInv, TypeOK, holder, replay, files
<1>1. due < MaxDue /\ seg_seq + due < MaxSeg /\ due' = due + 1 /\ seg_seq' = seg_seq
      /\ next_id' = next_id /\ pc' = pc /\ pc = "idle"
  BY DEF Compact, Enter
<1>2. MemoryOK'
  BY DEF Compact, MemoryOK, Map
<1>3. HolderOK'
  BY <1>1, Bounds DEF Compact, HolderOK
<1>4. CompactDocs(expired) \in SUBSET Ids /\ CompactArchive(expired) \in SUBSET Ids
  BY DEF CompactDocs, CompactArchive, Held
<1>5. DiskOK' /\ HistoryOK'
  BY <1>4 DEF Compact, DiskOK, HistoryOK
<1>6. Counters' /\ TodoThere'
  BY <1>1, Bounds DEF Counters, Recovering, TodoThere, MemoryOK, HolderOK
<1> QED
  BY <1>2, <1>3, <1>5, <1>6

(* The steps of a checkpoint.                                              *)
LEMMA WriteSegmentTypeInv ==
    ASSUME TypeInv, pc = "idle", WriteSegment,
           due' \in 0 .. MaxDue, seg_seq + 1 + due' <= MaxSeg,
           pc' \in {"rename_wal", "write_manifest"}, keep' \in BOOLEAN
    PROVE  TypeInv'
<1> USE DEF TypeInv, TypeOK, replay, ghosts
<1>1. seg_seq' = seg_seq + 1 /\ seg_seq' \in SegNos /\ seg_seq' + due' <= MaxSeg
  <2>1. seg_seq \in Nat /\ due' \in Nat /\ seg_seq' = seg_seq + 1
    BY Bounds DEF WriteSegment, MemoryOK
  <2>2. \A a, d \in Nat : a + 1 + d <= MaxSeg => a + 1 \in 1 .. MaxSeg
    BY Bounds
  <2>3. seg_seq + 1 \in SegNos
    BY <2>1, <2>2 DEF SegNos
  <2> QED
    BY <2>1, <2>3
<1>2. MemoryOK'
  BY <1>1, Bounds DEF WriteSegment, MemoryOK, SegNos
<1>3. HolderOK'
  BY DEF WriteSegment, HolderOK, Running
<1>4. DiskOK'
  <2>1. Rows \in Snapshot
    BY DEF Rows, Snapshot, MemoryOK
  <2> QED
    BY <2>1 DEF WriteSegment, NewSegs, DiskOK
<1>5. HistoryOK'
  BY DEF WriteSegment, HistoryOK
<1>6. Counters' /\ TodoThere'
  BY <1>1 DEF WriteSegment, Counters, Recovering, TodoThere
<1> QED
  BY <1>2, <1>3, <1>4, <1>5, <1>6

LEMMA CheckpointTypeInv ==
    ASSUME TypeInv,
           \/ BeginCheckpoint \/ BeginCheckpointKeepWal
           \/ RenameWal \/ WriteManifest \/ CleanupSegments \/ ResetWal
    PROVE  TypeInv'
<1> USE DEF TypeInv, TypeOK, memory, replay, ghosts
<1>1. CASE BeginCheckpoint
  <2>1. due' \in 0 .. MaxDue /\ seg_seq + 1 + due' <= MaxSeg
    BY <1>1, Bounds DEF BeginCheckpoint, HolderOK, MemoryOK, Counters
  <2> QED
    BY <1>1, <2>1, WriteSegmentTypeInv DEF BeginCheckpoint
<1>2. CASE BeginCheckpointKeepWal
  <2>1. due' \in 0 .. MaxDue /\ seg_seq + 1 + due' <= MaxSeg
    BY <1>2, Bounds DEF BeginCheckpointKeepWal, HolderOK, MemoryOK
  <2> QED
    BY <1>2, <2>1, WriteSegmentTypeInv DEF BeginCheckpointKeepWal
<1>3. CASE RenameWal
  <2>1. MemoryOK' /\ HolderOK' /\ HistoryOK'
    BY <1>3 DEF RenameWal, MemoryOK, HolderOK, HistoryOK, Running
  <2>2. DiskOK'
    <3>1. archives' \in [SegNos -> Seq(Line) \cup {Absent}]
      BY <1>3 DEF RenameWal, WalRenamed, DiskOK
    <3>2. wal' \in Seq(Line)
      BY <1>3 DEF RenameWal
    <3> QED
      BY <1>3, <3>1, <3>2 DEF RenameWal, DiskOK
  <2>3. Counters' /\ TodoThere'
    BY <1>3 DEF RenameWal, Counters, Recovering, TodoThere
  <2> QED
    BY <2>1, <2>2, <2>3
<1>4. CASE WriteManifest
  <2>1. MemoryOK' /\ HolderOK' /\ HistoryOK'
    BY <1>4 DEF WriteManifest, MemoryOK, HolderOK, HistoryOK, Running
  <2>2. manifest' \in Manifest
    BY <1>4 DEF WriteManifest, MemoryOK, DiskOK, Manifest, Counters
  <2>3. DiskOK'
    BY <1>4, <2>2 DEF WriteManifest, DiskOK
  <2>4. Counters' /\ TodoThere'
    BY <1>4 DEF WriteManifest, Counters, Recovering, TodoThere
  <2> QED
    BY <2>1, <2>3, <2>4
<1>5. CASE CleanupSegments
  <2>1. MemoryOK' /\ HolderOK' /\ HistoryOK'
    BY <1>5 DEF CleanupSegments, MemoryOK, HolderOK, HistoryOK, Running
  <2>2. DiskOK'
    BY <1>5 DEF CleanupSegments, DiskOK
  <2>3. Counters' /\ TodoThere'
    BY <1>5 DEF CleanupSegments, Counters, Recovering, TodoThere
  <2> QED
    BY <2>1, <2>2, <2>3
<1>6. CASE ResetWal
  <2>1. keep' \in BOOLEAN
    BY <1>6 DEF ResetWal
  <2>2. MemoryOK' /\ HolderOK'
    BY <1>6, <2>1 DEF ResetWal, MemoryOK, HolderOK, Running
  <2>3. DiskOK' /\ HistoryOK'
    BY <1>6 DEF ResetWal, WalTruncated, DiskOK, HistoryOK, files
  <2>4. Counters' /\ TodoThere'
    BY <1>6 DEF ResetWal, Counters, Recovering, TodoThere
  <2> QED
    BY <2>2, <2>3, <2>4
<1> QED
  BY <1>1, <1>2, <1>3, <1>4, <1>5, <1>6

-----------------------------------------------------------------------------
(* Death and recovery.                                                     *)

LEMMA DieTypeInv ==
    ASSUME TypeInv, Die
    PROVE  TypeInv'
<1> USE DEF TypeInv, TypeOK, files
<1>1. MemoryOK'
  BY Bounds DEF Die, MemoryOK, Map, Empty
<1>2. HolderOK'
  <2>1. keep' \in BOOLEAN
    BY DEF Die
  <2>2. pc' = "down" /\ todo' = {} /\ pending' = Absent /\ due' = 0 /\ file' = 0 /\ pos' = 0
    BY DEF Die
  <2> QED
    BY <2>1, <2>2, Bounds DEF HolderOK, Recovering
<1>3. DiskOK'
  <2>1. wal' \in Seq(Line)
    <3>1. Torn \in Line
      BY DEF Line
    <3>2. wal' = wal \/ wal' = Written(wal, Torn)
      BY DEF Die, Log
    <3> QED
      BY <3>1, <3>2, WrittenType DEF DiskOK
  <2> QED
    BY <2>1 DEF Die, DiskOK
<1>4. before' \in Snapshot /\ before' # Absent
  <2>1. CASE pc \in Recovering
    BY <2>1, Bounds DEF Die, HistoryOK, Counters
  <2>2. CASE pc \notin Recovering
    BY <2>2, Bounds DEF Die, MemoryOK, Snapshot
  <2> QED
    BY <2>1, <2>2
<1>5. HistoryOK'
  BY <1>4 DEF Die, HistoryOK
<1>6. Counters' /\ TodoThere'
  <2>1. pc' = "down" /\ due' = 0 /\ seg_seq' = 0
    BY DEF Die
  <2> HIDE DEF TypeInv
  <2> QED
    BY <1>4, <2>1, Bounds DEF Counters, TodoThere
<1> QED
  BY <1>1, <1>2, <1>3, <1>5, <1>6

LEMMA LoadSnapshotTypeInv ==
    ASSUME TypeInv, LoadSnapshot
    PROVE  TypeInv'
<1> USE DEF TypeInv, TypeOK, files, ghosts
<1>1. LoadedRows \in Snapshot
  BY DEF LoadSnapshot, LoadedRows, DiskOK, Manifest, SegNos, Snapshot, Map, Empty
<1>2. docs' \in Map /\ archive' \in Map
  BY <1>1 DEF LoadSnapshot, Snapshot
<1>3. MemoryOK'
  BY <1>2, Bounds DEF LoadSnapshot, MemoryOK, SubjectIndex, Held
<1>4. HolderOK' /\ HistoryOK'
  BY DEF LoadSnapshot, HolderOK, HistoryOK, Recovering
<1>5. DiskOK'
  BY DEF LoadSnapshot, DiskOK
<1>6. Counters' /\ TodoThere'
  BY DEF LoadSnapshot, Counters, Recovering, TodoThere
<1> QED
  BY <1>3, <1>4, <1>5, <1>6

LEMMA LogFileType ==
    ASSUME DiskOK, file \in Nat, file >= 1
    PROVE  LogFile \in Seq(Line)
<1>1. CASE file > Len(manifest.wal_archives)
  BY <1>1 DEF LogFile, DiskOK
<1>2. CASE file <= Len(manifest.wal_archives)
  <2>1. manifest.wal_archives[file] \in SegNos
    BY <1>2 DEF DiskOK, Manifest
  <2> QED
    BY <1>2, <2>1 DEF LogFile, DiskOK, Manifest
<1> QED
  BY <1>1, <1>2 DEF DiskOK, Manifest

LEMMA ReplayedType ==
    ASSUME Maps, next_id \in 1 .. MaxId + 1, NEW l \in Line, l # Torn, Replayed(l)
    PROVE  Maps' /\ next_id' \in 1 .. MaxId + 1
<1>1. l.id \in Ids
  BY DEF Line
<1>2. CASE l.op = "remember"
  <2>1. l.row \in Record /\ l.archived \in BOOLEAN
    BY <1>2 DEF Line
  <2>2. Insert(l.id, l.row, l.archived) /\ next_id' = Larger(next_id, l.id + 1)
    BY <1>2 DEF Replayed
  <2>3. Maps'
    BY <1>1, <2>1, <2>2, InsertType
  <2> QED
    BY <1>1, <2>2, <2>3, Bounds DEF Larger, Ids
<1>3. CASE l.op = "forget" /\ CloseFirst(l.id) /\ UNCHANGED <<subjects, next_id>>
  BY <1>1, <1>3, CloseFirstType DEF Maps
<1>4. CASE l.op = "hard_delete" /\ DropFirst(l.id) /\ UNCHANGED next_id
  BY <1>1, <1>4, DropFirstType
<1>5. CASE l.op = "archive" /\ MoveToArchive(l.id) /\ UNCHANGED <<subjects, next_id>>
  BY <1>1, <1>5, MoveToArchiveType DEF Maps
<1>6. CASE UNCHANGED <<docs, archive, subjects, next_id>>
  BY <1>6 DEF Maps
<1>7. CASE /\ docs[l.id] # Absent /\ docs' = Hit(docs, l.id)
           /\ UNCHANGED <<archive, subjects, next_id>>
  BY <1>1, <1>7, HitType DEF Maps
<1>8. CASE archive[l.id] # Absent /\ archive' = Hit(archive, l.id)
           /\ UNCHANGED <<docs, subjects, next_id>>
  BY <1>1, <1>8, HitType DEF Maps
<1> QED
  BY <1>2, <1>3, <1>4, <1>5, <1>6, <1>7, <1>8 DEF Replayed

LEMMA OpenTypeInv ==
    ASSUME TypeInv, Open
    PROVE  TypeInv'
<1> USE DEF TypeInv, TypeOK, files, ghosts
<1>1. CASE LoadSnapshot
  BY <1>1, LoadSnapshotTypeInv
<1>2. CASE ReplayLine
  <2>1. LogFile[pos + 1] \in Line /\ LogFile[pos + 1] # Torn
    <3>1. pos < Len(LogFile) /\ LogFile[pos + 1] # Torn
      BY <1>2 DEF ReplayLine, LogRead
    <3>2. LogFile \in Seq(Line) /\ pos \in Nat
      BY <1>2, LogFileType DEF ReplayLine, Counters, HolderOK
    <3> QED
      BY <3>1, <3>2
  <2>2. next_id \in 1 .. MaxId + 1 /\ Maps
    BY <1>2 DEF ReplayLine, Counters, MemoryOK, Maps
  <2>3. Maps' /\ next_id' \in 1 .. MaxId + 1
    BY <1>2, <2>1, <2>2, ReplayedType DEF ReplayLine
  <2>4. MemoryOK'
    BY <1>2, <2>3, Bounds DEF ReplayLine, MemoryOK, Maps
  <2>5. HolderOK' /\ HistoryOK'
    BY <1>2 DEF ReplayLine, HolderOK, HistoryOK, holder
  <2>6. DiskOK'
    BY <1>2 DEF ReplayLine, DiskOK
  <2>7. Counters' /\ TodoThere'
    BY <1>2, <2>3 DEF ReplayLine, Counters, Recovering, TodoThere, holder
  <2> QED
    BY <2>4, <2>5, <2>6, <2>7
<1>3. CASE NextLog
  <2>1. MemoryOK' /\ HolderOK' /\ HistoryOK'
    BY <1>3 DEF NextLog, MemoryOK, HolderOK, HistoryOK, memory, holder
  <2>2. DiskOK'
    BY <1>3 DEF NextLog, DiskOK
  <2>3. Counters' /\ TodoThere'
    BY <1>3 DEF NextLog, Counters, Recovering, TodoThere, HolderOK, memory, holder
  <2> QED
    BY <2>1, <2>2, <2>3
<1>4. CASE FinishReplay
  <2>1. next_id' \in 1 .. MaxId + 1 /\ seg_seq' \in 0 .. MaxSeg
    <3>1. next_id \in 1 .. MaxId + 1
      BY <1>4 DEF FinishReplay, Counters
    <3>2. manifest.next_id \in 0 .. MaxId + 1 /\ manifest.snapshot \in 0 .. MaxSeg
      BY DEF DiskOK, Manifest
    <3>3. next_id' = Larger(manifest.next_id, next_id) /\ seg_seq' = manifest.snapshot
      BY <1>4 DEF FinishReplay, RecoveredNextId
    <3> HIDE DEF TypeInv
    <3> QED
      BY <3>1, <3>2, <3>3, Bounds DEF Larger
  <2>2. MemoryOK'
    BY <1>4, <2>1, Bounds DEF FinishReplay, MemoryOK
  <2>3. HolderOK' /\ HistoryOK'
    BY <1>4 DEF FinishReplay, HolderOK, HistoryOK, Recovering
  <2>4. DiskOK'
    BY <1>4 DEF FinishReplay, DiskOK
  <2>5. Counters' /\ TodoThere'
    BY <1>4, <2>1, Bounds DEF FinishReplay, Counters, Recovering, TodoThere
  <2> QED
    BY <2>2, <2>3, <2>4, <2>5
<1>5. CASE FinishOpen
  <2>1. MemoryOK' /\ HolderOK'
    BY <1>5 DEF FinishOpen, MemoryOK, HolderOK, Running, memory, replay
  <2>2. DiskOK' /\ HistoryOK'
    BY <1>5 DEF FinishOpen, DiskOK, HistoryOK
  <2>3. Counters' /\ TodoThere'
    BY <1>5 DEF FinishOpen, Counters, Recovering, TodoThere, memory
  <2> QED
    BY <2>1, <2>2, <2>3
<1> QED
  BY <1>1, <1>2, <1>3, <1>4, <1>5 DEF Open

LEMMA NextTypeInv == TypeInv /\ [Next]_vars => TypeInv'
<1> SUFFICES ASSUME TypeInv, [Next]_vars PROVE TypeInv'
  OBVIOUS
<1>1. CASE Call
  BY <1>1, BeginTypeInv, ForgetTypeInv, HardDeleteTypeInv, ImportRowTypeInv, CompactTypeInv,
     CheckpointTypeInv DEF Call
<1>2. CASE Step
  BY <1>2, CloseVersionTypeInv, TouchTypeInv, ArchiveMemberTypeInv, CommitRememberTypeInv,
     CommitSummaryTypeInv, EndTypeInv, CheckpointTypeInv DEF Step
<1>3. CASE Open
  BY <1>3, OpenTypeInv
<1>4. CASE Die
  BY <1>4, DieTypeInv
<1>5. CASE UNCHANGED vars
  BY <1>5 DEF vars, memory, holder, replay, files, ghosts, TypeInv, TypeOK, MemoryOK, HolderOK,
     DiskOK, HistoryOK, Counters, TodoThere
<1> QED
  BY <1>1, <1>2, <1>3, <1>4, <1>5 DEF Next, NoEffect

(* Types, with what each program point needs to keep them.                 *)
THEOREM TypeCorrect == Spec => []TypeInv
BY InitTypeInv, NextTypeInv, PTL DEF Spec

(* Every variable of a collection keeps its type, whatever is called and   *)
(* wherever the process dies.                                              *)
THEOREM TypeCorrectness == Spec => []TypeOK
BY TypeCorrect, PTL DEF TypeInv

-----------------------------------------------------------------------------
(* A checkpoint writes, lists and removes files in such an order that what *)
(* the manifest lists is always on disk.                                   *)

(* Before the manifest lists a file, the checkpoint has written it.        *)
WrittenFirst ==
    /\ pc \in {"rename_wal", "write_manifest"} => segs[seg_seq] # Absent
    /\ pc = "write_manifest" /\ keep => archives[seg_seq] # Absent

FilesInv == ListedFilesExist /\ WrittenFirst

LEMMA InitFilesInv == Init => FilesInv
BY DEF Init, FilesInv, ListedFilesExist, WrittenFirst

(* A step that touches no file and is not on its way to list one.          *)
LEMMA FilesUntouched ==
    ASSUME FilesInv, UNCHANGED files, pc' \notin {"rename_wal", "write_manifest"}
    PROVE  FilesInv'
BY DEF FilesInv, ListedFilesExist, WrittenFirst, files

LEMMA WriteSegmentFiles ==
    ASSUME TypeInv, FilesInv, WriteSegment, seg_seq + 1 \in SegNos,
           pc' = "rename_wal" \/ (pc' = "write_manifest" /\ keep' = FALSE)
    PROVE  FilesInv'
<1>1. Rows # Absent
  BY Bounds DEF Rows, Snapshot, TypeInv, TypeOK, MemoryOK
<1>2. /\ segs \in [SegNos -> Snapshot \cup {Absent}]
      /\ segs' = [segs EXCEPT ![seg_seq + 1] = Rows]
      /\ seg_seq' = seg_seq + 1 /\ UNCHANGED <<archives, manifest>>
  BY DEF WriteSegment, NewSegs, TypeInv, TypeOK, DiskOK
<1>3. ListedFilesExist'
  <2>1. manifest.snapshot \in {0} \cup SegNos
    BY Bounds DEF TypeInv, TypeOK, DiskOK, Manifest, SegNos
  <2> QED
    BY <1>1, <1>2, <2>1 DEF FilesInv, ListedFilesExist
<1>4. WrittenFirst'
  BY <1>1, <1>2 DEF WrittenFirst
<1> QED
  BY <1>3, <1>4 DEF FilesInv

LEMMA NextFilesInv == TypeInv /\ FilesInv /\ [Next]_vars => FilesInv'
<1> SUFFICES ASSUME TypeInv, FilesInv, [Next]_vars PROVE FilesInv'
  OBVIOUS
<1>1. CASE \/ \E s \in Subjects \cup {NoSubject}, tag \in Tags : BeginRemember(s, tag)
           \/ \E picked \in SUBSET Ids : BeginRecall(picked)
           \/ \E i \in Ids : Forget(i) \/ HardDelete(i)
           \/ \E s \in Subjects : BeginForgetSubject(s)
           \/ \E i \in Ids, r \in ImportRows, arch \in BOOLEAN : ImportRow(i, r, arch)
           \/ \E group \in SUBSET Ids : BeginGroup(group)
           \/ \E expired \in SUBSET Ids : Compact(expired)
  <2>1. UNCHANGED files /\ pc' \notin {"rename_wal", "write_manifest"}
    BY <1>1 DEF BeginRemember, BeginRecall, Forget, HardDelete, BeginForgetSubject, ImportRow,
                BeginGroup, Compact, Enter, holder
  <2> QED
    BY <2>1, FilesUntouched
<1>2. CASE BeginCheckpoint \/ BeginCheckpointKeepWal
  <2>1. seg_seq + 1 \in SegNos
    <3>1. seg_seq \in Nat /\ due \in Nat
      BY Bounds DEF TypeInv, TypeOK, MemoryOK, HolderOK
    <3>2. seg_seq + 1 <= MaxSeg
      BY <1>2, <3>1, Bounds DEF BeginCheckpoint, BeginCheckpointKeepWal, TypeInv, Counters
    <3> QED
      BY <3>1, <3>2 DEF SegNos
  <2> QED
    BY <1>2, <2>1, WriteSegmentFiles DEF BeginCheckpoint, BeginCheckpointKeepWal
<1>3. CASE RenameWal
  <2>1. wal # Absent /\ seg_seq \in SegNos
    BY <1>3, ConstantsAssumption DEF RenameWal, TypeInv, TypeOK, DiskOK, Counters
  <2>2. archives' = [archives EXCEPT ![seg_seq] = wal]
        /\ UNCHANGED <<seg_seq, segs, manifest>>
    BY <1>3 DEF RenameWal, WalRenamed, memory
  <2>3. manifest.wal_archives \in Seq(SegNos)
        /\ archives \in [SegNos -> Seq(Line) \cup {Absent}]
    BY DEF TypeInv, TypeOK, DiskOK, Manifest
  <2>4. archives'[seg_seq] # Absent
    BY <2>1, <2>2, <2>3
  <2>5. \A n \in SegNos : archives[n] # Absent => archives'[n] # Absent
    BY <2>1, <2>2, <2>3
  <2>6. ListedFilesExist'
    BY <2>2, <2>3, <2>5 DEF FilesInv, ListedFilesExist
  <2>7. WrittenFirst'
    BY <1>3, <2>2, <2>4 DEF RenameWal, FilesInv, WrittenFirst
  <2> QED
    BY <2>6, <2>7 DEF FilesInv
<1>4. CASE WriteManifest
  <2>1. manifest.wal_archives \in Seq(SegNos) /\ seg_seq \in SegNos
    BY <1>4 DEF WriteManifest, TypeInv, TypeOK, DiskOK, Manifest, Counters
  <2>2. segs[seg_seq] # Absent /\ (keep => archives[seg_seq] # Absent)
    BY <1>4 DEF WriteManifest, FilesInv, WrittenFirst
  <2>3. /\ manifest'.snapshot = seg_seq
        /\ keep => manifest'.wal_archives = Append(manifest.wal_archives, seg_seq)
        /\ ~keep => manifest'.wal_archives = <<>>
        /\ UNCHANGED <<archives, segs>> /\ pc' = "cleanup"
    BY <1>4 DEF WriteManifest
  <2>4. \A k \in DOMAIN manifest'.wal_archives : archives[manifest'.wal_archives[k]] # Absent
    <3>1. CASE keep
      <4> DEFINE wa == manifest.wal_archives
                 wb == manifest'.wal_archives
      <4>1. wa \in Seq(SegNos) /\ wb = Append(wa, seg_seq)
        BY <2>1, <2>3, <3>1
      <4>2. \A k \in DOMAIN wa : archives[wa[k]] # Absent
        BY DEF FilesInv, ListedFilesExist
      <4>3. archives[seg_seq] # Absent
        BY <2>2, <3>1
      <4> HIDE DEF wa, wb
      <4>4. \A k \in DOMAIN wb : (k \in DOMAIN wa /\ wb[k] = wa[k]) \/ wb[k] = seg_seq
        BY <4>1
      <4>5. \A k \in DOMAIN wb : archives[wb[k]] # Absent
        BY <4>2, <4>3, <4>4
      <4> QED
        BY <4>5 DEF wb
    <3>2. CASE ~keep
      BY <2>3, <3>2
    <3> QED
      BY <3>1, <3>2
  <2> QED
    BY <2>2, <2>3, <2>4 DEF FilesInv, ListedFilesExist, WrittenFirst
<1>5. CASE CleanupSegments
  <2>1. manifest.snapshot \in {0} \cup SegNos
    BY Bounds DEF TypeInv, TypeOK, DiskOK, Manifest, SegNos
  <2> QED
    BY <1>5, <2>1 DEF CleanupSegments, FilesInv, ListedFilesExist, WrittenFirst
<1>6. CASE \/ \E i \in Ids : CloseVersion(i) \/ Touch(i) \/ ArchiveMember(i)
           \/ CommitRemember \/ EndForgetSubject \/ CommitSummary \/ EndConsolidate
           \/ ResetWal \/ Open \/ Die
  <2>1. UNCHANGED files /\ pc' \notin {"rename_wal", "write_manifest"}
    BY <1>6 DEF CloseVersion, Touch, ArchiveMember, CommitRemember, EndForgetSubject,
                CommitSummary, EndConsolidate, ResetWal, Open, LoadSnapshot, ReplayLine,
                NextLog, FinishReplay, FinishOpen, Die, holder
  <2> QED
    BY <2>1, FilesUntouched
<1>7. CASE UNCHANGED vars
  BY <1>7 DEF vars, memory, holder, files, FilesInv, ListedFilesExist, WrittenFirst
<1> QED
  BY <1>1, <1>2, <1>3, <1>4, <1>5, <1>6, <1>7 DEF Next, Call, Step, NoEffect

(* Whenever the process dies, what the manifest lists is on disk, so that  *)
(* open never fails for a missing snapshot.                                *)
THEOREM FilesListed == Spec => []ListedFilesExist
<1>1. FilesInv => ListedFilesExist
  BY DEF FilesInv
<1> QED
  BY InitFilesInv, NextFilesInv, TypeCorrect, <1>1, PTL DEF Spec

-----------------------------------------------------------------------------
(* No id is given out twice, whatever is deleted, compacted or imported    *)
(* and wherever the process dies, but between the rename of the WAL and    *)
(* the manifest that lists it. An id that was given out is below the       *)
(* next_id of the manifest, or its Remember line is in the WAL; a          *)
(* checkpoint replaces the second by the first before the WAL is           *)
(* truncated, or listed, and open() takes the maximum of both.             *)

Logged(i, w)   == \E k \in DOMAIN w : w[k].op = "remember" /\ w[k].id = i
Committed      == pc \in {"cleanup", "reset_wal"}
Callable       == pc \in Running \cup {"replayed"}

IssuedKept     == Place # "renamed" =>
                    \A i \in issued : i < manifest.next_id \/ Logged(i, wal)
IssuedBelow    == Callable => \A i \in issued : i < next_id
ReplayedBelow  == pc = "replay" =>
                    /\ file \in 1 .. Len(manifest.wal_archives) + 1
                    /\ pos <= Len(LogFile)
                    /\ file > Len(manifest.wal_archives) =>
                         \A k \in 1 .. pos : wal[k].op = "remember" => wal[k].id < next_id
CommittedNext  == Committed => manifest.next_id = next_id

(* No line of a log is cut short.                                          *)
PlainFile(w)   == \A k \in DOMAIN w : w[k] # Torn
PlainLogs      == /\ PlainFile(wal)
                  /\ \A n \in SegNos : archives[n] # Absent => PlainFile(archives[n])

(* Which checkpoint is under way, and what it has done to the logs.        *)
Keeping ==
    /\ pc = "rename_wal" => keep
    /\ keep => /\ pc \in {"rename_wal", "write_manifest", "cleanup", "reset_wal"}
               /\ pc # "rename_wal" => wal = <<>>
    /\ Committed /\ ~keep => manifest.wal_archives = <<>>
    /\ "checkpoint_keep_wal" \notin Ops => manifest.wal_archives = <<>> /\ keep = FALSE

IdsInv == /\ IssuedKept /\ IssuedBelow /\ ReplayedBelow /\ CommittedNext
          /\ PlainLogs /\ Keeping

(* A checkpoint is not under way.                                          *)
Calling == Running \ {"rename_wal", "write_manifest", "cleanup", "reset_wal"}

LEMMA CallingFacts ==
    ASSUME NEW c \in Calling
    PROVE  /\ c \in Running /\ c \notin Recovering /\ c # "replay" /\ c # "replayed"
           /\ c \notin {"rename_wal", "write_manifest", "cleanup", "reset_wal"}
BY DEF Calling, Running, Recovering

(* What TypeInv says of the variables that the proof is about.             *)
LEMMA IdTypes ==
    ASSUME TypeInv
    PROVE  /\ issued \in SUBSET Nat
           /\ next_id \in Nat /\ manifest.next_id \in Nat /\ pos \in Nat /\ file \in Nat
           /\ wal \in Seq(Line) /\ manifest.wal_archives \in Seq(SegNos)
           /\ archives \in [SegNos -> Seq(Line) \cup {Absent}] /\ keep \in BOOLEAN
BY Bounds DEF TypeInv, TypeOK, MemoryOK, HolderOK, DiskOK, HistoryOK, Manifest, Ids

LEMMA InitIdsInv == Init => IdsInv
BY DEF Init, IdsInv, IssuedKept, IssuedBelow, ReplayedBelow, PlainLogs, PlainFile, Keeping,
       CommittedNext, Committed

LEMMA LoggedAppend ==
    ASSUME NEW w \in Seq(Line), NEW l \in Line, NEW i
    PROVE  /\ Logged(i, w) => Logged(i, Append(w, l))
           /\ l.op = "remember" /\ l.id = i => Logged(i, Append(w, l))
<1>1. /\ Len(Append(w, l)) = Len(w) + 1 /\ Append(w, l)[Len(w) + 1] = l
      /\ \A k \in 1 .. Len(w) : Append(w, l)[k] = w[k]
      /\ DOMAIN Append(w, l) = 1 .. Len(w) + 1 /\ DOMAIN w = 1 .. Len(w) /\ Len(w) \in Nat
  OBVIOUS
<1>2. ASSUME Logged(i, w) PROVE Logged(i, Append(w, l))
  <2>1. PICK k \in 1 .. Len(w) : w[k].op = "remember" /\ w[k].id = i
    BY <1>1, <1>2 DEF Logged
  <2>2. k \in 1 .. Len(w) + 1 /\ Append(w, l)[k] = w[k]
    BY <1>1, <2>1
  <2> QED
    BY <1>1, <2>1, <2>2 DEF Logged
<1>3. ASSUME l.op = "remember", l.id = i PROVE Logged(i, Append(w, l))
  <2>1. Len(w) + 1 \in 1 .. Len(w) + 1
    BY <1>1
  <2> QED
    BY <1>1, <1>3, <2>1 DEF Logged
<1> QED
  BY <1>2, <1>3

(* A step that appends one whole line; if the line is a Remember line, the *)
(* step issues its id.                                                     *)
LEMMA AppendIdsInv ==
    ASSUME TypeInv, IdsInv, NEW l \in Line, l # Torn, Log(l),
           UNCHANGED files, UNCHANGED keep, pc \in Calling, pc' \in Calling,
           next_id' \in Nat, next_id' >= next_id,
           \A j \in issued' : \/ j \in issued
                              \/ l.op = "remember" /\ l.id = j /\ j \in Nat /\ j < next_id'
    PROVE  IdsInv'
<1>1. wal' = Append(wal, l)
  <2>1. wal # <<>> => Len(wal) \in DOMAIN wal
    BY IdTypes
  <2> QED
    BY <2>1 DEF Log, Written, EndsTorn, IdsInv, PlainLogs, PlainFile
<1>2. IssuedKept'
  <2>1. UNCHANGED manifest /\ Place # "renamed"
    BY DEF files, Place, Calling, Running
  <2>2. ASSUME NEW i \in issued', i \in issued
        PROVE  i < manifest.next_id \/ Logged(i, Append(wal, l))
    BY <2>1, <2>2, IdTypes, LoggedAppend DEF IdsInv, IssuedKept
  <2>3. ASSUME NEW i \in issued', i \notin issued PROVE Logged(i, Append(wal, l))
    BY <2>3, IdTypes, LoggedAppend
  <2> QED
    BY <1>1, <2>1, <2>2, <2>3 DEF IssuedKept
<1>3. IssuedBelow'
  <2>1. \A i \in issued : i \in Nat /\ i < next_id
    BY IdTypes, CallingFacts DEF IdsInv, IssuedBelow, Callable
  <2> QED
    BY <2>1, IdTypes DEF IssuedBelow
<1>4. PlainLogs'
  BY <1>1, IdTypes DEF IdsInv, PlainLogs, PlainFile, files
<1>5. ReplayedBelow' /\ CommittedNext' /\ Keeping'
  BY CallingFacts DEF IdsInv, ReplayedBelow, CommittedNext, Committed, Keeping, files
<1> QED
  BY <1>2, <1>3, <1>4, <1>5 DEF IdsInv

(* A step that writes nothing and issues no id.                            *)
LEMMA QuietIdsInv ==
    ASSUME TypeInv, IdsInv, UNCHANGED <<wal, archives, manifest>>, UNCHANGED issued, pc \in Calling,
           \/ pc' \in Calling /\ keep' = keep
           \/ pc' = "write_manifest" /\ keep' = FALSE
           \/ pc' = "rename_wal" /\ keep' = TRUE /\ "checkpoint_keep_wal" \in Ops,
           next_id' \in Nat, next_id' >= next_id
    PROVE  IdsInv'
<1>1. IssuedBelow'
  <2>1. \A i \in issued : i \in Nat /\ i < next_id
    BY IdTypes, CallingFacts DEF IdsInv, IssuedBelow, Callable
  <2> QED
    BY <2>1, IdTypes DEF IssuedBelow
<1>2. IssuedKept' /\ PlainLogs'
  <2>1. Place # "renamed"
    BY DEF Place, Calling, Running
  <2> QED
    BY <2>1 DEF IdsInv, IssuedKept, PlainLogs
<1>3. ReplayedBelow' /\ CommittedNext' /\ Keeping'
  BY CallingFacts DEF IdsInv, ReplayedBelow, CommittedNext, Committed, Keeping
<1> QED
  BY <1>1, <1>2, <1>3 DEF IdsInv

(* The calls, all but the checkpoints.                                     *)
LEMMA LineFacts ==
    ASSUME NEW i \in Ids
    PROVE  /\ \A r, a : RememberLine(i, r, a) # Torn
           /\ ForgetLine(i) # Torn /\ TouchLine(i) # Torn
           /\ HardDeleteLine(i) # Torn /\ ArchiveLine(i) # Torn
           /\ \A r, a : RememberLine(i, r, a).op = "remember" /\ RememberLine(i, r, a).id = i
BY DEF RememberLine, ForgetLine, TouchLine, HardDeleteLine, ArchiveLine, Torn

LEMMA CallIdsInv ==
    ASSUME TypeInv, IdsInv,
           \/ \E s \in Subjects \cup {NoSubject}, tag \in Tags : BeginRemember(s, tag)
           \/ \E picked \in SUBSET Ids : BeginRecall(picked)
           \/ \E i \in Ids : Forget(i) \/ HardDelete(i)
           \/ \E s \in Subjects : BeginForgetSubject(s)
           \/ \E i \in Ids, r \in ImportRows, arch \in BOOLEAN : ImportRow(i, r, arch)
           \/ \E group \in SUBSET Ids : BeginGroup(group)
           \/ \E expired \in SUBSET Ids : Compact(expired)
    PROVE  IdsInv'
<1>1. ASSUME NEW s \in Subjects \cup {NoSubject}, NEW tag \in Tags, BeginRemember(s, tag)
      PROVE  IdsInv'
  <2>1. /\ UNCHANGED wal /\ UNCHANGED files /\ UNCHANGED issued /\ UNCHANGED keep
        /\ pc \in Calling /\ pc' \in Calling
    BY <1>1 DEF BeginRemember, Enter, memory, ghosts, Calling, Running
  <2>2. next_id' \in Nat /\ next_id' >= next_id
    BY <1>1, IdTypes DEF BeginRemember, memory
  <2> QED
    BY <2>1, <2>2, QuietIdsInv DEF files
<1>2. ASSUME NEW picked \in SUBSET Ids, BeginRecall(picked) PROVE IdsInv'
  <2>1. /\ UNCHANGED wal /\ UNCHANGED files /\ UNCHANGED issued /\ UNCHANGED keep
        /\ pc \in Calling /\ pc' \in Calling
    BY <1>2 DEF BeginRecall, Enter, memory, ghosts, Calling, Running
  <2>2. next_id' \in Nat /\ next_id' >= next_id
    BY <1>2, IdTypes DEF BeginRecall, memory
  <2> QED
    BY <2>1, <2>2, QuietIdsInv DEF files
<1>3. ASSUME NEW s \in Subjects, BeginForgetSubject(s) PROVE IdsInv'
  <2>1. /\ UNCHANGED wal /\ UNCHANGED files /\ UNCHANGED issued /\ UNCHANGED keep
        /\ pc \in Calling /\ pc' \in Calling
    BY <1>3 DEF BeginForgetSubject, Enter, memory, ghosts, Calling, Running
  <2>2. next_id' \in Nat /\ next_id' >= next_id
    BY <1>3, IdTypes DEF BeginForgetSubject, memory
  <2> QED
    BY <2>1, <2>2, QuietIdsInv DEF files
<1>4. ASSUME NEW group \in SUBSET Ids, BeginGroup(group) PROVE IdsInv'
  <2>1. /\ UNCHANGED wal /\ UNCHANGED files /\ UNCHANGED issued /\ UNCHANGED keep
        /\ pc \in Calling /\ pc' \in Calling
    BY <1>4 DEF BeginGroup, Enter, ghosts, Calling, Running
  <2>2. next_id' \in Nat /\ next_id' >= next_id
    BY <1>4, IdTypes DEF BeginGroup
  <2> QED
    BY <2>1, <2>2, QuietIdsInv DEF files
<1>5. ASSUME NEW expired \in SUBSET Ids, Compact(expired) PROVE IdsInv'
  <2>1. /\ UNCHANGED wal /\ UNCHANGED files /\ UNCHANGED issued /\ UNCHANGED keep
        /\ pc \in Calling /\ pc' \in Calling
    BY <1>5 DEF Compact, Enter, holder, Calling, Running
  <2>2. next_id' \in Nat /\ next_id' >= next_id
    BY <1>5, IdTypes DEF Compact
  <2> QED
    BY <2>1, <2>2, QuietIdsInv DEF files
<1>6. ASSUME NEW i \in Ids, Forget(i) PROVE IdsInv'
  BY <1>6, AppendIdsInv, IdTypes, LineTypes, LineFacts
     DEF Forget, Enter, holder, ghosts, Calling, Running
<1>7. ASSUME NEW i \in Ids, HardDelete(i) PROVE IdsInv'
  BY <1>7, AppendIdsInv, IdTypes, LineTypes, LineFacts
     DEF HardDelete, Enter, holder, Calling, Running
<1>8. ASSUME NEW i \in Ids, NEW r \in ImportRows, NEW arch \in BOOLEAN, ImportRow(i, r, arch)
      PROVE  IdsInv'
  <2>1. i \in Nat /\ next_id' \in Nat /\ next_id' >= next_id /\ i < next_id'
    BY <1>8, IdTypes, Bounds DEF ImportRow, NextIdAfterImport, Larger, Ids
  <2>2. RememberLine(i, r, arch) \in Line
    BY LineTypes, Bounds
  <2>3. \A j \in issued' : j \in issued \/ j = i
    BY <1>8 DEF ImportRow
  <2>4. /\ Log(RememberLine(i, r, arch)) /\ UNCHANGED files /\ UNCHANGED keep
        /\ pc \in Calling /\ pc' \in Calling
    BY <1>8 DEF ImportRow, Enter, holder, Calling, Running
  <2> QED
    BY <2>1, <2>2, <2>3, <2>4, AppendIdsInv, LineFacts
<1> QED
  BY <1>1, <1>2, <1>3, <1>4, <1>5, <1>6, <1>7, <1>8

(* The steps of the holder of the lock, all but those of a checkpoint.     *)
LEMMA HolderIdsInv ==
    ASSUME TypeInv, IdsInv,
           \/ \E i \in Ids : CloseVersion(i) \/ Touch(i) \/ ArchiveMember(i)
           \/ CommitRemember \/ EndForgetSubject \/ CommitSummary \/ EndConsolidate
    PROVE  IdsInv'
<1>1. ASSUME NEW i \in Ids, CloseVersion(i) PROVE IdsInv'
  BY <1>1, AppendIdsInv, IdTypes, LineTypes, LineFacts DEF CloseVersion, ghosts, Calling, Running
<1>2. ASSUME NEW i \in Ids, Touch(i) PROVE IdsInv'
  BY <1>2, AppendIdsInv, IdTypes, LineTypes, LineFacts DEF Touch, ghosts, Calling, Running
<1>3. ASSUME NEW i \in Ids, ArchiveMember(i) PROVE IdsInv'
  BY <1>3, AppendIdsInv, IdTypes, LineTypes, LineFacts DEF ArchiveMember, ghosts, Calling, Running
<1>4. CASE CommitRemember
  <2>1. next_id \in Ids /\ pending \in Record
    BY <1>4, Bounds DEF CommitRemember, TypeInv, TypeOK, Counters, HolderOK, MemoryOK, Ids
  <2>2. next_id \in Nat /\ next_id' \in Nat /\ next_id' >= next_id /\ next_id < next_id'
    BY <1>4, IdTypes DEF CommitRemember
  <2>3. /\ Log(RememberLine(next_id, pending, FALSE)) /\ UNCHANGED files /\ UNCHANGED keep
        /\ \A j \in issued' : j \in issued \/ j = next_id
        /\ pc \in Calling /\ pc' \in Calling
    BY <1>4 DEF CommitRemember, Calling, Running
  <2>4. RememberLine(next_id, pending, FALSE) \in Line
    BY <2>1, LineTypes
  <2> DEFINE l == RememberLine(next_id, pending, FALSE)
  <2>5. l \in Line /\ l # Torn /\ l.op = "remember" /\ l.id = next_id /\ Log(l)
    <3>1. l \in Line /\ Log(l)
      BY <2>3, <2>4
    <3>2. l # Torn /\ l.op = "remember" /\ l.id = next_id
      BY DEF RememberLine, Torn
    <3> QED
      BY <3>1, <3>2
  <2> HIDE DEF l
  <2>6. \A j \in issued' : \/ j \in issued
                           \/ l.op = "remember" /\ l.id = j /\ j \in Nat /\ j < next_id'
    BY <2>2, <2>3, <2>5
  <2>7. UNCHANGED files /\ UNCHANGED keep
    BY <2>3
  <2> QED
    BY <2>2, <2>3, <2>5, <2>6, <2>7, AppendIdsInv
<1>5. CASE CommitSummary
  <2>1. next_id - 1 \in Ids /\ pending \in Record
    BY <1>5, Bounds DEF CommitSummary, TypeInv, TypeOK, Counters, HolderOK, MemoryOK, Ids
  <2>2. next_id - 1 \in Nat /\ next_id' \in Nat /\ next_id' >= next_id /\ next_id - 1 < next_id'
    BY <1>5, <2>1, IdTypes DEF CommitSummary, Ids
  <2>3. /\ Log(RememberLine(next_id - 1, pending, FALSE)) /\ UNCHANGED files /\ UNCHANGED keep
        /\ \A j \in issued' : j \in issued \/ j = next_id - 1
        /\ pc \in Calling /\ pc' \in Calling
    BY <1>5 DEF CommitSummary, Calling, Running
  <2>4. RememberLine(next_id - 1, pending, FALSE) \in Line
    BY <2>1, LineTypes
  <2> DEFINE l == RememberLine(next_id - 1, pending, FALSE)
  <2>5. l \in Line /\ l # Torn /\ l.op = "remember" /\ l.id = next_id - 1 /\ Log(l)
    <3>1. l \in Line /\ Log(l)
      BY <2>3, <2>4
    <3>2. l # Torn /\ l.op = "remember" /\ l.id = next_id - 1
      BY DEF RememberLine, Torn
    <3> QED
      BY <3>1, <3>2
  <2> HIDE DEF l
  <2>6. \A j \in issued' : \/ j \in issued
                           \/ l.op = "remember" /\ l.id = j /\ j \in Nat /\ j < next_id'
    BY <2>2, <2>3, <2>5
  <2>7. UNCHANGED files /\ UNCHANGED keep
    BY <2>3
  <2> QED
    BY <2>2, <2>3, <2>5, <2>6, <2>7, AppendIdsInv
<1>6. CASE EndForgetSubject
  <2>1. /\ UNCHANGED wal /\ UNCHANGED files /\ UNCHANGED issued /\ UNCHANGED keep
        /\ pc \in Calling /\ pc' \in Calling
    BY <1>6 DEF EndForgetSubject, memory, ghosts, Calling, Running
  <2>2. next_id' \in Nat /\ next_id' >= next_id
    BY <1>6, IdTypes DEF EndForgetSubject, memory
  <2> QED
    BY <2>1, <2>2, QuietIdsInv DEF files
<1>7. CASE EndConsolidate
  <2>1. /\ UNCHANGED wal /\ UNCHANGED files /\ UNCHANGED issued /\ UNCHANGED keep
        /\ pc \in Calling /\ pc' \in Calling
    BY <1>7 DEF EndConsolidate, memory, ghosts, Calling, Running
  <2>2. next_id' \in Nat /\ next_id' >= next_id
    BY <1>7, IdTypes DEF EndConsolidate, memory
  <2> QED
    BY <2>1, <2>2, QuietIdsInv DEF files
<1> QED
  BY <1>1, <1>2, <1>3, <1>4, <1>5, <1>6, <1>7

(* A checkpoint: the manifest takes over from the WAL before it is truncated. *)
LEMMA CheckpointIdsInv ==
    ASSUME TypeInv, IdsInv,
           \/ BeginCheckpoint \/ BeginCheckpointKeepWal \/ RenameWal \/ WriteManifest
           \/ CleanupSegments \/ ResetWal
    PROVE  IdsInv'
<1>1. CASE BeginCheckpoint \/ BeginCheckpointKeepWal
  <2>1. /\ UNCHANGED <<wal, archives, manifest>> /\ UNCHANGED issued /\ pc \in Calling
        /\ \/ pc' = "write_manifest" /\ keep' = FALSE
           \/ pc' = "rename_wal" /\ keep' = TRUE /\ "checkpoint_keep_wal" \in Ops
    BY <1>1 DEF BeginCheckpoint, BeginCheckpointKeepWal, WriteSegment, ghosts, Calling, Running
  <2>2. next_id' \in Nat /\ next_id' >= next_id
    BY <1>1, IdTypes DEF BeginCheckpoint, BeginCheckpointKeepWal, WriteSegment
  <2> QED
    BY <2>1, <2>2, QuietIdsInv
<1>2. CASE WriteManifest
  <2>1. /\ manifest'.next_id = next_id /\ (~keep => manifest'.wal_archives = <<>>)
        /\ UNCHANGED <<next_id, keep, wal, archives, issued>> /\ pc' = "cleanup" /\ Callable
        /\ pc = "write_manifest"
    BY <1>2 DEF WriteManifest, memory, ghosts, Callable, Running
  <2>2. \A i \in issued : i < next_id
    BY <2>1 DEF IdsInv, IssuedBelow
  <2>3. IssuedKept' /\ IssuedBelow'
    BY <2>1, <2>2 DEF IssuedKept, IssuedBelow
  <2>4. ReplayedBelow' /\ PlainLogs' /\ CommittedNext'
    BY <2>1 DEF IdsInv, ReplayedBelow, PlainLogs, CommittedNext
  <2>5. Keeping'
    BY <2>1, IdTypes DEF IdsInv, Keeping
  <2> QED
    BY <2>3, <2>4, <2>5 DEF IdsInv
<1>3. CASE CleanupSegments
  <2>1. /\ UNCHANGED <<manifest, next_id, keep, wal, archives, issued>>
        /\ pc = "cleanup" /\ pc' = "reset_wal"
    BY <1>3 DEF CleanupSegments, memory, ghosts
  <2>2. IssuedKept' /\ IssuedBelow' /\ ReplayedBelow' /\ CommittedNext'
    BY <2>1 DEF IdsInv, IssuedKept, IssuedBelow, ReplayedBelow, CommittedNext, Committed, Callable,
                Running, Place
  <2>3. PlainLogs' /\ Keeping'
    BY <2>1 DEF IdsInv, PlainLogs, Keeping, Committed
  <2> QED
    BY <2>2, <2>3 DEF IdsInv
<1>4. CASE ResetWal
  <2>1. /\ wal' = <<>> /\ keep' = FALSE /\ pc' = "idle"
        /\ UNCHANGED <<manifest, archives, next_id, issued>>
    BY <1>4 DEF ResetWal, WalTruncated, memory, files
  <2>2. Callable /\ manifest.next_id = next_id
    BY <1>4 DEF ResetWal, Callable, Running, IdsInv, CommittedNext, Committed
  <2>3. IssuedKept' /\ IssuedBelow'
    BY <2>1, <2>2 DEF IdsInv, IssuedKept, IssuedBelow
  <2>4. ReplayedBelow' /\ PlainLogs' /\ CommittedNext' /\ Keeping'
    BY <2>1 DEF IdsInv, ReplayedBelow, PlainLogs, PlainFile, CommittedNext, Committed, Keeping
  <2> QED
    BY <2>3, <2>4 DEF IdsInv
<1>5. CASE RenameWal
  <2>1. /\ wal' = <<>> /\ archives' = [archives EXCEPT ![seg_seq] = wal]
        /\ pc = "rename_wal" /\ pc' = "write_manifest"
        /\ UNCHANGED <<keep, next_id, manifest, issued>>
    BY <1>5 DEF RenameWal, WalRenamed, memory, ghosts
  <2>2. keep /\ Callable
    BY <2>1 DEF IdsInv, Keeping, Callable, Running
  <2>3. IssuedKept' /\ IssuedBelow' /\ ReplayedBelow' /\ CommittedNext' /\ Keeping'
    BY <2>1, <2>2 DEF IdsInv, IssuedKept, IssuedBelow, ReplayedBelow, CommittedNext, Committed, Keeping,
                      Place
  <2>4. PlainLogs'
    BY <2>1, IdTypes DEF IdsInv, PlainLogs, PlainFile
  <2> QED
    BY <2>3, <2>4 DEF IdsInv
<1> QED
  BY <1>1, <1>2, <1>3, <1>4, <1>5

(* Recovery: every Remember line raises next_id above its id.              *)
LEMMA ReplayedRaises ==
    ASSUME next_id \in Nat, NEW l \in Line, l # Torn, Replayed(l)
    PROVE  next_id' \in Nat /\ next_id' >= next_id /\ (l.op = "remember" => l.id < next_id')
<1>1. CASE l.op = "remember"
  <2>1. l.id \in Nat /\ next_id' = Larger(next_id, l.id + 1)
    BY <1>1 DEF Replayed, Line, Ids, Torn
  <2> QED
    BY <2>1 DEF Larger
<1>2. CASE l.op # "remember"
  BY <1>2 DEF Replayed
<1> QED
  BY <1>1, <1>2

(* The log that open() reads holds whole lines only, so that it reads all. *)
LEMMA LogFacts ==
    ASSUME TypeInv, IdsInv, pc = "replay"
    PROVE  /\ LogFile \in Seq(Line) /\ PlainFile(LogFile) /\ Len(LogFile) \in Nat
           /\ file > Len(manifest.wal_archives) => LogFile = wal
           /\ LogRead <=> pos = Len(LogFile)
           /\ ~LogRead => pos + 1 \in DOMAIN LogFile
           /\ file \in 1 .. Len(manifest.wal_archives) + 1 /\ pos \in 0 .. Len(LogFile)
<1> USE IdTypes
<1>1. file \in 1 .. Len(manifest.wal_archives) + 1 /\ pos \in Nat /\ pos <= Len(LogFile)
  BY DEF IdsInv, ReplayedBelow
<1>2. LogFile \in Seq(Line) /\ PlainFile(LogFile)
  <2>1. CASE file > Len(manifest.wal_archives)
    BY <2>1 DEF LogFile, IdsInv, PlainLogs
  <2>2. CASE ~(file > Len(manifest.wal_archives))
    <3>1. file \in DOMAIN manifest.wal_archives
      BY <1>1, <2>2
    <3>2. manifest.wal_archives[file] \in SegNos
      BY <3>1
    <3> DEFINE w == archives[manifest.wal_archives[file]]
    <3>3. CASE w = Absent
      BY <2>2, <3>3 DEF LogFile, PlainFile
    <3>4. CASE w # Absent
      <4>1. LogFile = w
        BY <2>2, <3>4 DEF LogFile
      <4>2. w \in Seq(Line) /\ PlainFile(w)
        BY <3>2, <3>4 DEF IdsInv, PlainLogs
      <4> QED
        BY <4>1, <4>2
    <3> QED
      BY <3>3, <3>4
  <2> QED
    BY <2>1, <2>2
<1>3. Len(LogFile) \in Nat /\ DOMAIN LogFile = 1 .. Len(LogFile)
  BY <1>2
<1>4. file > Len(manifest.wal_archives) => LogFile = wal
  BY DEF LogFile
<1>5. pos < Len(LogFile) => pos + 1 \in DOMAIN LogFile /\ LogFile[pos + 1] # Torn
  BY <1>1, <1>2, <1>3 DEF PlainFile
<1>6. pos < Len(LogFile) \/ pos = Len(LogFile)
  <2>1. \A m, n \in Nat : m <= n => m < n \/ m = n
    OBVIOUS
  <2> QED
    BY <1>1, <1>3, <2>1
<1>7. pos = Len(LogFile) => ~(pos < Len(LogFile))
  BY <1>1, <1>3
<1>8. LogRead <=> pos = Len(LogFile)
  BY <1>5, <1>6, <1>7 DEF LogRead
<1>9. pos \in 0 .. Len(LogFile)
  BY <1>1, <1>3
<1> QED
  BY <1>1, <1>2, <1>3, <1>4, <1>5, <1>6, <1>8, <1>9

LEMMA OpenIdsInv ==
    ASSUME TypeInv, IdsInv, Open
    PROVE  IdsInv'
<1> USE IdTypes
<1>1. CASE LoadSnapshot
  <2>1. /\ pc = "down" /\ pc' = "replay" /\ file' = 1 /\ pos' = 0
        /\ UNCHANGED <<wal, archives, manifest, issued, keep>>
    BY <1>1 DEF LoadSnapshot, files, ghosts
  <2>2. ReplayedBelow'
    <3>1. LogFile' \in Seq(Line)
      BY <2>1 DEF LogFile
    <3> QED
      BY <2>1, <3>1 DEF ReplayedBelow
  <2>3. IssuedKept' /\ IssuedBelow' /\ CommittedNext'
    BY <2>1 DEF IdsInv, IssuedKept, IssuedBelow, CommittedNext, Committed, Callable, Running, Place
  <2>4. PlainLogs' /\ Keeping'
    BY <2>1 DEF IdsInv, PlainLogs, Keeping, Committed
  <2> QED
    BY <2>2, <2>3, <2>4 DEF IdsInv
<1>2. CASE ReplayLine
  <2>1. UNCHANGED <<wal, archives, manifest, issued, keep, pc, file>> /\ pos' = pos + 1
        /\ pc = "replay"
    BY <1>2 DEF ReplayLine, holder, files, ghosts
  <2> DEFINE l == LogFile[pos + 1]
  <2>2. pos + 1 \in DOMAIN LogFile /\ Replayed(l) /\ l # Torn /\ l \in Line
    BY <1>2, <2>1, LogFacts DEF ReplayLine, PlainFile
  <2>3. next_id' \in Nat /\ next_id' >= next_id /\ (l.op = "remember" => l.id < next_id')
    BY <2>2, ReplayedRaises
  <2>4. UNCHANGED LogFile /\ Len(LogFile) \in Nat /\ pos + 1 <= Len(LogFile)
    BY <2>1, <2>2, LogFacts DEF LogFile
  <2>5. ASSUME file > Len(manifest.wal_archives), NEW k \in 1 .. pos + 1, wal[k].op = "remember"
        PROVE  wal[k].id < next_id'
    <3>1. LogFile = wal
      BY <2>1, <2>5, LogFacts
    <3>2. CASE k = pos + 1
      BY <2>3, <2>5, <3>1, <3>2
    <3>3. CASE k # pos + 1
      <4>1. k \in 1 .. pos /\ k \in DOMAIN wal
        BY <2>4, <3>1, <3>3
      <4>2. wal[k] \in Line /\ wal[k].id < next_id
        BY <2>1, <2>5, <4>1 DEF IdsInv, ReplayedBelow
      <4>3. wal[k].id \in Nat
        BY <2>5, <4>2 DEF Line, Ids, Torn
      <4> QED
        BY <2>3, <4>2, <4>3
    <3> QED
      BY <3>2, <3>3
  <2>6. ReplayedBelow'
    BY <2>1, <2>4, <2>5 DEF IdsInv, ReplayedBelow
  <2>7. IssuedKept' /\ IssuedBelow' /\ CommittedNext'
    BY <2>1 DEF IdsInv, IssuedKept, IssuedBelow, CommittedNext, Committed, Callable, Running, Place
  <2>8. PlainLogs' /\ Keeping'
    BY <2>1 DEF IdsInv, PlainLogs, Keeping, Committed
  <2> QED
    BY <2>6, <2>7, <2>8 DEF IdsInv
<1>3. CASE NextLog
  <2>1. /\ pc = "replay" /\ pc' = pc /\ file' = file + 1 /\ pos' = 0
        /\ file <= Len(manifest.wal_archives)
        /\ UNCHANGED <<wal, archives, manifest, issued, keep, next_id>>
    BY <1>3 DEF NextLog, memory, holder, files, ghosts
  <2>2. ReplayedBelow'
    <3>1. file + 1 \in 1 .. Len(manifest.wal_archives) + 1
      BY <2>1, LogFacts
    <3>2. LogFile' \in Seq(Line)
      BY <2>1, <3>1 DEF LogFile
    <3> QED
      BY <2>1, <3>1, <3>2 DEF ReplayedBelow
  <2>3. IssuedKept' /\ IssuedBelow' /\ CommittedNext'
    BY <2>1 DEF IdsInv, IssuedKept, IssuedBelow, CommittedNext, Committed, Callable, Running, Place
  <2>4. PlainLogs' /\ Keeping'
    BY <2>1 DEF IdsInv, PlainLogs, Keeping, Committed
  <2> QED
    BY <2>2, <2>3, <2>4 DEF IdsInv
<1>4. CASE FinishReplay
  <2>1. /\ pc = "replay" /\ LogFile = wal /\ pos = Len(wal)
        /\ file > Len(manifest.wal_archives)
    BY <1>4, LogFacts DEF FinishReplay
  <2>2. /\ next_id' = Larger(manifest.next_id, next_id) /\ pc' = "replayed"
        /\ UNCHANGED <<wal, archives, manifest, issued, keep>>
    BY <1>4 DEF FinishReplay, RecoveredNextId, files, ghosts
  <2>3. ASSUME NEW i \in issued PROVE i < next_id'
    <3>1. CASE i < manifest.next_id
      BY <2>2, <3>1 DEF Larger
    <3>2. CASE Logged(i, wal)
      <4>1. i < next_id
        BY <2>1, <3>2 DEF Logged, IdsInv, ReplayedBelow
      <4> QED
        BY <2>2, <4>1 DEF Larger
    <3> QED
      BY <2>1, <3>1, <3>2 DEF IdsInv, IssuedKept, Place
  <2>4. IssuedKept' /\ IssuedBelow' /\ ReplayedBelow' /\ CommittedNext'
    BY <2>1, <2>2, <2>3 DEF IdsInv, IssuedKept, IssuedBelow, ReplayedBelow, CommittedNext, Committed,
                            Place
  <2>5. PlainLogs' /\ Keeping'
    BY <2>1, <2>2 DEF IdsInv, PlainLogs, Keeping, Committed
  <2> QED
    BY <2>4, <2>5 DEF IdsInv
<1>5. CASE FinishOpen
  <2>1. /\ pc = "replayed" /\ pc' = "idle"
        /\ UNCHANGED <<wal, archives, manifest, issued, keep, next_id>>
    BY <1>5 DEF FinishOpen, memory, files
  <2>2. IssuedKept' /\ IssuedBelow' /\ ReplayedBelow' /\ CommittedNext'
    BY <2>1 DEF IdsInv, IssuedKept, IssuedBelow, ReplayedBelow, CommittedNext, Committed, Callable,
                Place
  <2>3. PlainLogs' /\ Keeping'
    BY <2>1 DEF IdsInv, PlainLogs, Keeping, Committed
  <2> QED
    BY <2>2, <2>3 DEF IdsInv
<1> QED
  BY <1>1, <1>2, <1>3, <1>4, <1>5 DEF Open

(* Nobody dies between the rename of the WAL by checkpoint_keep_wal and    *)
(* the manifest that lists it: the lines of that file would be lost.       *)
NoLostFile == "checkpoint_keep_wal" \in Ops => "renamed" \notin CrashAt

LEMMA DieIdsInv ==
    ASSUME TornWrites = FALSE, NoLostFile, TypeInv, IdsInv, Die
    PROVE  IdsInv'
<1>1. /\ pc' = "down" /\ keep' = FALSE /\ Place \in CrashAt
      /\ UNCHANGED <<wal, archives, manifest, issued>>
  BY DEF Die, files
<1>2. Place # "renamed"
  BY <1>1 DEF NoLostFile, IdsInv, Keeping, Place, TypeInv, TypeOK, HolderOK, Running, Recovering
<1>3. IssuedKept' /\ IssuedBelow' /\ ReplayedBelow' /\ CommittedNext'
  BY <1>1, <1>2 DEF IdsInv, IssuedKept, IssuedBelow, ReplayedBelow, CommittedNext, Committed, Callable,
                    Running
<1>4. PlainLogs' /\ Keeping'
  BY <1>1 DEF IdsInv, PlainLogs, Keeping, Committed
<1> QED
  BY <1>3, <1>4 DEF IdsInv

LEMMA NextIdsInv ==
    ASSUME TornWrites = FALSE, NoLostFile
    PROVE  TypeInv /\ IdsInv /\ [Next]_vars => IdsInv'
<1> SUFFICES ASSUME TypeInv, IdsInv, [Next]_vars PROVE IdsInv'
  OBVIOUS
<1>1. CASE Call
  BY <1>1, CallIdsInv, CheckpointIdsInv DEF Call
<1>2. CASE Step
  BY <1>2, HolderIdsInv, CheckpointIdsInv DEF Step
<1>3. CASE Open
  BY <1>3, OpenIdsInv
<1>4. CASE Die
  BY <1>4, DieIdsInv
<1>5. CASE UNCHANGED vars
  <2>1. UNCHANGED <<wal, archives, manifest, issued, keep, pc, file, pos, next_id>>
    BY <1>5 DEF vars, memory, holder, replay, files, ghosts
  <2>2. IssuedKept' /\ IssuedBelow' /\ CommittedNext'
    BY <2>1 DEF IdsInv, IssuedKept, IssuedBelow, CommittedNext, Committed, Callable, Place
  <2>3. ReplayedBelow' /\ PlainLogs' /\ Keeping'
    BY <2>1 DEF IdsInv, ReplayedBelow, LogFile, PlainLogs, Keeping, Committed
  <2> QED
    BY <2>2, <2>3 DEF IdsInv
<1> QED
  BY <1>1, <1>2, <1>3, <1>4, <1>5 DEF Next, NoEffect

(* Without torn writes, and where nobody dies between the rename of a WAL  *)
(* and the manifest that lists it (both of them break it), remember never  *)
(* gives out an id that any record ever had: across deletions,             *)
(* compactions, imports, both checkpoints and any number of deaths.        *)
THEOREM IdsUnique ==
    ASSUME TornWrites = FALSE, NoLostFile
    PROVE  Spec => []NoIdReissued
<1>1. TypeInv /\ IdsInv => NoIdReissued
  BY DEF IdsInv, IssuedBelow, NoIdReissued, Callable
<1>2. TypeInv /\ IdsInv /\ [Next]_vars => IdsInv'
  BY NextIdsInv
<1> QED
  BY InitIdsInv, <1>2, TypeCorrect, <1>1, PTL DEF Spec

-----------------------------------------------------------------------------
(* Recovery rebuilds what memory held. The files and the log are followed  *)
(* one id at a time: a trace lists what the replay makes of the id, line   *)
(* by line, from the row of the listed segment to the row in memory.       *)
(*                                                                         *)
(* The files that checkpoint_keep_wal has put aside, and after a death     *)
(* between the manifest and the reset of the WAL all of it, are replayed   *)
(* over a segment that holds their result already. So the invariant also   *)
(* says where the log leads from every status the row may come to have     *)
(* later: back to it, unless the log holds the row's Remember line.        *)

-----------------------------------------------------------------------------
(* What the two maps hold of one id, without the hits.                     *)
Plain(r) == IF r = Absent THEN Absent ELSE [r EXCEPT !.hits = 0]
Dead(r)  == [r EXCEPT !.live = FALSE]

Slot      == Record \cup {Absent}
Status    == [d : Slot, a : Slot]       \* in docs, in the archive
Gone      == [d |-> Absent, a |-> Absent]
Single(p) == p.d = Absent \/ p.a = Absent
At(m, i)  == [d |-> Plain(m.docs[i]), a |-> Plain(m.archive[i])]

(* What the replay of a line makes of the status of its id.                *)
Effect(p, l) ==
    CASE l.op = "remember"    -> IF l.archived THEN [d |-> p.d, a |-> Plain(l.row)]
                                               ELSE [d |-> Plain(l.row), a |-> p.a]
      [] l.op = "forget"      -> IF p.d # Absent THEN [d |-> Dead(p.d), a |-> p.a]
                                 ELSE IF p.a # Absent THEN [d |-> Absent, a |-> Dead(p.a)]
                                 ELSE p
      [] l.op = "hard_delete" -> IF p.d # Absent THEN [d |-> Absent, a |-> p.a] ELSE Gone
      [] l.op = "archive"     -> IF p.d # Absent THEN [d |-> Absent, a |-> p.d] ELSE p
      [] OTHER                -> p

Moved(p, l, i) == IF l.id = i THEN Effect(p, l) ELSE p

(* t is the trace of id i through the log w.                               *)
Trace(t, i, w) ==
    /\ t \in [0 .. Len(w) -> Status]
    /\ \A k \in 1 .. Len(w) : t[k] = Moved(t[k-1], w[k], i)

(* From nowhere, a trace never has the row in both maps.                   *)
Leads(p, i, w, q) ==
    \E t : /\ Trace(t, i, w) /\ t[0] = p /\ t[Len(w)] = q
           /\ p = Gone => \A k \in 0 .. Len(w) : Single(t[k])

(* The statuses that a row may still reach, but by a Remember line.        *)
RowOf(p) == IF p.d # Absent THEN p.d ELSE p.a
After(c) ==
    {p \in Status : \/ p = Gone
                    \/ /\ Single(p) /\ c # Gone
                       /\ RowOf(p) \in {RowOf(c), Dead(RowOf(c))}
                       /\ p.d # Absent => c.d # Absent}

(* Where w, which has led to c, leads from a later status p of the row.    *)
Outcome(i, w, c, p, q) ==
    IF Logged(i, w) THEN q = c \/ (p.a # Absent /\ c.d # Absent /\ q.d = c.d)
                    ELSE q = p
Settled(i, w, c) ==
    \A p \in After(c) : \E q \in Status : Leads(p, i, w, q) /\ Outcome(i, w, c, p, q)

PlainLine == Line \ {Torn}

(* What the trace t of id i through w must be for the subject index and    *)
(* for what compact took.                                                  *)
ErasedOnce(t, i, w) ==
    \A k \in 1 .. Len(w) : w[k].op = "hard_delete" /\ w[k].id = i
                              => Single(t[k-1]) /\ t[Len(w)] = Gone
Expendable(c) == c = Gone \/ (~RowOf(c).summary /\ (c.d # Absent => ~c.d.live))

LEMMA LineCases ==
    ASSUME NEW l \in PlainLine
    PROVE  /\ l.id \in Ids
           /\ \/ l.op = "remember" /\ l.row \in Record /\ l.archived \in BOOLEAN
              \/ l.op \in {"forget", "touch", "hard_delete", "archive"}
BY DEF PlainLine, Line

LEMMA PlainType ==
    ASSUME NEW r \in Slot
    PROVE  Plain(r) \in Slot /\ (Plain(r) = Absent <=> r = Absent)
BY ConstantsAssumption DEF Plain, Slot, Record

LEMMA DeadType ==
    ASSUME NEW r \in Record
    PROVE  Dead(r) \in Record /\ Dead(Dead(r)) = Dead(r) /\ Dead(r) # Absent
BY ConstantsAssumption DEF Dead, Record

LEMMA EffectType ==
    ASSUME NEW p \in Status, NEW l \in PlainLine
    PROVE  Effect(p, l) \in Status
<1>1. CASE l.op = "remember"
  BY <1>1, LineCases, PlainType DEF Effect, Status, Slot
<1>2. CASE l.op # "remember"
  BY <1>2, LineCases, DeadType DEF Effect, Status, Slot, Gone
<1> QED
  BY <1>1, <1>2

LEMMA AfterSelf ==
    ASSUME NEW c \in Status, Single(c)
    PROVE  c \in After(c) /\ Gone \in After(c)
BY DEF After, Single, Gone, Status, Slot

(* A line that is no Remember line takes a row to a later status and does  *)
(* not move it any more from there.                                        *)
LEMMA EffectAges ==
    ASSUME NEW c \in Status, Single(c), NEW l \in PlainLine, l.op # "remember"
    PROVE  /\ Single(Effect(c, l))
           /\ After(Effect(c, l)) \subseteq After(c)
           /\ \A p \in After(Effect(c, l)) : Effect(p, l) = p
<1> DEFINE e == Effect(c, l)
<1>1. CASE c = Gone
  BY <1>1, LineCases DEF Effect, Gone, After, Single
<1>2. CASE c # Gone /\ c.a = Absent
  <2>1. c.d \in Record /\ Dead(c.d) \in Record /\ Dead(Dead(c.d)) = Dead(c.d)
        /\ c.d # Absent /\ Dead(c.d) # Absent
    BY <1>2, DeadType, Bounds DEF Status, Slot, Gone
  <2>2. CASE l.op = "forget"
    <3>1. e = [d |-> Dead(c.d), a |-> Absent]
      BY <1>2, <2>1, <2>2 DEF Effect
    <3>2. /\ Single(e) /\ e # Gone /\ RowOf(e) = Dead(c.d) /\ RowOf(c) = c.d
          /\ e.d # Absent <=> c.d # Absent
      BY <1>2, <2>1, <3>1 DEF Single, RowOf, Gone
    <3> HIDE DEF e
    <3>3. ASSUME NEW p \in After(e) PROVE p \in After(c) /\ Effect(p, l) = p
      <4>1. CASE p = Gone
        BY <2>2, <4>1, AfterSelf DEF Effect, Gone
      <4>2. CASE p # Gone
        <5>1. p \in Status /\ Single(p) /\ RowOf(p) = Dead(c.d) /\ (p.d # Absent => c.d # Absent)
          BY <2>1, <3>2, <3>3, <4>2 DEF After
        <5>2. p \in After(c)
          BY <1>2, <3>2, <5>1 DEF After
        <5>3. CASE p.d # Absent
          <6>1. p.d = Dead(c.d) /\ p.a = Absent
            BY <5>1, <5>3 DEF RowOf, Single
          <6> QED
            BY <2>1, <2>2, <5>1, <5>2, <5>3, <6>1 DEF Effect, Status
        <5>4. CASE p.d = Absent
          <6>1. p.a = Dead(c.d)
            BY <5>1, <5>4 DEF RowOf
          <6> QED
            BY <2>1, <2>2, <5>1, <5>2, <5>4, <6>1 DEF Effect, Status
        <5> QED
          BY <5>3, <5>4
      <4> QED
        BY <4>1, <4>2
    <3> QED
      BY <3>2, <3>3 DEF e
  <2>3. CASE l.op = "archive"
    <3>1. e = [d |-> Absent, a |-> c.d]
      BY <1>2, <2>1, <2>3 DEF Effect
    <3> QED
      BY <1>2, <2>1, <2>3, <3>1 DEF Effect, After, Single, RowOf, Gone
  <2>4. CASE l.op = "hard_delete"
    <3>1. e = Gone
      BY <1>2, <2>1, <2>4 DEF Effect, Gone
    <3> QED
      BY <2>4, <3>1 DEF Effect, After, Single, Gone
  <2>5. CASE l.op = "touch"
    BY <1>2, <2>5 DEF Effect, Single
  <2> QED
    BY <2>2, <2>3, <2>4, <2>5, LineCases
<1>3. CASE c # Gone /\ c.a # Absent
  <2>1. c.d = Absent /\ c.a \in Record /\ Dead(c.a) \in Record /\ Dead(Dead(c.a)) = Dead(c.a)
        /\ Dead(c.a) # Absent
    BY <1>3, DeadType, Bounds DEF Status, Slot, Single
  <2>2. CASE l.op = "forget"
    <3>1. e = [d |-> Absent, a |-> Dead(c.a)]
      BY <1>3, <2>1, <2>2 DEF Effect
    <3>2. /\ Single(e) /\ e # Gone /\ RowOf(e) = Dead(c.a) /\ RowOf(c) = c.a
          /\ e.d # Absent <=> c.d # Absent
      BY <1>3, <2>1, <3>1 DEF Single, RowOf, Gone
    <3> HIDE DEF e
    <3>3. ASSUME NEW p \in After(e) PROVE p \in After(c) /\ Effect(p, l) = p
      <4>1. CASE p = Gone
        BY <2>2, <4>1, AfterSelf DEF Effect, Gone
      <4>2. CASE p # Gone
        <5>1. p \in Status /\ Single(p) /\ RowOf(p) = Dead(c.a) /\ (p.d # Absent => c.d # Absent)
          BY <2>1, <3>2, <3>3, <4>2 DEF After
        <5>2. p \in After(c)
          BY <1>3, <3>2, <5>1 DEF After
        <5>3. CASE p.d # Absent
          <6>1. p.d = Dead(c.a) /\ p.a = Absent
            BY <5>1, <5>3 DEF RowOf, Single
          <6> QED
            BY <2>1, <2>2, <5>1, <5>2, <5>3, <6>1 DEF Effect, Status
        <5>4. CASE p.d = Absent
          <6>1. p.a = Dead(c.a)
            BY <5>1, <5>4 DEF RowOf
          <6> QED
            BY <2>1, <2>2, <5>1, <5>2, <5>4, <6>1 DEF Effect, Status
        <5> QED
          BY <5>3, <5>4
      <4> QED
        BY <4>1, <4>2
    <3> QED
      BY <3>2, <3>3 DEF e
  <2>3. CASE l.op = "archive"
    BY <1>3, <2>1, <2>3 DEF Effect, After, Single, RowOf, Gone
  <2>4. CASE l.op = "hard_delete"
    <3>1. e = Gone
      BY <1>3, <2>1, <2>4 DEF Effect, Gone
    <3> QED
      BY <2>4, <3>1 DEF Effect, After, Single, Gone
  <2>5. CASE l.op = "touch"
    BY <1>3, <2>5 DEF Effect, Single
  <2> QED
    BY <2>2, <2>3, <2>4, <2>5, LineCases
<1> QED
  BY <1>1, <1>2, <1>3

-----------------------------------------------------------------------------
(* Traces: through an empty log, one line further, and where no line is    *)
(* about the id.                                                           *)

LEMMA TraceEmpty ==
    ASSUME NEW p \in Status, NEW i
    PROVE  Leads(p, i, <<>>, p)
<1> DEFINE t == [k \in 0 .. 0 |-> p]
<1>1. Trace(t, i, <<>>) /\ t[0] = p
  BY DEF Trace
<1>2. p = Gone => \A k \in 0 .. 0 : Single(t[k])
  BY DEF Single, Gone
<1> QED
  BY <1>1, <1>2 DEF Leads

LEMMA TraceExtends ==
    ASSUME NEW w \in Seq(PlainLine), NEW l \in PlainLine, NEW i, NEW t, Trace(t, i, w)
    PROVE  \E u : /\ Trace(u, i, Append(w, l))
                  /\ \A k \in 0 .. Len(w) : u[k] = t[k]
                  /\ u[Len(Append(w, l))] = Moved(t[Len(w)], l, i)
<1> DEFINE n == Len(w)
           v == Append(w, l)
           u == [k \in 0 .. n + 1 |-> IF k = n + 1 THEN Moved(t[n], l, i) ELSE t[k]]
<1>1. /\ n \in Nat /\ Len(v) = n + 1 /\ v[n + 1] = l
      /\ \A k \in 1 .. n : v[k] = w[k]
  OBVIOUS
<1>2. t[n] \in Status /\ Moved(t[n], l, i) \in Status
  BY <1>1, EffectType DEF Trace, Moved
<1>3. u \in [0 .. n + 1 -> Status]
  BY <1>1, <1>2 DEF Trace
<1>4. \A k \in 0 .. n : u[k] = t[k]
  BY <1>1
<1>5. u[n + 1] = Moved(t[n], l, i)
  BY <1>1
<1>6. ASSUME NEW k \in 1 .. n + 1 PROVE u[k] = Moved(u[k-1], v[k], i)
  <2>1. CASE k = n + 1
    BY <1>1, <1>4, <1>5, <2>1
  <2>2. CASE k # n + 1
    <3>1. k \in 1 .. n /\ k \in 0 .. n /\ k - 1 \in 0 .. n
      BY <1>1, <2>2
    <3> QED
      BY <1>1, <1>4, <3>1 DEF Trace
  <2> QED
    BY <2>1, <2>2
<1> HIDE DEF u
<1>7. Trace(u, i, v)
  BY <1>1, <1>3, <1>6 DEF Trace
<1> QED
  BY <1>1, <1>4, <1>5, <1>7

LEMMA LeadsFurther ==
    ASSUME NEW w \in Seq(PlainLine), NEW l \in PlainLine, NEW i, NEW p, NEW q, Leads(p, i, w, q),
           p = Gone => \/ l.id # i \/ l.op # "remember" \/ q = Gone
    PROVE  Leads(p, i, Append(w, l), Moved(q, l, i))
<1>1. PICK t : /\ Trace(t, i, w) /\ t[0] = p /\ t[Len(w)] = q
               /\ p = Gone => \A k \in 0 .. Len(w) : Single(t[k])
  BY DEF Leads
<1>2. PICK u : /\ Trace(u, i, Append(w, l))
               /\ \A k \in 0 .. Len(w) : u[k] = t[k]
               /\ u[Len(Append(w, l))] = Moved(t[Len(w)], l, i)
  BY <1>1, TraceExtends
<1>3. 0 \in 0 .. Len(w) /\ Len(w) \in 0 .. Len(w) /\ Len(Append(w, l)) = Len(w) + 1
      /\ \A k \in 0 .. Len(w) + 1 : k \in 0 .. Len(w) \/ k = Len(w) + 1
  OBVIOUS
<1>4. ASSUME p = Gone PROVE Single(Moved(q, l, i))
  <2>1. q \in Status /\ Single(q)
    BY <1>1, <1>3, <1>4 DEF Trace
  <2>2. CASE l.id # i
    BY <2>1, <2>2 DEF Moved
  <2>3. CASE l.id = i /\ l.op # "remember"
    BY <2>1, <2>3, EffectAges DEF Moved
  <2>4. CASE l.id = i /\ l.op = "remember"
    BY <1>4, <2>4, LineCases DEF Moved, Effect, Gone, Single
  <2> QED
    BY <2>2, <2>3, <2>4
<1>5. p = Gone => \A k \in 0 .. Len(Append(w, l)) : Single(u[k])
  BY <1>1, <1>2, <1>3, <1>4
<1> QED
  BY <1>1, <1>2, <1>3, <1>5 DEF Leads

LEMMA TraceElsewhere ==
    ASSUME NEW w \in Seq(PlainLine), NEW i, \A k \in DOMAIN w : w[k].id # i, NEW p \in Status
    PROVE  Leads(p, i, w, p)
<1> DEFINE t == [k \in 0 .. Len(w) |-> p]
<1>1. Trace(t, i, w) /\ t[0] = p /\ t[Len(w)] = p
  BY DEF Trace, Moved
<1>2. p = Gone => \A k \in 0 .. Len(w) : Single(t[k])
  BY DEF Single, Gone
<1> QED
  BY <1>1, <1>2 DEF Leads

-----------------------------------------------------------------------------
(* Settled is kept by every line that an operation appends.                *)

LEMMA LoggedLine ==
    ASSUME NEW w \in Seq(PlainLine), NEW l \in PlainLine, NEW i
    PROVE  Logged(i, Append(w, l)) <=> Logged(i, w) \/ (l.op = "remember" /\ l.id = i)
<1>1. /\ DOMAIN Append(w, l) = 1 .. Len(w) + 1 /\ DOMAIN w = 1 .. Len(w) /\ Len(w) \in Nat
      /\ Append(w, l)[Len(w) + 1] = l
      /\ \A k \in 1 .. Len(w) : Append(w, l)[k] = w[k]
  OBVIOUS
<1>2. \A k \in 1 .. Len(w) + 1 : k \in 1 .. Len(w) \/ k = Len(w) + 1
  BY <1>1
<1>3. ASSUME Logged(i, Append(w, l))
      PROVE  Logged(i, w) \/ (l.op = "remember" /\ l.id = i)
  BY <1>1, <1>2, <1>3 DEF Logged
<1>4. ASSUME Logged(i, w) \/ (l.op = "remember" /\ l.id = i)
      PROVE  Logged(i, Append(w, l))
  <2>1. CASE Logged(i, w)
    <3>1. PICK k \in 1 .. Len(w) : w[k].op = "remember" /\ w[k].id = i
      BY <1>1, <2>1 DEF Logged
    <3> QED
      BY <1>1, <3>1 DEF Logged
  <2>2. CASE l.op = "remember" /\ l.id = i
    BY <1>1, <2>2 DEF Logged
  <2> QED
    BY <1>4, <2>1, <2>2
<1> QED
  BY <1>3, <1>4

LEMMA SettledOther ==
    ASSUME NEW w \in Seq(PlainLine), NEW l \in PlainLine, NEW i, l.id # i, NEW c, Settled(i, w, c)
    PROVE  Settled(i, Append(w, l), c)
<1>1. ASSUME NEW p \in After(c)
      PROVE  \E q \in Status : Leads(p, i, Append(w, l), q) /\ Outcome(i, Append(w, l), c, p, q)
  <2>1. PICK q \in Status : Leads(p, i, w, q) /\ Outcome(i, w, c, p, q)
    BY DEF Settled
  <2>2. Leads(p, i, Append(w, l), q)
    BY <2>1, LeadsFurther DEF Moved
  <2> QED
    BY <2>1, <2>2, LoggedLine DEF Outcome
<1> QED
  BY <1>1 DEF Settled

LEMMA SettledLine ==
    ASSUME NEW w \in Seq(PlainLine), NEW l \in PlainLine, l.op # "remember",
           NEW c \in Status, Single(c), Settled(l.id, w, c)
    PROVE  Settled(l.id, Append(w, l), Effect(c, l))
<1> DEFINE i == l.id
           e == Effect(c, l)
<1>0. /\ After(e) \subseteq After(c)
      /\ \A p \in After(e) : Effect(p, l) = p
      /\ After(e) \subseteq Status
  BY EffectAges DEF After
<1>1. ASSUME NEW p \in After(e)
      PROVE  \E q \in Status : Leads(p, i, Append(w, l), q) /\ Outcome(i, Append(w, l), e, p, q)
  <2>1. PICK q \in Status : Leads(p, i, w, q) /\ Outcome(i, w, c, p, q)
    BY <1>0 DEF Settled
  <2>2. Leads(p, i, Append(w, l), Effect(q, l)) /\ Effect(q, l) \in Status
    BY <2>1, LeadsFurther, EffectType DEF Moved
  <2>3. Logged(i, Append(w, l)) <=> Logged(i, w)
    BY LoggedLine
  <2>4. CASE ~Logged(i, w)
    BY <1>0, <2>1, <2>2, <2>3, <2>4 DEF Outcome
  <2>5. CASE Logged(i, w) /\ q = c
    BY <2>2, <2>3, <2>5 DEF Outcome
  <2>6. CASE Logged(i, w) /\ p.a # Absent /\ c.d # Absent /\ q.d = c.d
    <3>1. c.a = Absent /\ c.d \in Record /\ Dead(c.d) # Absent
      BY <2>6, DeadType DEF Single, Status, Slot
    <3>2. CASE l.op = "forget"
      BY <2>2, <2>3, <2>6, <3>1, <3>2 DEF Effect, Outcome
    <3>3. CASE l.op = "archive"
      BY <2>2, <2>3, <2>6, <3>1, <3>3 DEF Effect, Outcome
    <3>4. CASE l.op = "hard_delete"
      <4>1. e = Gone
        BY <2>6, <3>1, <3>4 DEF Effect, Gone
      <4>2. p = Gone
        BY <4>1 DEF After
      <4> QED
        BY <2>6, <4>2 DEF Gone
    <3>5. CASE l.op = "touch"
      BY <2>2, <2>3, <2>6, <3>5 DEF Effect, Outcome
    <3> QED
      BY <3>2, <3>3, <3>4, <3>5, LineCases
  <2> QED
    BY <2>1, <2>4, <2>5, <2>6 DEF Outcome
<1> QED
  BY <1>1 DEF Settled

(* The Remember line of a row whose id the log does not know.              *)
LEMMA SettledBirth ==
    ASSUME NEW w \in Seq(PlainLine), NEW l \in PlainLine, l.op = "remember",
           \A k \in DOMAIN w : w[k].id # l.id
    PROVE  /\ Settled(l.id, Append(w, l), Effect(Gone, l))
           /\ Single(Effect(Gone, l)) /\ Effect(Gone, l) # Gone
<1> DEFINE i == l.id
           r == Plain(l.row)
           e == Effect(Gone, l)
<1>1. r # Absent /\ l.archived \in BOOLEAN
  BY PlainType, LineCases, Bounds DEF Slot
<1>2. /\ l.archived => e = [d |-> Absent, a |-> r]
      /\ ~l.archived => e = [d |-> r, a |-> Absent]
  BY DEF Effect, Gone
<1>3. ASSUME NEW p \in After(e)
      PROVE  \E q \in Status : Leads(p, i, Append(w, l), q) /\ Outcome(i, Append(w, l), e, p, q)
  <2>1. p \in Status /\ Leads(p, i, w, p)
    BY TraceElsewhere DEF After
  <2>2. Leads(p, i, Append(w, l), Effect(p, l)) /\ Effect(p, l) \in Status
    BY <2>1, LeadsFurther, EffectType DEF Moved
  <2>3. Logged(i, Append(w, l))
    BY LoggedLine
  <2>4. CASE l.archived
    <3>1. p.d = Absent
      BY <1>2, <2>4 DEF After, Gone
    <3>2. Effect(p, l) = e
      BY <1>2, <2>4, <3>1 DEF Effect
    <3> QED
      BY <2>2, <2>3, <3>2 DEF Outcome
  <2>5. CASE ~l.archived
    <3>1. Effect(p, l) = [d |-> r, a |-> p.a]
      BY <2>5 DEF Effect
    <3>2. CASE p.a = Absent
      <4>1. Effect(p, l) = e
        BY <1>2, <2>5, <3>1, <3>2
      <4> QED
        BY <2>2, <2>3, <4>1 DEF Outcome
    <3>3. CASE p.a # Absent
      BY <1>1, <1>2, <2>2, <2>3, <2>5, <3>1, <3>3 DEF Outcome
    <3> QED
      BY <3>2, <3>3
  <2> QED
    BY <2>4, <2>5
<1> QED
  BY <1>1, <1>2, <1>3 DEF Settled, Single, Gone

-----------------------------------------------------------------------------
(* What an operation does to the maps is what its line says.               *)

LEMMA PlainOf ==
    ASSUME NEW r \in Record
    PROVE  /\ Plain(r) \in Record /\ Plain(r) # Absent /\ r # Absent
           /\ Plain([r EXCEPT !.live = FALSE]) = Dead(Plain(r))
           /\ \A h \in 0 .. MaxHits : Plain([r EXCEPT !.hits = h]) = Plain(r)
<1>1. Absent \notin Record /\ MaxHits \in Nat
  BY Bounds
<1>2. /\ [r EXCEPT !.live = FALSE] \in Record
      /\ \A h \in 0 .. MaxHits : [r EXCEPT !.hits = h] \in Record
      /\ 0 \in 0 .. MaxHits
  <2>1. [r EXCEPT !.live = FALSE] \in Record
    BY DEF Record
  <2>2. \A h \in 0 .. MaxHits : [r EXCEPT !.hits = h] \in Record
    BY DEF Record
  <2> QED
    BY <1>1, <2>1, <2>2
<1>3. \A s \in Record : Plain(s) = [s EXCEPT !.hits = 0]
  BY <1>1 DEF Plain
<1>4. [[r EXCEPT !.live = FALSE] EXCEPT !.hits = 0] = [[r EXCEPT !.hits = 0] EXCEPT !.live = FALSE]
  BY DEF Record
<1>5. \A h \in 0 .. MaxHits : [[r EXCEPT !.hits = h] EXCEPT !.hits = 0] = [r EXCEPT !.hits = 0]
  BY DEF Record
<1> QED
  BY <1>1, <1>2, <1>3, <1>4, <1>5 DEF Dead

(* The status of every id follows when one entry of a map changes.         *)
LEMMA RowsStatus ==
    ASSUME Maps, NEW i \in Ids
    PROVE  /\ At(Rows, i) = [d |-> Plain(docs[i]), a |-> Plain(archive[i])]
           /\ At(Rows, i) \in Status
           /\ At(Rows, i).d = Absent <=> docs[i] = Absent
           /\ At(Rows, i).a = Absent <=> archive[i] = Absent
<1>1. docs[i] \in Slot /\ archive[i] \in Slot
  BY DEF Maps, Map, Slot
<1> QED
  BY <1>1, PlainType DEF At, Rows, Status

ButAt(i, m, n) == \A j \in Ids \ {i} : m[j] = n[j]

LEMMA EntryStatus ==
    ASSUME NEW i \in Ids, ButAt(i, docs, docs'), ButAt(i, archive, archive')
    PROVE  /\ At(Rows, i)' = [d |-> Plain(docs'[i]), a |-> Plain(archive'[i])]
           /\ \A j \in Ids : j # i => At(Rows, j)' = At(Rows, j)
BY DEF ButAt, At, Rows

Does(l) == \A j \in Ids : At(Rows, j)' = Moved(At(Rows, j), l, j)

LEMMA DoesEntry ==
    ASSUME NEW i \in Ids, ButAt(i, docs, docs'), ButAt(i, archive, archive'),
           NEW l, l.id = i,
           Effect(At(Rows, i), l) = [d |-> Plain(docs'[i]), a |-> Plain(archive'[i])]
    PROVE  Does(l)
BY EntryStatus DEF Does, Moved

LEMMA CloseFirstDoes ==
    ASSUME Maps, NEW i \in Ids, CloseFirst(i), NEW l, l.op = "forget", l.id = i
    PROVE  Does(l)
<1>1. CASE docs[i] # Absent
  <2>1. /\ docs' = [docs EXCEPT ![i].live = FALSE] /\ archive' = archive
        /\ docs[i] \in Record
    BY <1>1 DEF CloseFirst, Closed, Maps, Map
  <2>2. /\ docs'[i] = [docs[i] EXCEPT !.live = FALSE]
        /\ ButAt(i, docs, docs') /\ ButAt(i, archive, archive')
    BY <2>1 DEF Maps, Map, ButAt
  <2>3. Effect(At(Rows, i), l) = [d |-> Plain(docs'[i]), a |-> Plain(archive'[i])]
    BY <1>1, <2>1, <2>2, PlainOf, RowsStatus DEF Effect
  <2> QED
    BY <2>2, <2>3, DoesEntry
<1>2. CASE docs[i] = Absent
  <2>1. /\ archive' = [archive EXCEPT ![i].live = FALSE] /\ docs' = docs
        /\ archive[i] \in Record
    BY <1>2 DEF CloseFirst, Closed, Maps, Map
  <2>2. /\ archive'[i] = [archive[i] EXCEPT !.live = FALSE]
        /\ ButAt(i, docs, docs') /\ ButAt(i, archive, archive')
    BY <2>1 DEF Maps, Map, ButAt
  <2>3. Effect(At(Rows, i), l) = [d |-> Plain(docs'[i]), a |-> Plain(archive'[i])]
    BY <1>2, <2>1, <2>2, PlainOf, RowsStatus DEF Effect
  <2> QED
    BY <2>2, <2>3, DoesEntry
<1> QED
  BY <1>1, <1>2

LEMMA DropFirstDoes ==
    ASSUME Maps, NEW i \in Ids, DropFirst(i), NEW l, l.op = "hard_delete", l.id = i
    PROVE  Does(l)
<1>0. Plain(Absent) = Absent
  BY DEF Plain
<1>1. /\ ButAt(i, docs, docs') /\ ButAt(i, archive, archive')
      /\ docs[i] # Absent => docs'[i] = Absent /\ archive'[i] = archive[i]
      /\ docs[i] = Absent => docs'[i] = Absent /\ archive'[i] = Absent
  BY DEF DropFirst, Maps, Map, ButAt
<1>2. Effect(At(Rows, i), l) = [d |-> Plain(docs'[i]), a |-> Plain(archive'[i])]
  BY <1>0, <1>1, RowsStatus DEF Effect, Gone
<1> QED
  BY <1>1, <1>2, DoesEntry

LEMMA MoveToArchiveDoes ==
    ASSUME Maps, NEW i \in Ids, MoveToArchive(i), NEW l, l.op = "archive", l.id = i
    PROVE  Does(l)
<1>1. docs[i] # Absent /\ Plain(Absent) = Absent
  BY DEF MoveToArchive, Plain
<1>2. /\ ButAt(i, docs, docs') /\ ButAt(i, archive, archive')
      /\ docs'[i] = Absent /\ archive'[i] = docs[i]
  BY DEF MoveToArchive, Maps, Map, ButAt
<1>3. Effect(At(Rows, i), l) = [d |-> Plain(docs'[i]), a |-> Plain(archive'[i])]
  BY <1>1, <1>2, RowsStatus DEF Effect
<1> QED
  BY <1>2, <1>3, DoesEntry

LEMMA InsertDoes ==
    ASSUME Maps, NEW i \in Ids, NEW r, NEW arch \in BOOLEAN, Insert(i, r, arch),
           NEW l, l.op = "remember", l.id = i, l.row = r, l.archived = arch
    PROVE  Does(l)
<1>1. /\ ButAt(i, docs, docs') /\ ButAt(i, archive, archive')
      /\ arch => docs'[i] = docs[i] /\ archive'[i] = r
      /\ ~arch => docs'[i] = r /\ archive'[i] = archive[i]
  BY DEF Insert, Maps, Map, ButAt
<1>2. Effect(At(Rows, i), l) = [d |-> Plain(docs'[i]), a |-> Plain(archive'[i])]
  BY <1>1, RowsStatus DEF Effect
<1> QED
  BY <1>1, <1>2, DoesEntry

LEMMA HitOnly ==
    ASSUME NEW m \in Map, NEW i \in Ids, m[i] # Absent
    PROVE  /\ \E h \in 0 .. MaxHits : Hit(m, i)[i] = [m[i] EXCEPT !.hits = h]
           /\ ButAt(i, m, Hit(m, i)) /\ m[i] \in Record
<1>1. m[i] \in Record /\ m[i].hits \in 0 .. MaxHits /\ MaxHits \in Nat
  BY Bounds DEF Map, Record
<1>2. \E h \in 0 .. MaxHits : Hit(m, i)[i] = [m[i] EXCEPT !.hits = h]
  <2>1. CASE m[i].hits < MaxHits
    <3>1. m[i].hits + 1 \in 0 .. MaxHits
      BY <1>1, <2>1
    <3> QED
      BY <1>1, <2>1, <3>1 DEF Hit, Map
  <2>2. CASE ~(m[i].hits < MaxHits)
    BY <1>1, <2>2 DEF Hit, Map
  <2> QED
    BY <2>1, <2>2
<1>3. ButAt(i, m, Hit(m, i))
  BY DEF Hit, Map, ButAt
<1> QED
  BY <1>1, <1>2, <1>3

LEMMA HitPlain ==
    ASSUME NEW m \in Map, NEW i \in Ids, m[i] # Absent
    PROVE  Plain(Hit(m, i)[i]) = Plain(m[i]) /\ ButAt(i, m, Hit(m, i))
<1>1. PICK h \in 0 .. MaxHits : Hit(m, i)[i] = [m[i] EXCEPT !.hits = h]
  BY HitOnly
<1>2. m[i] \in Record /\ ButAt(i, m, Hit(m, i))
  BY HitOnly
<1>3. Plain([m[i] EXCEPT !.hits = h]) = Plain(m[i])
  BY <1>2, PlainOf
<1> QED
  BY <1>1, <1>2, <1>3

LEMMA HitDoes ==
    ASSUME Maps, NEW i \in Ids, NEW l, l.op = "touch", l.id = i,
           \/ docs[i] # Absent /\ docs' = Hit(docs, i) /\ archive' = archive
           \/ archive[i] # Absent /\ archive' = Hit(archive, i) /\ docs' = docs
    PROVE  Does(l)
<1>1. /\ ButAt(i, docs, docs') /\ ButAt(i, archive, archive')
      /\ Plain(docs'[i]) = Plain(docs[i]) /\ Plain(archive'[i]) = Plain(archive[i])
  BY HitPlain DEF Maps, ButAt
<1>2. Effect(At(Rows, i), l) = [d |-> Plain(docs'[i]), a |-> Plain(archive'[i])]
  BY <1>1, RowsStatus DEF Effect
<1> QED
  BY <1>1, <1>2, DoesEntry

(* The replay of a line does what the operation that wrote it did.         *)
LEMMA ReplayedDoes ==
    ASSUME Maps, NEW l \in PlainLine, Replayed(l)
    PROVE  Does(l)
<1>0. l.id \in Ids
  BY LineCases
<1>1. CASE l.op = "remember"
  <2>1. Insert(l.id, l.row, l.archived) /\ l.archived \in BOOLEAN
    BY <1>1, LineCases DEF Replayed
  <2> QED
    BY <1>0, <1>1, <2>1, InsertDoes
<1>2. CASE l.op # "remember" /\ UNCHANGED <<docs, archive>>
           /\ docs[l.id] = Absent /\ (archive[l.id] = Absent \/ l.op = "archive")
  <2>1. \A j \in Ids : At(Rows, j)' = At(Rows, j)
    BY <1>2 DEF At, Rows
  <2>2. Effect(At(Rows, l.id), l) = At(Rows, l.id)
    BY <1>0, <1>2, RowsStatus, LineCases DEF Effect, Gone, Status
  <2> QED
    BY <1>0, <2>1, <2>2 DEF Does, Moved
<1>3. CASE l.op = "forget" /\ CloseFirst(l.id)
  BY <1>0, <1>3, CloseFirstDoes
<1>4. CASE l.op = "hard_delete" /\ DropFirst(l.id)
  BY <1>0, <1>4, DropFirstDoes
<1>5. CASE l.op = "archive" /\ MoveToArchive(l.id)
  BY <1>0, <1>5, MoveToArchiveDoes
<1>6. CASE /\ l.op = "touch"
           /\ \/ docs[l.id] # Absent /\ docs' = Hit(docs, l.id) /\ archive' = archive
              \/ archive[l.id] # Absent /\ archive' = Hit(archive, l.id) /\ docs' = docs
  BY <1>0, <1>6, HitDoes
<1> QED
  BY <1>1, <1>2, <1>3, <1>4, <1>5, <1>6, LineCases DEF Replayed

-----------------------------------------------------------------------------
(* The log: the listed files in order, then wal.jsonl, as open() reads it. *)
(* w is all its lines, and at[k] of them come before the k-th file. A file *)
(* that checkpoint_keep_wal has renamed and not listed yet counts as well. *)

Sealed == IF Place = "renamed" THEN Append(manifest.wal_archives, seg_seq)
          ELSE manifest.wal_archives
FileAt(k) == IF k <= Len(Sealed) THEN archives[Sealed[k]] ELSE wal

Joins(w, at) ==
    /\ w \in Seq(PlainLine)
    /\ at \in [1 .. Len(Sealed) + 2 -> 0 .. Len(w)]
    /\ at[1] = 0 /\ at[Len(Sealed) + 2] = Len(w)
    /\ \A k \in 1 .. Len(Sealed) + 1 :
          /\ FileAt(k) \in Seq(PlainLine)
          /\ at[k + 1] = at[k] + Len(FileAt(k))
          /\ \A j \in 1 .. Len(FileAt(k)) : w[at[k] + j] = FileAt(k)[j]

(* How many lines of it open() has read.                                   *)
Read(at) == at[file] + pos

LEMMA SealedType ==
    ASSUME TypeInv
    PROVE  Sealed \in Seq(SegNos) /\ Len(Sealed) \in Nat
<1>1. manifest.wal_archives \in Seq(SegNos)
  BY IdTypes
<1>2. Place = "renamed" => seg_seq \in SegNos
  BY DEF Place, TypeInv, TypeOK, HolderOK, Counters, Running, Recovering
<1> QED
  BY <1>1, <1>2 DEF Sealed

LEMMA JoinsType ==
    ASSUME TypeInv, NEW w, NEW at, Joins(w, at)
    PROVE  /\ w \in Seq(PlainLine) /\ Len(w) \in Nat
           /\ at \in [1 .. Len(Sealed) + 2 -> 0 .. Len(w)]
           /\ at[1] = 0 /\ at[Len(Sealed) + 2] = Len(w)
           /\ \A k \in 1 .. Len(Sealed) + 1 :
                 /\ at[k] \in Nat /\ at[k] <= Len(w)
                 /\ FileAt(k) \in Seq(PlainLine) /\ Len(FileAt(k)) \in Nat
                 /\ at[k + 1] = at[k] + Len(FileAt(k))
                 /\ \A j \in 1 .. Len(FileAt(k)) : /\ at[k] + j \in 1 .. Len(w)
                                                   /\ w[at[k] + j] = FileAt(k)[j]
<1>1. /\ w \in Seq(PlainLine) /\ at \in [1 .. Len(Sealed) + 2 -> 0 .. Len(w)]
      /\ at[1] = 0 /\ at[Len(Sealed) + 2] = Len(w)
  BY DEF Joins
<1>2. Len(w) \in Nat /\ Len(Sealed) \in Nat
  BY <1>1, SealedType
<1>3. ASSUME NEW k \in 1 .. Len(Sealed) + 1
      PROVE  /\ at[k] \in Nat /\ at[k] <= Len(w)
             /\ FileAt(k) \in Seq(PlainLine) /\ Len(FileAt(k)) \in Nat
             /\ at[k + 1] = at[k] + Len(FileAt(k))
             /\ \A j \in 1 .. Len(FileAt(k)) : /\ at[k] + j \in 1 .. Len(w)
                                               /\ w[at[k] + j] = FileAt(k)[j]
  <2>1. at[k] \in 0 .. Len(w) /\ at[k + 1] \in 0 .. Len(w)
    BY <1>1, <1>2
  <2>2. /\ FileAt(k) \in Seq(PlainLine) /\ at[k + 1] = at[k] + Len(FileAt(k))
        /\ \A j \in 1 .. Len(FileAt(k)) : w[at[k] + j] = FileAt(k)[j]
    BY DEF Joins
  <2>3. Len(FileAt(k)) \in Nat
    BY <2>2
  <2>4. \A j \in 1 .. Len(FileAt(k)) : at[k] + j \in 1 .. Len(w)
    BY <1>2, <2>1, <2>2, <2>3
  <2> QED
    BY <1>2, <2>1, <2>2, <2>3, <2>4
<1> QED
  BY <1>1, <1>2, <1>3

(* One file, whose lines are w, is the log w.                              *)
Whole(w, at) == /\ at \in [1 .. 2 -> 0 .. Len(w)] /\ at[1] = 0 /\ at[2] = Len(w)
                /\ \A k \in 1 .. 1 : k = 1 /\ at[k + 1] = at[k] + Len(w)
                                     /\ \A j \in 1 .. Len(w) : w[at[k] + j] = w[j]

LEMMA OneFile ==
    ASSUME NEW w \in Seq(PlainLine)
    PROVE  \E at : Whole(w, at)
<1> DEFINE at == [k \in 1 .. 2 |-> IF k = 1 THEN 0 ELSE Len(w)]
<1>1. Len(w) \in Nat
  OBVIOUS
<1>2. at \in [1 .. 2 -> 0 .. Len(w)] /\ at[1] = 0 /\ at[2] = Len(w)
  BY <1>1
<1> HIDE DEF at
<1>3. \A k \in 1 .. 1 : k = 1 /\ k + 1 = 2
  OBVIOUS
<1>4. Whole(w, at)
  BY <1>1, <1>2, <1>3 DEF Whole
<1> QED
  BY <1>4

LEMMA JoinsOne ==
    ASSUME Sealed = <<>>, wal \in Seq(PlainLine)
    PROVE  \E at : Joins(wal, at)
<1>1. PICK at : Whole(wal, at)
  BY OneFile
<1>2. Len(Sealed) = 0 /\ \A k \in 1 .. 1 : FileAt(k) = wal
  BY DEF FileAt
<1>3. Joins(wal, at)
  BY <1>1, <1>2 DEF Joins, Whole
<1> QED
  BY <1>3

LEMMA JoinsOneNext ==
    ASSUME Sealed' = <<>>, NEW w \in Seq(PlainLine), wal' = w
    PROVE  \E at : Joins(w, at)'
<1>1. PICK at : Whole(w, at)
  BY OneFile
<1>2. Len(Sealed') = 0 /\ \A k \in 1 .. 1 : FileAt(k)' = w
  BY DEF FileAt
<1>3. Joins(w, at)'
  BY <1>1, <1>2 DEF Joins, Whole
<1> QED
  BY <1>3

LEMMA JoinsKept ==
    ASSUME UNCHANGED <<Sealed, archives, wal>>, NEW w, NEW at, Joins(w, at)
    PROVE  Joins(w, at)'
<1>1. \A k : FileAt(k)' = FileAt(k)
  BY DEF FileAt
<1> QED
  BY <1>1 DEF Joins

(* wal.jsonl is the end of it.                                             *)
LEMMA JoinsEnd ==
    ASSUME TypeInv, NEW w, NEW at, Joins(w, at)
    PROVE  /\ wal \in Seq(PlainLine) /\ Len(wal) \in Nat
           /\ \A k \in 1 .. Len(wal) : \E j \in 1 .. Len(w) : w[j] = wal[k]
<1> DEFINE n == Len(Sealed)
<1>1. n \in Nat /\ FileAt(n + 1) = wal
  BY SealedType DEF FileAt
<1>2. n + 1 \in 1 .. n + 1
  BY <1>1
<1> HIDE DEF n
<1>3. /\ wal \in Seq(PlainLine) /\ Len(wal) \in Nat
      /\ \A j \in 1 .. Len(wal) : at[n + 1] + j \in 1 .. Len(w) /\ w[at[n + 1] + j] = wal[j]
  BY <1>1, <1>2, JoinsType DEF n
<1> QED
  BY <1>3

LEMMA JoinsAppend ==
    ASSUME TypeInv, NEW l \in PlainLine, wal' = Append(wal, l), UNCHANGED <<Sealed, archives>>,
           NEW w, NEW at, Joins(w, at)
    PROVE  \E u : Joins(Append(w, l), u)'
<1>0. PICK n : n = Len(Sealed)
  OBVIOUS
<1> DEFINE v == Append(w, l)
           u == [at EXCEPT ![n + 2] = Len(w) + 1]
<1>1. n \in Nat /\ w \in Seq(PlainLine) /\ Len(w) \in Nat /\ wal \in Seq(PlainLine)
      /\ Len(wal) \in Nat
  BY <1>0, SealedType, JoinsType, JoinsEnd
<1>2. /\ v \in Seq(PlainLine) /\ Len(v) = Len(w) + 1 /\ v[Len(w) + 1] = l
      /\ \A k \in 1 .. Len(w) : v[k] = w[k]
      /\ wal' \in Seq(PlainLine) /\ Len(wal') = Len(wal) + 1 /\ wal'[Len(wal) + 1] = l
      /\ \A k \in 1 .. Len(wal) : wal'[k] = wal[k]
  BY <1>1
<1>3. /\ u \in [1 .. n + 2 -> 0 .. Len(v)] /\ u[n + 2] = Len(v)
      /\ \A k \in 1 .. n + 1 : u[k] = at[k] /\ at[k] \in 0 .. Len(w)
      /\ u[1] = 0
  <2>1. at \in [1 .. n + 2 -> 0 .. Len(w)] /\ at[1] = 0
    BY <1>0, JoinsType
  <2>2. 0 .. Len(w) \subseteq 0 .. Len(v) /\ Len(v) \in 0 .. Len(v) /\ n + 2 \in 1 .. n + 2
        /\ 1 \in 1 .. n + 1 /\ \A k \in 1 .. n + 1 : k \in 1 .. n + 2 /\ k # n + 2
    BY <1>1, <1>2
  <2> QED
    BY <1>1, <1>2, <2>1, <2>2
<1> HIDE DEF u, v
<1>4. ASSUME NEW k \in 1 .. n + 1
      PROVE  /\ FileAt(k)' \in Seq(PlainLine) /\ u[k + 1] = u[k] + Len(FileAt(k)')
             /\ \A j \in 1 .. Len(FileAt(k)') : v[u[k] + j] = FileAt(k)'[j]
  <2>1. /\ FileAt(k) \in Seq(PlainLine) /\ at[k + 1] = at[k] + Len(FileAt(k))
        /\ at[k] \in Nat
        /\ \A j \in 1 .. Len(FileAt(k)) : /\ at[k] + j \in 1 .. Len(w)
                                          /\ w[at[k] + j] = FileAt(k)[j]
    BY <1>0, JoinsType
  <2>2. CASE k <= n
    <3>1. FileAt(k)' = FileAt(k) /\ k + 1 \in 1 .. n + 1
      BY <1>0, <1>1, <2>2 DEF FileAt
    <3>2. u[k] = at[k] /\ u[k + 1] = at[k + 1]
      BY <1>3, <3>1
    <3>3. \A j \in 1 .. Len(FileAt(k)) : v[at[k] + j] = FileAt(k)[j]
      BY <1>2, <2>1
    <3> QED
      BY <2>1, <3>1, <3>2, <3>3
  <2>3. CASE k = n + 1
    <3>1. FileAt(k) = wal /\ FileAt(k)' = wal' /\ k + 1 = n + 2
      BY <1>0, <1>1, <2>3 DEF FileAt
    <3>2. at[k] + Len(wal) = Len(w) /\ u[k] = at[k] /\ at[k] \in Nat
      <4>1. at[n + 2] = Len(w)
        BY <1>0, JoinsType
      <4> QED
        BY <1>3, <2>1, <3>1, <4>1
    <3>3. ASSUME NEW j \in 1 .. Len(wal) + 1 PROVE v[at[k] + j] = wal'[j]
      <4>1. CASE j = Len(wal) + 1
        <5>1. at[k] + j = (at[k] + Len(wal)) + 1
          <6>1. \A m, o \in Nat : m + (o + 1) = (m + o) + 1
            OBVIOUS
          <6> QED
            BY <1>1, <3>2, <4>1, <6>1
        <5> QED
          BY <1>2, <3>2, <4>1, <5>1
      <4>2. CASE j # Len(wal) + 1
        <5>1. j \in 1 .. Len(wal) /\ at[k] + j \in 1 .. Len(w)
          BY <1>1, <3>2, <4>2
        <5> QED
          BY <1>2, <2>1, <3>1, <5>1
      <4> QED
        BY <4>1, <4>2
    <3>4. u[k + 1] = u[k] + Len(wal')
      <4>1. at[k] + (Len(wal) + 1) = (at[k] + Len(wal)) + 1
        <5>1. \A m, o \in Nat : m + (o + 1) = (m + o) + 1
          OBVIOUS
        <5> QED
          BY <1>1, <3>2, <5>1
      <4> QED
        BY <1>2, <1>3, <3>1, <3>2, <4>1
    <3> QED
      BY <1>2, <3>1, <3>2, <3>3, <3>4
  <2> QED
    BY <1>1, <2>2, <2>3
<1>5. Joins(v, u)'
  BY <1>0, <1>2, <1>3, <1>4 DEF Joins
<1> QED
  BY <1>5 DEF v

(* The WAL becomes the last of the files, and an empty one follows it.     *)
LEMMA JoinsRenamed ==
    ASSUME TypeInv, IdsInv, RenameWal, \A k \in DOMAIN Sealed : Sealed[k] # seg_seq,
           NEW w, NEW at, Joins(w, at)
    PROVE  \E u : Joins(w, u)'
<1>0. PICK n : n = Len(Sealed)
  OBVIOUS
<1> DEFINE u == [k \in 1 .. n + 3 |-> IF k = n + 3 THEN Len(w) ELSE at[k]]
<1>1. /\ pc = "rename_wal" /\ keep /\ wal' = <<>> /\ archives' = [archives EXCEPT ![seg_seq] = wal]
      /\ seg_seq \in SegNos /\ archives \in [SegNos -> Seq(Line) \cup {Absent}]
      /\ seg_seq' = seg_seq /\ keep' = keep /\ manifest' = manifest /\ pc' = "write_manifest"
  BY IdTypes DEF RenameWal, WalRenamed, memory, IdsInv, Keeping, TypeInv, Counters
<1>2. Sealed \in Seq(SegNos) /\ n \in Nat /\ Sealed = manifest.wal_archives
  BY <1>0, <1>1, SealedType DEF Sealed, Place
<1>3. Sealed' = Append(Sealed, seg_seq)
  BY <1>1, <1>2 DEF Sealed, Place
<1>4. /\ Len(Sealed') = n + 1 /\ Sealed'[n + 1] = seg_seq
      /\ \A k \in 1 .. n : Sealed'[k] = Sealed[k] /\ Sealed[k] # seg_seq /\ Sealed[k] \in SegNos
  BY <1>0, <1>1, <1>2, <1>3
<1>5. /\ \A k \in 1 .. n : FileAt(k)' = FileAt(k)
      /\ FileAt(n + 1)' = wal /\ FileAt(n + 1) = wal /\ FileAt(n + 2)' = <<>>
  <2>1. ASSUME NEW k \in 1 .. n PROVE FileAt(k)' = FileAt(k)
    <3>1. k <= n /\ k <= n + 1
      BY <1>2
    <3>2. archives'[Sealed[k]] = archives[Sealed[k]]
      BY <1>1, <1>4
    <3> QED
      BY <1>0, <1>4, <3>1, <3>2 DEF FileAt
  <2>2. FileAt(n + 1)' = wal
    <3>1. archives'[seg_seq] = wal
      BY <1>1
    <3>2. FileAt(n + 1)' = archives'[Sealed'[n + 1]]
      <4>1. n + 1 <= Len(Sealed')
        BY <1>2, <1>4
      <4> QED
        BY <4>1 DEF FileAt
    <3> QED
      BY <1>4, <3>1, <3>2
  <2>3. FileAt(n + 1) = wal /\ FileAt(n + 2)' = <<>>
    BY <1>0, <1>1, <1>2, <1>4 DEF FileAt
  <2> QED
    BY <2>1, <2>2, <2>3
<1>6. /\ w \in Seq(PlainLine) /\ Len(w) \in Nat /\ wal \in Seq(PlainLine)
      /\ at \in [1 .. n + 2 -> 0 .. Len(w)] /\ at[1] = 0 /\ at[n + 2] = Len(w)
  BY <1>0, JoinsType, JoinsEnd
<1>7. /\ u \in [1 .. n + 3 -> 0 .. Len(w)] /\ u[n + 3] = Len(w)
      /\ \A k \in 1 .. n + 2 : u[k] = at[k]
  <2>1. /\ n + 3 \in 1 .. n + 3 /\ Len(w) \in 0 .. Len(w)
        /\ \A k \in 1 .. n + 2 : k \in 1 .. n + 3 /\ k # n + 3
        /\ \A k \in 1 .. n + 3 : k # n + 3 => k \in 1 .. n + 2
    BY <1>2, <1>6
  <2> QED
    BY <1>6, <2>1
<1> HIDE DEF u
<1>8. ASSUME NEW k \in 1 .. n + 2
      PROVE  /\ FileAt(k)' \in Seq(PlainLine) /\ u[k + 1] = u[k] + Len(FileAt(k)')
             /\ \A j \in 1 .. Len(FileAt(k)') : w[u[k] + j] = FileAt(k)'[j]
  <2>1. CASE k \in 1 .. n + 1
    <3>1. FileAt(k)' = FileAt(k)
      <4>1. k \in 1 .. n \/ k = n + 1
        BY <1>2, <2>1
      <4> QED
        BY <1>5, <4>1
    <3>2. u[k] = at[k] /\ u[k + 1] = at[k + 1]
      <4>1. k \in 1 .. n + 2 /\ k + 1 \in 1 .. n + 2
        BY <1>2, <2>1
      <4> QED
        BY <1>7, <4>1
    <3>3. /\ FileAt(k) \in Seq(PlainLine) /\ at[k + 1] = at[k] + Len(FileAt(k))
          /\ \A j \in 1 .. Len(FileAt(k)) : w[at[k] + j] = FileAt(k)[j]
      BY <1>0, <2>1, JoinsType
    <3> QED
      BY <3>1, <3>2, <3>3
  <2>2. CASE k = n + 2
    <3>1. n + 2 \in 1 .. n + 2 /\ k + 1 = n + 3
      BY <1>2, <2>2
    <3>2. u[k] = Len(w) /\ u[k + 1] = Len(w)
      BY <1>6, <1>7, <2>2, <3>1
    <3>3. FileAt(k)' = <<>>
      <4>1. ~(k <= Len(Sealed'))
        BY <1>2, <1>4, <2>2
      <4> QED
        BY <1>1, <4>1 DEF FileAt
    <3>4. Len(<<>>) = 0 /\ <<>> \in Seq(PlainLine)
      OBVIOUS
    <3> QED
      BY <1>6, <3>2, <3>3, <3>4
  <2> QED
    BY <1>2, <2>1, <2>2
<1>9. u[1] = 0 /\ Len(Sealed') + 2 = n + 3 /\ Len(Sealed') + 1 = n + 2
  <2>1. 1 \in 1 .. n + 2
    BY <1>2
  <2> QED
    BY <1>2, <1>4, <1>6, <1>7, <2>1
<1>10. Joins(w, u)'
  BY <1>6, <1>7, <1>8, <1>9 DEF Joins
<1> QED
  BY <1>10

(* The file and the line at which open() is.                               *)
LEMMA JoinsRead ==
    ASSUME TypeInv, IdsInv, pc = "replay", NEW w, NEW at, Joins(w, at)
    PROVE  /\ Sealed = manifest.wal_archives /\ Read(at) \in 0 .. Len(w)
           /\ ~LogRead => /\ Read(at) + 1 \in 1 .. Len(w)
                          /\ w[Read(at) + 1] = LogFile[pos + 1]
           /\ LogRead => Read(at) = at[file + 1]
           /\ file > Len(manifest.wal_archives) => at[file + 1] = Len(w)
<1>1. Sealed = manifest.wal_archives /\ Len(Sealed) \in Nat
  BY SealedType DEF Sealed, Place
<1>2. /\ file \in 1 .. Len(Sealed) + 1 /\ pos \in 0 .. Len(LogFile) /\ Len(LogFile) \in Nat
      /\ LogRead <=> pos = Len(LogFile)
      /\ ~LogRead => pos + 1 \in 1 .. Len(LogFile)
  BY <1>1, LogFacts
<1>3. LogFile = FileAt(file)
  <2>1. CASE file > Len(Sealed)
    BY <1>1, <1>2, <2>1 DEF LogFile, FileAt
  <2>2. CASE file <= Len(Sealed)
    <3>1. FileAt(file) = archives[Sealed[file]] /\ FileAt(file) \in Seq(PlainLine)
      BY <1>2, <2>2, JoinsType DEF FileAt
    <3>2. FileAt(file) # Absent
      <4>1. Seq(PlainLine) \subseteq Seq(Line)
        BY DEF PlainLine
      <4> QED
        BY <3>1, <4>1, ConstantsAssumption
    <3>3. ~(file > Len(Sealed))
      BY <1>1, <1>2, <2>2
    <3> QED
      BY <1>1, <3>1, <3>2, <3>3 DEF LogFile
  <2> QED
    BY <1>1, <1>2, <2>1, <2>2
<1>4. /\ at[file] \in Nat /\ at[file] <= Len(w) /\ Len(w) \in Nat
      /\ at[file + 1] = at[file] + Len(LogFile)
      /\ \A j \in 1 .. Len(LogFile) : at[file] + j \in 1 .. Len(w) /\ w[at[file] + j] = LogFile[j]
  BY <1>1, <1>2, <1>3, JoinsType
<1>5. Read(at) \in 0 .. Len(w)
  <2>1. CASE pos = 0
    BY <1>4, <2>1 DEF Read
  <2>2. CASE pos # 0
    <3>1. pos \in 1 .. Len(LogFile)
      BY <1>2, <2>2
    <3> QED
      BY <1>4, <3>1 DEF Read
  <2> QED
    BY <2>1, <2>2
<1>6. ASSUME ~LogRead
      PROVE  Read(at) + 1 \in 1 .. Len(w) /\ w[Read(at) + 1] = LogFile[pos + 1]
  <2>1. Read(at) + 1 = at[file] + (pos + 1)
    <3>1. \A m, n \in Nat : (m + n) + 1 = m + (n + 1)
      OBVIOUS
    <3>2. pos \in Nat
      BY <1>2
    <3> QED
      BY <1>4, <3>1, <3>2 DEF Read
  <2> QED
    BY <1>2, <1>4, <1>6, <2>1
<1>7. LogRead => Read(at) = at[file + 1]
  BY <1>2, <1>4 DEF Read
<1>8. file > Len(Sealed) => at[file + 1] = Len(w)
  <2>1. file > Len(Sealed) => file + 1 = Len(Sealed) + 2
    BY <1>1, <1>2
  <2> QED
    BY <2>1, JoinsType
<1> QED
  BY <1>1, <1>5, <1>6, <1>7, <1>8

-----------------------------------------------------------------------------
(* The invariant.                                                          *)

(* What recovery has to rebuild: the maps, or those of before the death.   *)
Known == IF pc \in Recovering THEN before ELSE Rows

(* t is a trace of i through the log w, of which n lines have been read.   *)
(* The next checkpoint that does not keep the log leaves only wal.jsonl    *)
(* to be replayed, so that this too must be settled.                       *)
Follows(t, i, w, n) ==
    /\ Trace(t, i, w) /\ t[0] = At(LoadedRows, i)
    /\ Single(t[Len(w)]) /\ Settled(i, w, t[Len(w)]) /\ Settled(i, wal, t[Len(w)])
    /\ ErasedOnce(t, i, w)
    /\ i \notin purged => t[Len(w)] = At(Known, i)
    /\ i \in purged => Expendable(t[Len(w)])
    /\ pc = "replay" => t[n] = At(Rows, i)
    /\ pc = "replayed" => t[Len(w)] = At(Rows, i)
Unlogged(w) == \A i \in Ids \ issued : \A k \in 1 .. Len(w) : w[k].id # i
Tells(w, at) == /\ Joins(w, at) /\ Unlogged(w)
                /\ \A i \in Ids : \E t : Follows(t, i, w, Read(at))
Traced == \E w, at : Tells(w, at)

(* A row that compact took is nowhere until recovery brings it back.       *)
PurgedGone == \A i \in purged : i \in issued /\ At(Known, i) = Gone

(* Nothing knows of an id that was never given out.                        *)
UnissuedGone ==
    \A i \in Ids \ issued : At(Known, i) = Gone /\ At(Rows, i) = Gone /\ At(LoadedRows, i) = Gone

(* Where callers import, no id loses its row, so that none is given twice. *)
ImportsFresh == "import_row" \in Ops => purged = {} /\ \A i \in issued : At(Known, i) # Gone
SummaryFresh == pc = "archiving" => next_id - 1 \notin issued

(* The segment that a checkpoint wrote stays what is in memory.            *)
SegmentCurrent ==
    /\ pc \in {"rename_wal", "write_manifest"} => segs[seg_seq] = Rows
    /\ pc \in {"cleanup", "reset_wal"} => manifest.snapshot # 0 /\ segs[manifest.snapshot] = Rows
    /\ Callable => manifest.snapshot <= seg_seq

(* The number of a new segment is above those of all the listed files.     *)
ListBelow ==
    /\ \A k \in DOMAIN manifest.wal_archives : manifest.wal_archives[k] <= manifest.snapshot
    /\ pc \in {"rename_wal", "write_manifest"} => manifest.snapshot < seg_seq

RecoveryInv == /\ Traced /\ PurgedGone /\ UnissuedGone /\ ImportsFresh /\ SummaryFresh
               /\ SegmentCurrent /\ ListBelow

(* The invariants of the other modules that the steps below rest on.       *)
Base == TypeInv /\ IdsInv

(* An import of an id whose row is gone, deleted or compacted, may put the *)
(* second row into the other map than the first: replayed over a segment   *)
(* that holds the second, the WAL leaves both.                             *)
NoReimport == "import_row" \in Ops => "hard_delete" \notin Ops /\ "compact" \notin Ops

LEMMA BaseFacts ==
    ASSUME Base
    PROVE  /\ Maps /\ wal \in Seq(PlainLine) /\ Len(wal) \in Nat
           /\ manifest.snapshot \in 0 .. MaxSeg /\ seg_seq \in Nat /\ MaxSeg \in Nat
           /\ issued \subseteq Ids
<1>1. wal \in Seq(Line) /\ \A k \in DOMAIN wal : wal[k] # Torn
  BY DEF Base, TypeInv, TypeOK, DiskOK, IdsInv, PlainLogs, PlainFile
<1>2. wal \in Seq(PlainLine)
  <2>1. /\ Len(wal) \in Nat /\ DOMAIN wal = 1 .. Len(wal)
        /\ \A k \in 1 .. Len(wal) : wal[k] \in PlainLine
    BY <1>1 DEF PlainLine
  <2>2. wal = [k \in 1 .. Len(wal) |-> wal[k]]
    BY <1>1, <2>1
  <2> QED
    BY <2>1, <2>2
<1>3. /\ manifest.snapshot \in 0 .. MaxSeg /\ seg_seq \in Nat /\ MaxSeg \in Nat
      /\ Maps /\ issued \subseteq Ids
  BY Bounds DEF Base, TypeInv, TypeOK, MemoryOK, DiskOK, HistoryOK, Manifest, Maps
<1> QED
  BY <1>2, <1>3

(* A step that changes no log keeps what the log tells, if the traces are. *)
LEMMA TracedKept ==
    ASSUME Traced, UNCHANGED <<Sealed, archives, wal>>, issued \subseteq issued',
           \A w, at : Joins(w, at) =>
               \A i \in Ids : \A t : Follows(t, i, w, Read(at)) => Follows(t, i, w, Read(at))'
    PROVE  Traced'
<1>1. PICK w, at : Tells(w, at)
  BY DEF Traced
<1>2. Joins(w, at)'
  BY <1>1, JoinsKept DEF Tells
<1>3. Unlogged(w)'
  BY <1>1 DEF Tells, Unlogged
<1>4. \A i \in Ids : \E t : Follows(t, i, w, Read(at))'
  BY <1>1 DEF Tells
<1> QED
  BY <1>2, <1>3, <1>4 DEF Tells, Traced

LEMMA InitRecoveryInv == Init => RecoveryInv
<1> SUFFICES ASSUME Init PROVE RecoveryInv
  OBVIOUS
<1>1. \A i \in Ids : At(Rows, i) = Gone /\ At(LoadedRows, i) = Gone /\ At(Known, i) = Gone
  BY DEF Init, At, Rows, LoadedRows, Known, Empty, Plain, Gone, Recovering
<1>2. wal = <<>> /\ Len(wal) = 0 /\ Gone \in Status /\ Single(Gone) /\ pc = "idle" /\ purged = {}
  BY DEF Init, Gone, Status, Slot, Single
<1>3. ASSUME NEW i \in Ids, NEW n PROVE \E t : Follows(t, i, wal, n)
  <2>1. PICK t : Trace(t, i, wal) /\ t[0] = Gone /\ t[Len(wal)] = Gone
    BY <1>2, TraceEmpty DEF Leads
  <2>2. Settled(i, wal, Gone)
    BY <1>2, TraceEmpty DEF Settled, After, Outcome, Logged
  <2>3. ErasedOnce(t, i, wal)
    BY <1>2 DEF ErasedOnce
  <2> QED
    BY <1>1, <1>2, <2>1, <2>2, <2>3 DEF Follows
<1>4. PurgedGone /\ UnissuedGone /\ ImportsFresh /\ SummaryFresh
  BY <1>1, <1>2 DEF Init, PurgedGone, UnissuedGone, ImportsFresh, SummaryFresh
<1>5. SegmentCurrent /\ ListBelow
  BY DEF Init, SegmentCurrent, ListBelow, Callable
<1>6. Traced
  <2>1. Sealed = <<>> /\ wal \in Seq(PlainLine)
    BY DEF Init, Sealed, Place
  <2>2. PICK at : Joins(wal, at)
    BY <2>1, JoinsOne
  <2>3. Unlogged(wal)
    BY <1>2 DEF Unlogged
  <2> QED
    BY <1>3, <2>2, <2>3 DEF Tells, Traced
<1> QED
  BY <1>4, <1>5, <1>6 DEF RecoveryInv

LEMMA SealedCalling ==
    ASSUME pc \in Calling, pc' \in Calling, UNCHANGED files
    PROVE  UNCHANGED Sealed
BY DEF Calling, Running, Sealed, Place, files

(* A step of the caller or of the holder of the lock that changes no map.  *)
LEMMA QuietRecovery ==
    ASSUME Base, RecoveryInv, pc \in Calling, pc' \in Calling,
           UNCHANGED <<docs, archive, seg_seq, wal, files, issued, purged>>,
           pc' = "archiving" => next_id' - 1 \notin issued
    PROVE  RecoveryInv'
<1>1. UNCHANGED Known /\ UNCHANGED Rows /\ UNCHANGED LoadedRows
  BY CallingFacts DEF Known, Rows, LoadedRows, files
<1>2. Traced'
  <2>1. ASSUME NEW w, NEW at, NEW i \in Ids, NEW t, Follows(t, i, w, Read(at))
        PROVE  Follows(t, i, w, Read(at))'
    BY <1>1, <2>1, CallingFacts DEF Follows
  <2>2. UNCHANGED <<Sealed, archives, wal>>
    BY SealedCalling DEF files
  <2> QED
    BY <2>1, <2>2, TracedKept DEF RecoveryInv
<1>3. PurgedGone' /\ UnissuedGone' /\ ImportsFresh'
  BY <1>1 DEF RecoveryInv, PurgedGone, UnissuedGone, ImportsFresh
<1>4. SummaryFresh' /\ SegmentCurrent' /\ ListBelow'
  BY CallingFacts DEF RecoveryInv, SummaryFresh, SegmentCurrent, ListBelow, Callable, files
<1> QED
  BY <1>2, <1>3, <1>4 DEF RecoveryInv

(* A step that logs what it does to the maps.                              *)
LEMMA LoggedRecovery ==
    ASSUME Base, RecoveryInv, Maps', pc \in Calling, pc' \in Calling,
           UNCHANGED <<seg_seq, files, purged>>,
           NEW l \in PlainLine, Log(l), Does(l),
           l.op = "remember" => l.id \notin issued /\ issued' = issued \cup {l.id},
           l.op # "remember" => At(Rows, l.id) # Gone /\ issued' = issued,
           l.op = "hard_delete" => "import_row" \notin Ops,
           pc' = "archiving" => next_id' - 1 \notin issued'
    PROVE  RecoveryInv'
<1> USE BaseFacts
<1>1. wal' = Append(wal, l) /\ l.id \in Ids
  <2>1. wal # <<>> => Len(wal) \in DOMAIN wal
    OBVIOUS
  <2> QED
    BY <2>1, LineCases DEF Log, Written, EndsTorn, PlainLine
<1>2. /\ Known = Rows /\ Known' = Rows' /\ UNCHANGED LoadedRows
      /\ pc' # "replay" /\ pc' # "replayed"
  BY CallingFacts DEF Known, LoadedRows, files
<1>3. \A j \in Ids : At(Rows, j) \in Status /\ At(Rows, j)' = Moved(At(Rows, j), l, j)
  BY RowsStatus DEF Does
<1>4. l.id \notin purged
  BY <1>2 DEF RecoveryInv, PurgedGone
<1>5. PICK w, at : Tells(w, at)
  BY DEF RecoveryInv, Traced
<1>6. w \in Seq(PlainLine) /\ Len(w) \in Nat
      /\ \A k \in 1 .. Len(wal) : \E j \in 1 .. Len(w) : w[j] = wal[k]
  BY <1>5, JoinsType, JoinsEnd DEF Tells, Base
<1> DEFINE v == Append(w, l)
<1>7. l.op = "remember" => /\ At(Rows, l.id) = Gone
                           /\ \A k \in DOMAIN w : w[k].id # l.id
                           /\ \A k \in DOMAIN wal : wal[k].id # l.id
  <2>1. l.op = "remember" => At(Rows, l.id) = Gone /\ \A k \in 1 .. Len(w) : w[k].id # l.id
    BY <1>5, <1>1, <1>2 DEF RecoveryInv, UnissuedGone, Tells, Unlogged
  <2>2. DOMAIN w = 1 .. Len(w) /\ DOMAIN wal = 1 .. Len(wal)
    BY <1>6
  <2> QED
    BY <1>6, <2>1, <2>2
<1>8. PICK x : Joins(v, x)'
  <2>1. UNCHANGED <<Sealed, archives>>
    BY SealedCalling DEF files
  <2> QED
    BY <1>5, <1>1, <2>1, JoinsAppend DEF Tells, Base
<1>9. ASSUME NEW j \in Ids PROVE \E u : Follows(u, j, v, Read(x))'
  <2>1. PICK t : Follows(t, j, w, Read(at))
    BY <1>5 DEF Tells
  <2>2. PICK u : /\ Trace(u, j, Append(w, l))
                 /\ \A k \in 0 .. Len(w) : u[k] = t[k]
                 /\ u[Len(Append(w, l))] = Moved(t[Len(w)], l, j)
    BY <1>6, <2>1, TraceExtends DEF Follows
  <2>3. Trace(u, j, v) /\ u[0] = At(LoadedRows, j)'
    BY <1>6, <1>2, <2>1, <2>2 DEF Follows
  <2> DEFINE c == t[Len(w)]
             e == Moved(c, l, j)
  <2>4. /\ c \in Status /\ Single(c) /\ (j \notin purged => c = At(Rows, j))
        /\ Settled(j, w, c) /\ Settled(j, wal, c)
    BY <1>6, <1>2, <2>1 DEF Follows, Trace
  <2>5. Single(e) /\ Settled(j, v, e) /\ Settled(j, wal', e)
    <3>1. CASE l.id # j
      BY <1>1, <1>6, <2>4, <3>1, SettledOther DEF Moved
    <3>2. CASE l.id = j /\ l.op # "remember"
      BY <1>1, <1>6, <2>4, <3>2, SettledLine, EffectAges DEF Moved
    <3>3. CASE l.id = j /\ l.op = "remember"
      <4>1. c = Gone
        BY <1>4, <1>7, <2>4, <3>3
      <4> QED
        BY <1>1, <1>6, <1>7, <3>3, <4>1, SettledBirth DEF Moved
    <3> QED
      BY <3>1, <3>2, <3>3
  <2>6. j \notin purged' => e = At(Known, j)'
    BY <1>2, <1>3, <2>4
  <2>7. u[Len(v)] = e
    BY <2>2
  <2>8. j \in purged' => Expendable(e)
    BY <1>4, <2>1 DEF Follows, Moved
  <2>9. ErasedOnce(u, j, v)
    <3>1. ASSUME NEW k \in 1 .. Len(w), w[k].op = "hard_delete", w[k].id = j
          PROVE  Single(u[k-1]) /\ e = Gone
      <4>1. Single(t[k-1]) /\ c = Gone
        BY <2>1, <3>1 DEF Follows, ErasedOnce
      <4>2. u[k-1] = t[k-1]
        <5>1. k - 1 \in 0 .. Len(w)
          BY <1>6, <3>1
        <5> QED
          BY <2>2, <5>1
      <4>3. l.id # j
        BY <1>4, <1>7, <2>4, <3>1, <4>1
      <4> QED
        BY <4>1, <4>2, <4>3 DEF Moved
    <3>2. ASSUME l.op = "hard_delete", l.id = j
          PROVE  Single(u[Len(w)]) /\ e = Gone
      <4>1. u[Len(w)] = c
        <5>1. Len(w) \in 0 .. Len(w)
          BY <1>6
        <5> QED
          BY <2>2, <5>1
      <4>2. Effect(c, l) = Gone
        BY <2>4, <3>2 DEF Effect, Single, Gone
      <4> QED
        BY <2>4, <3>2, <4>1, <4>2 DEF Moved
    <3>3. /\ Len(v) = Len(w) + 1 /\ v[Len(w) + 1] = l
          /\ \A k \in 1 .. Len(w) : v[k] = w[k]
          /\ \A k \in 1 .. Len(w) + 1 : k \in 1 .. Len(w) \/ k = Len(w) + 1
          /\ (Len(w) + 1) - 1 = Len(w)
      BY <1>6
    <3> QED
      BY <2>7, <3>1, <3>2, <3>3 DEF ErasedOnce
  <2> QED
    BY <1>2, <2>3, <2>5, <2>6, <2>7, <2>8, <2>9 DEF Follows
<1>10. PurgedGone'
  <2>1. \A i \in purged : i \in Ids /\ l.id # i /\ At(Rows, i) = Gone
    BY <1>2, <1>4 DEF RecoveryInv, PurgedGone
  <2> QED
    BY <1>2, <1>3, <2>1 DEF RecoveryInv, PurgedGone, Moved
<1>11. ASSUME NEW i \in Ids \ issued'
      PROVE  i \notin issued /\ l.id # i
  <2>1. At(Rows, l.id) # Gone => l.id \in issued
    BY <1>1, <1>2 DEF RecoveryInv, UnissuedGone
  <2> QED
    BY <2>1
<1>12. UnissuedGone'
  <2>1. ASSUME NEW i \in Ids \ issued'
        PROVE  At(Known, i)' = Gone /\ At(Rows, i)' = Gone /\ At(LoadedRows, i)' = Gone
    BY <1>2, <1>3, <1>11 DEF RecoveryInv, UnissuedGone, Moved
  <2> QED
    BY <2>1 DEF UnissuedGone
<1>13. ImportsFresh'
  <2>1. ASSUME "import_row" \in Ops, NEW i \in issued' PROVE At(Rows, i)' # Gone
    <3>0. i \in Ids
      BY <1>1
    <3>1. CASE l.id # i
      BY <1>2, <1>3, <2>1, <3>0, <3>1 DEF RecoveryInv, ImportsFresh, Moved
    <3>2. CASE l.id = i /\ l.op = "remember"
      BY <1>3, <1>7, <3>2, SettledBirth, <1>1 DEF Moved
    <3>3. CASE l.id = i /\ l.op # "remember"
      <4>1. At(Rows, i) # Gone /\ At(Rows, i) \in Status
        BY <1>3, <3>0, <3>3
      <4>2. Effect(At(Rows, i), l) # Gone
        BY <2>1, <3>3, <4>1, LineCases, DeadType DEF Effect, Status, Slot, Gone
      <4> QED
        BY <1>3, <3>0, <3>3, <4>2 DEF Moved
    <3> QED
      BY <3>1, <3>2, <3>3
  <2> QED
    BY <1>2, <2>1 DEF RecoveryInv, ImportsFresh
<1>14. SummaryFresh' /\ SegmentCurrent' /\ ListBelow'
  BY CallingFacts DEF RecoveryInv, SummaryFresh, SegmentCurrent, ListBelow, Callable, files
<1>15. Traced'
  <2>1. Unlogged(v)'
    <3>1. ASSUME NEW i \in Ids \ issued', NEW k \in 1 .. Len(v) PROVE v[k].id # i
      <4>0. i \in Ids \ issued
        BY <1>11
      <4>1. k \in 1 .. Len(w) => v[k] = w[k] /\ w[k].id # i
        <5>1. k \in 1 .. Len(w) => v[k] = w[k]
          BY <1>6
        <5> QED
          BY <1>5, <4>0, <5>1 DEF Tells, Unlogged
      <4>2. k \notin 1 .. Len(w) => v[k] = l
        <5>1. Len(v) = Len(w) + 1 /\ v[Len(w) + 1] = l
          BY <1>6
        <5>2. \A n \in Nat : \A m \in 1 .. n + 1 : m \notin 1 .. n => m = n + 1
          OBVIOUS
        <5> QED
          BY <1>6, <5>1, <5>2
      <4> QED
        BY <1>11, <4>1, <4>2
    <3> QED
      BY <3>1 DEF Unlogged
  <2> QED
    BY <1>9, <1>8, <2>1 DEF Tells, Traced
<1> QED
  BY <1>10, <1>12, <1>13, <1>14, <1>15 DEF RecoveryInv

-----------------------------------------------------------------------------
(* The operations.                                                         *)

LEMMA BeginRecovery ==
    ASSUME Base, RecoveryInv,
           \/ \E s \in Subjects \cup {NoSubject}, tag \in Tags : BeginRemember(s, tag)
           \/ \E picked \in SUBSET Ids : BeginRecall(picked)
           \/ \E s \in Subjects : BeginForgetSubject(s)
           \/ \E group \in SUBSET Ids : BeginGroup(group)
           \/ EndForgetSubject \/ EndConsolidate
    PROVE  RecoveryInv'
<1>1. CASE \E group \in SUBSET Ids : BeginGroup(group)
  <2>1. PICK group \in SUBSET Ids : BeginGroup(group)
    BY <1>1
  <2>2. /\ pc \in Calling /\ pc' \in Calling /\ next_id' = next_id + 1
        /\ UNCHANGED <<docs, archive, seg_seq, wal, files, issued, purged>>
    BY <2>1 DEF BeginGroup, Enter, ghosts, Calling, Running
  <2>3. next_id' - 1 \notin issued
    <3>1. \A i \in issued : i < next_id
      BY <2>2, CallingFacts DEF Base, IdsInv, IssuedBelow, Callable
    <3> QED
      BY <2>2, <3>1, IdTypes DEF Base
  <2> QED
    BY <2>2, <2>3, QuietRecovery
<1>2. CASE \/ \E s \in Subjects \cup {NoSubject}, tag \in Tags : BeginRemember(s, tag)
           \/ \E picked \in SUBSET Ids : BeginRecall(picked)
           \/ \E s \in Subjects : BeginForgetSubject(s)
           \/ EndForgetSubject \/ EndConsolidate
  <2>1. /\ pc \in Calling /\ pc' \in Calling /\ pc' # "archiving"
        /\ UNCHANGED <<docs, archive, seg_seq, wal, files, issued, purged>>
    BY <1>2 DEF BeginRemember, BeginRecall, BeginForgetSubject, EndForgetSubject, EndConsolidate,
                Enter, memory, ghosts, Calling, Running
  <2> QED
    BY <2>1, QuietRecovery
<1> QED
  BY <1>1, <1>2

(* Which line a step logs, and that its id has a row.                      *)
LEMMA HeldStatus ==
    ASSUME Maps, NEW i \in Ids
    PROVE  At(Rows, i) # Gone <=> i \in Held(docs) \cup Held(archive)
BY RowsStatus DEF Held, Gone, Status

LEMMA LinesPlain ==
    ASSUME NEW i \in Ids
    PROVE  /\ \A r \in Record, a \in BOOLEAN : RememberLine(i, r, a) \in PlainLine
           /\ ForgetLine(i) \in PlainLine /\ TouchLine(i) \in PlainLine
           /\ HardDeleteLine(i) \in PlainLine /\ ArchiveLine(i) \in PlainLine
BY LineTypes, LineFacts DEF PlainLine

LEMMA RunningSingle ==
    ASSUME Base, RecoveryInv, pc \in Running, NEW i \in Ids
    PROVE  Single(At(Rows, i))
<1>1. Known = Rows
  BY DEF Known, Running, Recovering
<1>2. CASE i \in purged
  BY <1>1, <1>2 DEF RecoveryInv, PurgedGone, Single, Gone
<1>3. CASE i \notin purged
  BY <1>1, <1>3 DEF RecoveryInv, Traced, Tells, Follows
<1> QED
  BY <1>2, <1>3

(* What a step that logs a line does to the maps is what the line says.    *)
LEMMA CloseVersionDoes ==
    ASSUME Base, RecoveryInv, NEW i \in Ids, CloseVersion(i)
    PROVE  Does(ForgetLine(i)) /\ At(Rows, i) # Gone
<1>1. pc \in Running /\ i \in todo
  BY DEF CloseVersion, Running
<1>2. i \in LiveIn(docs) \cup LiveIn(archive)
  BY <1>1 DEF CloseVersion, Base, TypeInv, TodoThere
<1>3. At(Rows, i) # Gone
  BY <1>2, HeldStatus, BaseFacts DEF LiveIn
<1>4. CloseFirst(i)
  <2>1. CASE i \in LiveIn(docs)
    BY <2>1 DEF CloseVersion, CloseFirst, LiveIn, Held
  <2>2. CASE i \notin LiveIn(docs)
    <3>1. archive[i] # Absent /\ archive' = Closed(archive, i) /\ docs' = docs
      BY <1>2, <2>2 DEF CloseVersion, LiveIn, Held
    <3>2. docs[i] = Absent
      BY <1>1, <3>1, RunningSingle, RowsStatus, BaseFacts DEF Single
    <3> QED
      BY <3>1, <3>2 DEF CloseFirst
  <2> QED
    BY <2>1, <2>2
<1>5. Does(ForgetLine(i))
  BY <1>4, CloseFirstDoes, BaseFacts DEF ForgetLine
<1> QED
  BY <1>3, <1>5

LEMMA CloseVersionRecovery ==
    ASSUME Base, RecoveryInv, NEW i \in Ids, CloseVersion(i), Maps'
    PROVE  RecoveryInv'
<1>1. /\ pc \in Calling /\ pc' = pc /\ pc' # "archiving"
      /\ UNCHANGED <<seg_seq, files, purged>> /\ UNCHANGED issued
      /\ Log(ForgetLine(i))
  BY DEF CloseVersion, ghosts, Calling, Running
<1>2. ForgetLine(i) \in PlainLine /\ ForgetLine(i).op = "forget" /\ ForgetLine(i).id = i
  BY LinesPlain DEF ForgetLine
<1> QED
  BY <1>1, <1>2, CloseVersionDoes, LoggedRecovery

LEMMA ForgetDoes ==
    ASSUME Base, NEW i \in Ids, Forget(i)
    PROVE  Does(ForgetLine(i)) /\ At(Rows, i) # Gone
<1>1. CloseFirst(i)
  BY DEF Forget
<1>2. At(Rows, i) # Gone
  BY <1>1, HeldStatus, BaseFacts DEF CloseFirst, Held
<1>3. Does(ForgetLine(i))
  BY <1>1, CloseFirstDoes, BaseFacts DEF ForgetLine
<1> QED
  BY <1>2, <1>3

LEMMA ForgetRecovery ==
    ASSUME Base, RecoveryInv, NEW i \in Ids, Forget(i), Maps'
    PROVE  RecoveryInv'
<1>1. /\ pc \in Calling /\ pc' = pc /\ pc' # "archiving"
      /\ UNCHANGED <<seg_seq, files, purged>> /\ UNCHANGED issued
      /\ Log(ForgetLine(i))
  BY DEF Forget, Enter, holder, ghosts, Calling, Running
<1>2. ForgetLine(i) \in PlainLine /\ ForgetLine(i).op = "forget" /\ ForgetLine(i).id = i
  BY LinesPlain DEF ForgetLine
<1> QED
  BY <1>1, <1>2, ForgetDoes, LoggedRecovery

LEMMA HardDeleteDoes ==
    ASSUME Base, NEW i \in Ids, HardDelete(i)
    PROVE  Does(HardDeleteLine(i)) /\ At(Rows, i) # Gone
<1>1. DropFirst(i)
  BY DEF HardDelete
<1>2. At(Rows, i) # Gone
  BY <1>1, HeldStatus, BaseFacts DEF DropFirst, Held
<1>3. Does(HardDeleteLine(i))
  BY <1>1, DropFirstDoes, BaseFacts DEF HardDeleteLine
<1> QED
  BY <1>2, <1>3

LEMMA HardDeleteRecovery ==
    ASSUME NoReimport, Base, RecoveryInv, NEW i \in Ids, HardDelete(i), Maps'
    PROVE  RecoveryInv'
<1>1. /\ pc \in Calling /\ pc' = pc /\ pc' # "archiving"
      /\ UNCHANGED <<seg_seq, files, purged>> /\ UNCHANGED issued
      /\ Log(HardDeleteLine(i)) /\ "import_row" \notin Ops
  BY DEF HardDelete, Enter, holder, NoReimport, Calling, Running
<1>2. /\ HardDeleteLine(i) \in PlainLine /\ HardDeleteLine(i).op = "hard_delete"
      /\ HardDeleteLine(i).id = i
  BY LinesPlain DEF HardDeleteLine
<1> QED
  BY <1>1, <1>2, HardDeleteDoes, LoggedRecovery

LEMMA TouchDoes ==
    ASSUME Base, NEW i \in Ids, Touch(i)
    PROVE  Does(TouchLine(i)) /\ At(Rows, i) # Gone
<1>1. docs[i] # Absent /\ docs' = Hit(docs, i) /\ archive' = archive
  BY DEF Touch, Base, TypeInv, TodoThere, Held
<1>2. At(Rows, i) # Gone
  BY <1>1, HeldStatus, BaseFacts DEF Held
<1>3. TouchLine(i).op = "touch" /\ TouchLine(i).id = i
  BY DEF TouchLine
<1> QED
  BY <1>1, <1>2, <1>3, HitDoes, BaseFacts

LEMMA TouchRecovery ==
    ASSUME Base, RecoveryInv, NEW i \in Ids, Touch(i), Maps'
    PROVE  RecoveryInv'
<1>1. /\ pc \in Calling /\ pc' \in Calling /\ pc' # "archiving"
      /\ UNCHANGED <<seg_seq, files, purged>> /\ UNCHANGED issued
      /\ Log(TouchLine(i))
  BY DEF Touch, ghosts, Calling, Running
<1>2. TouchLine(i) \in PlainLine /\ TouchLine(i).op = "touch" /\ TouchLine(i).id = i
  BY LinesPlain DEF TouchLine
<1> QED
  BY <1>1, <1>2, TouchDoes, LoggedRecovery

LEMMA ArchiveMemberDoes ==
    ASSUME Base, NEW i \in Ids, ArchiveMember(i)
    PROVE  Does(ArchiveLine(i)) /\ At(Rows, i) # Gone
<1>1. MoveToArchive(i)
  BY DEF ArchiveMember
<1>2. At(Rows, i) # Gone
  BY <1>1, HeldStatus, BaseFacts DEF MoveToArchive, Held
<1>3. Does(ArchiveLine(i))
  BY <1>1, MoveToArchiveDoes, BaseFacts DEF ArchiveLine
<1> QED
  BY <1>2, <1>3

LEMMA ArchiveMemberRecovery ==
    ASSUME Base, RecoveryInv, NEW i \in Ids, ArchiveMember(i), Maps'
    PROVE  RecoveryInv'
<1>1. /\ pc \in Calling /\ pc' = pc /\ next_id' = next_id
      /\ UNCHANGED <<seg_seq, files, purged>> /\ UNCHANGED issued
      /\ Log(ArchiveLine(i))
  BY DEF ArchiveMember, ghosts, Calling, Running
<1>2. ArchiveLine(i) \in PlainLine /\ ArchiveLine(i).op = "archive" /\ ArchiveLine(i).id = i
  BY LinesPlain DEF ArchiveLine
<1>3. pc' = "archiving" => next_id' - 1 \notin issued'
  BY <1>1 DEF RecoveryInv, SummaryFresh
<1> QED
  BY <1>1, <1>2, <1>3, ArchiveMemberDoes, LoggedRecovery

LEMMA CommitRememberDoes ==
    ASSUME Base, CommitRemember
    PROVE  LET l == RememberLine(next_id, pending, FALSE)
           IN  Does(l) /\ l \in PlainLine /\ next_id \in Ids \ issued
<1> DEFINE l == RememberLine(next_id, pending, FALSE)
<1>1. pc \in Running /\ Insert(next_id, pending, FALSE)
  BY DEF CommitRemember, Running
<1>2. next_id \in Ids /\ pending \in Record
  BY Bounds DEF CommitRemember, Base, TypeInv, TypeOK, Counters, HolderOK, MemoryOK, Ids
<1>3. /\ l \in PlainLine /\ l.op = "remember" /\ l.id = next_id
      /\ l.row = pending /\ l.archived = FALSE
  BY <1>2, LinesPlain DEF RememberLine
<1>4. next_id \notin issued
  BY <1>1, IdTypes DEF Base, IdsInv, IssuedBelow, Callable
<1> HIDE DEF l
<1>5. Does(l)
  BY <1>1, <1>2, <1>3, InsertDoes, BaseFacts
<1> QED
  BY <1>2, <1>3, <1>4, <1>5 DEF l

LEMMA CommitRememberRecovery ==
    ASSUME Base, RecoveryInv, CommitRemember, Maps'
    PROVE  RecoveryInv'
<1> DEFINE l == RememberLine(next_id, pending, FALSE)
<1>1. /\ pc \in Calling /\ pc' \in Calling /\ pc' # "archiving"
      /\ UNCHANGED <<seg_seq, files, purged>> /\ issued' = issued \cup {next_id}
      /\ Log(l)
  BY DEF CommitRemember, Calling, Running
<1>2. l.op = "remember" /\ l.id = next_id
  BY DEF RememberLine
<1>3. Does(l) /\ l \in PlainLine /\ next_id \in Ids \ issued
  BY CommitRememberDoes
<1> HIDE DEF l
<1> QED
  BY <1>1, <1>2, <1>3, LoggedRecovery

LEMMA CommitSummaryDoes ==
    ASSUME Base, RecoveryInv, CommitSummary
    PROVE  LET l == RememberLine(next_id - 1, pending, FALSE)
           IN  Does(l) /\ l \in PlainLine /\ next_id - 1 \in Ids \ issued
<1> DEFINE i == next_id - 1
           l == RememberLine(i, pending, FALSE)
<1>1. docs' = [docs EXCEPT ![i] = pending] /\ archive' = archive
  BY DEF CommitSummary
<1>2. i \in Ids /\ pending \in Record
  BY Bounds DEF CommitSummary, Base, TypeInv, TypeOK, Counters, HolderOK, MemoryOK, Ids
<1>3. /\ l \in PlainLine /\ l.op = "remember" /\ l.id = i
      /\ l.row = pending /\ l.archived = FALSE
  BY <1>2, LinesPlain DEF RememberLine
<1>4. i \notin issued
  BY DEF CommitSummary, RecoveryInv, SummaryFresh
<1> HIDE DEF l, i
<1>5. Does(l)
  <2>1. /\ ButAt(i, docs, docs') /\ ButAt(i, archive, archive')
        /\ docs'[i] = pending /\ archive'[i] = archive[i]
    BY <1>1, <1>2, BaseFacts DEF Maps, Map, ButAt
  <2>2. Effect(At(Rows, i), l) = [d |-> Plain(docs'[i]), a |-> Plain(archive'[i])]
    BY <1>2, <1>3, <2>1, RowsStatus, BaseFacts DEF Effect
  <2> QED
    BY <1>2, <1>3, <2>1, <2>2, DoesEntry
<1> QED
  BY <1>2, <1>3, <1>4, <1>5 DEF l, i

LEMMA CommitSummaryRecovery ==
    ASSUME Base, RecoveryInv, CommitSummary, Maps'
    PROVE  RecoveryInv'
<1> DEFINE i == next_id - 1
           l == RememberLine(i, pending, FALSE)
<1>1. /\ pc \in Calling /\ pc' \in Calling /\ pc' # "archiving"
      /\ UNCHANGED <<seg_seq, files, purged>> /\ issued' = issued \cup {i}
      /\ Log(l)
  BY DEF CommitSummary, Calling, Running
<1>2. l.op = "remember" /\ l.id = i
  BY DEF RememberLine
<1>3. Does(l) /\ l \in PlainLine /\ i \in Ids \ issued
  BY CommitSummaryDoes
<1> HIDE DEF l, i
<1> QED
  BY <1>1, <1>2, <1>3, LoggedRecovery

LEMMA ImportRowDoes ==
    ASSUME Base, RecoveryInv, NEW i \in Ids, NEW r \in ImportRows, NEW arch \in BOOLEAN,
           ImportRow(i, r, arch)
    PROVE  LET l == RememberLine(i, r, arch)
           IN  Does(l) /\ l \in PlainLine /\ i \in Ids \ issued
<1> DEFINE l == RememberLine(i, r, arch)
<1>1. /\ pc \notin Recovering /\ Insert(i, r, arch) /\ "import_row" \in Ops
      /\ docs[i] = Absent /\ archive[i] = Absent
  BY DEF ImportRow, Enter, Recovering
<1>2. /\ l \in PlainLine /\ l.op = "remember" /\ l.id = i /\ l.row = r /\ l.archived = arch
  BY LinesPlain, Bounds DEF RememberLine
<1>3. i \notin issued
  <2>1. At(Rows, i) = Gone /\ Known = Rows
    BY <1>1, HeldStatus, BaseFacts DEF Held, Known
  <2> QED
    BY <1>1, <2>1 DEF RecoveryInv, ImportsFresh
<1> HIDE DEF l
<1>4. Does(l)
  BY <1>1, <1>2, InsertDoes, BaseFacts
<1> QED
  BY <1>2, <1>3, <1>4 DEF l

LEMMA ImportRowRecovery ==
    ASSUME Base, RecoveryInv, NEW i \in Ids, NEW r \in ImportRows, NEW arch \in BOOLEAN,
           ImportRow(i, r, arch), Maps'
    PROVE  RecoveryInv'
<1> DEFINE l == RememberLine(i, r, arch)
<1>1. /\ pc \in Calling /\ pc' = pc /\ pc' # "archiving"
      /\ UNCHANGED <<seg_seq, files, purged>> /\ issued' = issued \cup {i}
      /\ Log(l)
  BY DEF ImportRow, Enter, holder, Calling, Running
<1>2. l.op = "remember" /\ l.id = i
  BY DEF RememberLine
<1>3. Does(l) /\ l \in PlainLine /\ i \in Ids \ issued
  BY ImportRowDoes
<1> HIDE DEF l
<1> QED
  BY <1>1, <1>2, <1>3, LoggedRecovery

(* compact logs nothing: what it takes is purged.                          *)
CompactTaken(expired) == CompactDocs(expired) \cup CompactArchive(expired)

LEMMA CompactTakes ==
    ASSUME Base, RecoveryInv, NEW expired \in SUBSET Ids, Compact(expired)
    PROVE  /\ CompactTaken(expired) \subseteq Ids
           /\ \A i \in CompactTaken(expired) :
                 At(Rows, i) # Gone /\ Expendable(At(Rows, i)) /\ At(Rows, i)' = Gone
           /\ \A i \in Ids \ CompactTaken(expired) : At(Rows, i)' = At(Rows, i)
<1> DEFINE taken == CompactTaken(expired)
<1> USE BaseFacts DEF CompactTaken
<1>1. pc \in Running
  BY DEF Compact, Enter, Running
<1>2. taken \subseteq Held(docs) \cup Held(archive) /\ taken \subseteq Ids
  BY DEF CompactDocs, CompactArchive, Held
<1>3. ASSUME NEW i \in Ids \ taken PROVE At(Rows, i)' = At(Rows, i)
  BY DEF Compact, At, Rows
<1>4. ASSUME NEW i \in taken PROVE At(Rows, i)' = Gone
  <2>1. docs[i] = Absent \/ archive[i] = Absent
    <3>1. i \in Ids /\ Single(At(Rows, i))
      BY <1>1, <1>2, RunningSingle
    <3> QED
      BY <3>1, RowsStatus DEF Single
  <2>2. /\ i \in CompactDocs(expired) => docs[i] # Absent
        /\ i \in CompactArchive(expired) => archive[i] # Absent
    BY DEF CompactDocs, CompactArchive, Held
  <2>3. /\ docs'[i] = IF i \in CompactDocs(expired) THEN Absent ELSE docs[i]
        /\ archive'[i] = IF i \in CompactArchive(expired) THEN Absent ELSE archive[i]
    BY <1>2 DEF Compact
  <2>4. i \in CompactDocs(expired) \/ i \in CompactArchive(expired)
    OBVIOUS
  <2>5. docs'[i] = Absent /\ archive'[i] = Absent
    BY <2>1, <2>2, <2>3, <2>4
  <2> QED
    BY <2>5 DEF At, Rows, Plain, Gone
<1>5. ASSUME NEW i \in taken PROVE At(Rows, i) # Gone
  BY <1>2, HeldStatus
<1>6. ASSUME NEW i \in taken PROVE Expendable(At(Rows, i))
  <2>1. Single(At(Rows, i))
    BY <1>1, <1>2, RunningSingle
  <2>2. CASE i \in CompactDocs(expired)
    <3>1. docs[i] \in Record /\ ~docs[i].summary /\ ~docs[i].live
      BY <2>2 DEF CompactDocs, Held, Maps, Map
    <3>2. Plain(docs[i]).summary = docs[i].summary /\ Plain(docs[i]).live = docs[i].live
          /\ Plain(docs[i]) # Absent
      BY <3>1, Bounds DEF Plain, Record
    <3> QED
      BY <1>2, <3>1, <3>2, RowsStatus DEF Expendable, RowOf
  <2>3. CASE i \in CompactArchive(expired)
    <3>1. archive[i] \in Record /\ ~archive[i].summary
      BY <2>3 DEF CompactArchive, Held, Maps, Map
    <3>2. Plain(archive[i]).summary = archive[i].summary /\ Plain(archive[i]) # Absent
      BY <3>1, Bounds DEF Plain, Record
    <3> QED
      BY <1>2, <2>1, <3>1, <3>2, RowsStatus DEF Expendable, RowOf, Single
  <2> QED
    BY <2>2, <2>3
<1> QED
  BY <1>2, <1>3, <1>4, <1>5, <1>6

LEMMA CompactRecovery ==
    ASSUME NoReimport, Base, RecoveryInv, NEW expired \in SUBSET Ids, Compact(expired)
    PROVE  RecoveryInv'
<1> DEFINE taken == CompactDocs(expired) \cup CompactArchive(expired)
<1> USE BaseFacts
<1>1. /\ pc \in Calling /\ pc' = pc /\ pc \in Running /\ pc \notin Recovering
      /\ UNCHANGED <<seg_seq, files, wal, issued>>
      /\ purged' = purged \cup taken /\ "import_row" \notin Ops /\ pc = "idle"
  BY DEF Compact, Enter, holder, NoReimport, Calling, Running, Recovering
<1>2. /\ taken \subseteq Held(docs) \cup Held(archive)
      /\ taken \subseteq Ids
  BY DEF CompactDocs, CompactArchive, Held
<1>3. Known = Rows /\ Known' = Rows' /\ UNCHANGED LoadedRows
  BY <1>1 DEF Known, LoadedRows, files
<1>4. ASSUME NEW i \in Ids \ taken PROVE At(Rows, i)' = At(Rows, i)
  BY CompactTakes DEF CompactTaken
<1>5. ASSUME NEW i \in taken PROVE At(Rows, i)' = Gone
  BY CompactTakes DEF CompactTaken
<1>6. ASSUME NEW i \in taken PROVE i \in issued
  BY <1>2, <1>3, HeldStatus DEF RecoveryInv, UnissuedGone
<1>7. Traced'
  <2>1. ASSUME NEW w, NEW at, NEW i \in Ids, NEW t, Follows(t, i, w, Read(at))
        PROVE  Follows(t, i, w, Read(at))'
    <3>1. ASSUME i \in taken, i \notin purged PROVE Expendable(t[Len(w)])
      <4>1. t[Len(w)] = At(Rows, i)
        BY <1>3, <2>1, <3>1 DEF Follows
      <4> QED
        BY <3>1, <4>1, CompactTakes DEF CompactTaken
    <3> QED
      BY <1>1, <1>3, <1>4, <2>1, <3>1 DEF Follows, Running
  <2>2. UNCHANGED <<Sealed, archives, wal>>
    BY <1>1, SealedCalling DEF files
  <2> QED
    BY <1>1, <2>1, <2>2, TracedKept DEF RecoveryInv
<1>8. PurgedGone'
  <2>1. \A i \in purged : i \in Ids /\ i \in issued /\ At(Rows, i) = Gone
    BY <1>3 DEF RecoveryInv, PurgedGone
  <2> QED
    BY <1>1, <1>3, <1>4, <1>5, <1>6, <2>1 DEF PurgedGone
<1>9. UnissuedGone'
  BY <1>1, <1>3, <1>4, <1>6 DEF RecoveryInv, UnissuedGone
<1>10. ImportsFresh' /\ SummaryFresh' /\ SegmentCurrent' /\ ListBelow'
  BY <1>1 DEF RecoveryInv, ImportsFresh, SummaryFresh, SegmentCurrent, ListBelow, Callable, Running,
              files
<1> QED
  BY <1>7, <1>8, <1>9, <1>10 DEF RecoveryInv

-----------------------------------------------------------------------------
(* checkpoint: the segment, the manifest, the cleanup, the reset.          *)

LEMMA BeginCheckpointRecovery ==
    ASSUME Base, RecoveryInv, BeginCheckpoint \/ BeginCheckpointKeepWal
    PROVE  RecoveryInv'
<1> USE BaseFacts
<1>1. /\ pc = "idle" /\ seg_seq' = seg_seq + 1
      /\ (pc' = "write_manifest" /\ ~keep') \/ pc' = "rename_wal"
      /\ segs' = [segs EXCEPT ![seg_seq + 1] = Rows]
      /\ UNCHANGED <<docs, archive, wal, archives, manifest>> /\ UNCHANGED <<issued, purged>>
  BY DEF BeginCheckpoint, BeginCheckpointKeepWal, WriteSegment, NewSegs, ghosts
<1>2. seg_seq + 1 \in SegNos /\ segs \in [SegNos -> Snapshot \cup {Absent}]
  <2>1. seg_seq \in Nat /\ due \in Nat /\ MaxSeg \in Nat
    BY Bounds DEF Base, TypeInv, TypeOK, MemoryOK, HolderOK
  <2>2. seg_seq + 1 <= MaxSeg
    BY <2>1 DEF BeginCheckpoint, BeginCheckpointKeepWal, Base, TypeInv, Counters
  <2> QED
    BY <2>1, <2>2 DEF SegNos, Base, TypeInv, TypeOK, DiskOK
<1>3. manifest.snapshot <= seg_seq
  BY <1>1 DEF RecoveryInv, SegmentCurrent, Callable, Running
<1>4. /\ Known = Rows /\ Known' = Rows' /\ Rows' = Rows
      /\ LoadedRows' = LoadedRows
  <2>1. manifest.snapshot # 0 => manifest.snapshot \in SegNos /\ manifest.snapshot # seg_seq + 1
    BY <1>3 DEF SegNos
  <2>2. manifest.snapshot # 0 => segs'[manifest.snapshot] = segs[manifest.snapshot]
    BY <1>1, <1>2, <2>1
  <2> QED
    BY <1>1, <2>2 DEF Known, Rows, LoadedRows, Recovering
<1>5. Traced'
  <2>1. ASSUME NEW w, NEW at, NEW i \in Ids, NEW t, Follows(t, i, w, Read(at))
        PROVE  Follows(t, i, w, Read(at))'
    BY <1>1, <1>4, <2>1 DEF Follows
  <2>2. UNCHANGED Sealed
    BY <1>1 DEF Sealed, Place
  <2> QED
    BY <1>1, <2>1, <2>2, TracedKept DEF RecoveryInv
<1>6. PurgedGone' /\ UnissuedGone' /\ ImportsFresh' /\ SummaryFresh'
  BY <1>1, <1>4 DEF RecoveryInv, PurgedGone, UnissuedGone, ImportsFresh, SummaryFresh
<1>7. SegmentCurrent' /\ ListBelow'
  BY <1>1, <1>2, <1>3, <1>4 DEF RecoveryInv, SegmentCurrent, ListBelow, Callable, Running
<1> QED
  BY <1>5, <1>6, <1>7 DEF RecoveryInv

(* checkpoint_keep_wal renames the WAL: the log is the same, in more files. *)
LEMMA RenameWalRecovery ==
    ASSUME Base, RecoveryInv, RenameWal
    PROVE  RecoveryInv'
<1> USE BaseFacts
<1>1. /\ pc = "rename_wal" /\ pc' = "write_manifest" /\ wal' = <<>>
      /\ UNCHANGED <<docs, archive, segs, seg_seq, manifest>> /\ UNCHANGED <<issued, purged>>
  BY DEF RenameWal, memory, ghosts
<1>2. Known = Rows /\ Known' = Rows' /\ Rows' = Rows /\ LoadedRows' = LoadedRows
  BY <1>1 DEF Known, Rows, LoadedRows, Recovering
<1>3. PICK w, at : Tells(w, at)
  BY DEF RecoveryInv, Traced
<1>4. PICK x : Joins(w, x)'
  <2>1. \A k \in DOMAIN Sealed : Sealed[k] # seg_seq
    <3>1. Sealed = manifest.wal_archives /\ Sealed \in Seq(SegNos)
      BY <1>1, SealedType DEF Sealed, Place, Base
    <3>2. ASSUME NEW k \in DOMAIN Sealed PROVE Sealed[k] # seg_seq
      <4>1. Sealed[k] \in Nat /\ Sealed[k] <= manifest.snapshot /\ manifest.snapshot < seg_seq
        BY <1>1, <3>1 DEF RecoveryInv, ListBelow, SegNos
      <4> QED
        BY <4>1
    <3> QED
      BY <3>2
  <2> QED
    BY <1>3, <2>1, JoinsRenamed DEF Tells, Base
<1>5. ASSUME NEW i \in Ids PROVE \E t : Follows(t, i, w, Read(x))'
  <2>1. PICK t : Follows(t, i, w, Read(at))
    BY <1>3 DEF Tells
  <2>2. Settled(i, <<>>, t[Len(w)])
    BY TraceEmpty DEF Settled, After, Outcome, Logged
  <2> QED
    BY <1>1, <1>2, <2>1, <2>2 DEF Follows
<1>6. Traced'
  <2>1. Unlogged(w)'
    BY <1>1, <1>3 DEF Tells, Unlogged
  <2> QED
    BY <1>4, <1>5, <2>1 DEF Tells, Traced
<1>7. PurgedGone' /\ UnissuedGone' /\ ImportsFresh' /\ SummaryFresh'
  BY <1>1, <1>2 DEF RecoveryInv, PurgedGone, UnissuedGone, ImportsFresh, SummaryFresh
<1>8. SegmentCurrent' /\ ListBelow'
  BY <1>1, <1>2 DEF RecoveryInv, SegmentCurrent, ListBelow, Callable, Running
<1> QED
  BY <1>6, <1>7, <1>8 DEF RecoveryInv

(* The manifest turns to the new segment. What it still lists of the log,  *)
(* and wal.jsonl, is replayed over what the log leads to, and leads there  *)
(* again.                                                                  *)
LEMMA WriteManifestLog ==
    ASSUME Base, WriteManifest, NEW w, NEW at, Tells(w, at)
    PROVE  \E v, x : /\ Joins(v, x)' /\ v \in {w, wal} /\ v \in Seq(PlainLine) /\ Len(v) \in Nat
                     /\ ~keep => v = wal
                     /\ \A k \in 1 .. Len(v) : \E j \in 1 .. Len(w) : w[j] = v[k]
<1>1. pc = "write_manifest" /\ pc' = "cleanup" /\ UNCHANGED <<wal, archives, seg_seq, keep>>
      /\ manifest'.wal_archives = IF keep THEN Append(manifest.wal_archives, seg_seq) ELSE <<>>
  BY DEF WriteManifest, memory
<1>2. w \in Seq(PlainLine) /\ Len(w) \in Nat
  BY JoinsType DEF Tells, Base
<1>3. CASE keep
  <2>1. Sealed' = Sealed
    BY <1>1, <1>3 DEF Sealed, Place
  <2>2. Joins(w, at)'
    BY <1>1, <2>1, JoinsKept DEF Tells
  <2> QED
    BY <1>2, <1>3, <2>2
<1>4. CASE ~keep
  <2>1. Sealed' = <<>>
    BY <1>1, <1>4 DEF Sealed, Place
  <2>2. wal \in Seq(PlainLine) /\ Len(wal) \in Nat
        /\ \A k \in 1 .. Len(wal) : \E j \in 1 .. Len(w) : w[j] = wal[k]
    BY JoinsEnd DEF Tells, Base
  <2>3. PICK v : v = wal
    OBVIOUS
  <2>4. PICK x : Joins(v, x)'
    BY <1>1, <2>1, <2>2, <2>3, JoinsOneNext
  <2> QED
    BY <1>4, <2>2, <2>3, <2>4
<1> QED
  BY <1>3, <1>4

LEMMA WriteManifestRecovery ==
    ASSUME Base, RecoveryInv, WriteManifest
    PROVE  RecoveryInv'
<1> USE BaseFacts
<1>1. /\ pc = "write_manifest" /\ pc' = "cleanup" /\ manifest'.snapshot = seg_seq
      /\ UNCHANGED <<docs, archive, wal, segs, seg_seq, keep>> /\ UNCHANGED <<issued, purged>>
  BY DEF WriteManifest, memory, ghosts
<1>2. seg_seq # 0 /\ segs[seg_seq] = Rows
  BY <1>1 DEF Base, TypeInv, Counters, SegNos, RecoveryInv, SegmentCurrent
<1>3. /\ Known = Rows /\ Known' = Rows' /\ Rows' = Rows /\ LoadedRows' = Rows
  BY <1>1, <1>2 DEF Known, Rows, LoadedRows, Recovering
<1>4. PICK w, at : Tells(w, at)
  BY DEF RecoveryInv, Traced
<1>5. PICK v, x : /\ Joins(v, x)' /\ v \in {w, wal} /\ v \in Seq(PlainLine) /\ Len(v) \in Nat
                  /\ ~keep => v = wal
                  /\ \A k \in 1 .. Len(v) : \E j \in 1 .. Len(w) : w[j] = v[k]
  BY <1>4, WriteManifestLog
<1>6. ASSUME NEW i \in Ids PROVE \E u : Follows(u, i, v, Read(x))'
  <2>1. PICK t : Follows(t, i, w, Read(at))
    BY <1>4 DEF Tells
  <2> DEFINE c == t[Len(w)]
             p == At(Rows, i)
  <2>2. /\ c \in Status /\ Single(c) /\ (i \notin purged => c = p)
        /\ Settled(i, v, c) /\ Settled(i, wal, c)
    <3>1. Len(w) \in Nat /\ Len(w) \in 0 .. Len(w)
      BY <1>4, JoinsType DEF Tells, Base
    <3>2. c \in Status
      BY <2>1, <3>1 DEF Follows, Trace
    <3>3. /\ Single(c) /\ Settled(i, w, c) /\ Settled(i, wal, c)
          /\ i \notin purged => c = At(Known, i)
      BY <2>1 DEF Follows
    <3> QED
      BY <1>3, <1>5, <3>2, <3>3
  <2>3. p = Gone \/ p = c
    BY <1>3, <2>2 DEF RecoveryInv, PurgedGone
  <2>4. p \in After(c)
    BY <2>2, <2>3, AfterSelf
  <2>5. PICK q \in Status : Leads(p, i, v, q) /\ Outcome(i, v, c, p, q)
    BY <2>2, <2>4 DEF Settled
  <2>6. q = c \/ (q = Gone /\ ~Logged(i, v) /\ p = Gone)
    <3>1. p.a = Absent \/ c.d = Absent
      BY <2>2, <2>3 DEF Gone, Single
    <3> QED
      BY <2>3, <2>5, <3>1 DEF Outcome
  <2>7. Single(q) /\ Settled(i, v, q)
    <3>1. CASE q = c
      BY <2>2, <3>1
    <3>2. CASE q = Gone /\ ~Logged(i, v) /\ p = Gone
      BY <2>5, <3>2 DEF Single, Settled, After, Gone, Outcome
    <3> QED
      BY <2>6, <3>1, <3>2
  <2>8. i \notin purged => q = p
    BY <2>2, <2>6
  <2>9. PICK u : /\ Trace(u, i, v) /\ u[0] = p /\ u[Len(v)] = q
                 /\ p = Gone => \A k \in 0 .. Len(v) : Single(u[k])
    BY <2>5 DEF Leads
  <2>10. ErasedOnce(u, i, v)
    <3>1. ASSUME NEW k \in 1 .. Len(v), v[k].op = "hard_delete", v[k].id = i
          PROVE  Single(u[k-1]) /\ u[Len(v)] = Gone
      <4>1. PICK j \in 1 .. Len(w) : w[j] = v[k]
        BY <1>5
      <4>2. c = Gone
        BY <2>1, <3>1, <4>1 DEF Follows, ErasedOnce
      <4>3. p = Gone /\ q = Gone
        BY <2>3, <2>6, <4>2
      <4>4. k - 1 \in 0 .. Len(v)
        BY <1>5, <3>1
      <4> QED
        BY <2>9, <4>3, <4>4
    <3> QED
      BY <3>1 DEF ErasedOnce
  <2>11. i \in purged => Expendable(q)
    BY <2>1, <2>6 DEF Follows, Expendable
  <2>12. Settled(i, wal, q)
    <3>1. CASE keep
      <4>1. wal = <<>>
        BY <1>1, <3>1 DEF Base, IdsInv, Keeping
      <4> QED
        BY <4>1, TraceEmpty DEF Settled, After, Outcome, Logged
    <3>2. CASE ~keep
      BY <1>5, <2>7, <3>2
    <3> QED
      BY <3>1, <3>2
  <2> QED
    BY <1>1, <1>3, <2>7, <2>8, <2>9, <2>10, <2>11, <2>12 DEF Follows
<1>7. Traced'
  <2>1. Unlogged(v)'
    <3>1. ASSUME NEW i \in Ids \ issued, NEW k \in 1 .. Len(v) PROVE v[k].id # i
      <4>1. PICK j \in 1 .. Len(w) : w[j] = v[k]
        BY <1>5
      <4> QED
        BY <1>4, <4>1 DEF Tells, Unlogged
    <3> QED
      BY <1>1, <3>1 DEF Unlogged
  <2> QED
    BY <1>5, <1>6, <2>1 DEF Tells, Traced
<1>8. PurgedGone' /\ UnissuedGone' /\ ImportsFresh' /\ SummaryFresh'
  BY <1>1, <1>3 DEF RecoveryInv, PurgedGone, UnissuedGone, ImportsFresh, SummaryFresh
<1>9. SegmentCurrent'
  BY <1>1, <1>2, <1>3 DEF SegmentCurrent
<1>10. ListBelow'
  <2>1. PICK a, b : a = manifest.wal_archives /\ b = manifest'.wal_archives
    OBVIOUS
  <2>2. a \in Seq(SegNos)
    BY <2>1, IdTypes DEF Base
  <2>3. b = IF keep THEN Append(a, seg_seq) ELSE <<>>
    BY <2>1 DEF WriteManifest
  <2>4. manifest.snapshot < seg_seq /\ \A k \in DOMAIN a : a[k] <= manifest.snapshot
    BY <1>1, <2>1 DEF RecoveryInv, ListBelow
  <2>5. \A m, n, k \in Nat : m <= n /\ n < k => m <= k
    OBVIOUS
  <2>6. \A k \in DOMAIN a : a[k] \in Nat /\ a[k] <= seg_seq
    <3>1. \A k \in DOMAIN a : a[k] \in Nat
      BY <2>2 DEF SegNos
    <3>2. manifest.snapshot \in Nat /\ seg_seq \in Nat
      OBVIOUS
    <3> QED
      BY <2>4, <2>5, <3>1, <3>2
  <2>7. \A k \in DOMAIN b : b[k] <= seg_seq
    <3>1. CASE keep
      <4>1. \A k \in DOMAIN b : (k \in DOMAIN a /\ b[k] = a[k]) \/ b[k] = seg_seq
        BY <2>2, <2>3, <3>1
      <4> QED
        BY <2>6, <4>1
    <3>2. CASE ~keep
      BY <2>3, <3>2
    <3> QED
      BY <3>1, <3>2
  <2> QED
    BY <1>1, <2>1, <2>7 DEF ListBelow
<1> QED
  BY <1>7, <1>8, <1>9, <1>10 DEF RecoveryInv

LEMMA CleanupRecovery ==
    ASSUME Base, RecoveryInv, CleanupSegments
    PROVE  RecoveryInv'
<1> USE BaseFacts
<1>1. /\ pc = "cleanup" /\ pc' = "reset_wal"
      /\ segs' = [n \in SegNos |-> IF n = manifest.snapshot THEN segs[n] ELSE Absent]
      /\ UNCHANGED <<docs, archive, wal, seg_seq>> /\ UNCHANGED <<issued, purged>>
      /\ UNCHANGED <<manifest, archives>>
  BY DEF CleanupSegments, memory, ghosts
<1>2. manifest.snapshot \in SegNos /\ segs[manifest.snapshot] = Rows
  BY <1>1 DEF RecoveryInv, SegmentCurrent, SegNos
<1>3. Known = Rows /\ Known' = Rows' /\ Rows' = Rows /\ LoadedRows' = LoadedRows
      /\ segs'[manifest.snapshot] = Rows
  BY <1>1, <1>2 DEF Known, Rows, LoadedRows, Recovering
<1>4. Traced'
  <2>1. ASSUME NEW w, NEW at, NEW i \in Ids, NEW t, Follows(t, i, w, Read(at))
        PROVE  Follows(t, i, w, Read(at))'
    BY <1>1, <1>3, <2>1 DEF Follows
  <2>2. UNCHANGED Sealed
    BY <1>1 DEF Sealed, Place
  <2> QED
    BY <1>1, <2>1, <2>2, TracedKept DEF RecoveryInv
<1>5. PurgedGone' /\ UnissuedGone' /\ ImportsFresh' /\ SummaryFresh'
  BY <1>1, <1>3 DEF RecoveryInv, PurgedGone, UnissuedGone, ImportsFresh, SummaryFresh
<1>6. SegmentCurrent' /\ ListBelow'
  BY <1>1, <1>2, <1>3 DEF RecoveryInv, SegmentCurrent, ListBelow, Callable, Running
<1> QED
  BY <1>4, <1>5, <1>6 DEF RecoveryInv

LEMMA ResetWalRecovery ==
    ASSUME Base, RecoveryInv, ResetWal
    PROVE  RecoveryInv'
<1> USE BaseFacts
<1>1. /\ pc = "reset_wal" /\ pc' = "idle" /\ wal' = <<>>
      /\ purged' = IF keep THEN purged ELSE {}
      /\ UNCHANGED <<docs, archive, seg_seq>> /\ UNCHANGED issued
      /\ UNCHANGED <<segs, manifest, archives>>
  BY DEF ResetWal, WalTruncated, memory, files
<1>2. LoadedRows = Rows
  BY <1>1 DEF RecoveryInv, SegmentCurrent, LoadedRows
<1>3. /\ Known = Rows /\ Known' = Rows' /\ Rows' = Rows /\ LoadedRows' = Rows
  BY <1>1, <1>2 DEF Known, Rows, LoadedRows, Recovering
<1>4. ASSUME keep PROVE Traced'
  <2>0. wal' = wal /\ purged' = purged
    BY <1>1, <1>4 DEF Base, IdsInv, Keeping
  <2>1. ASSUME NEW w, NEW at, NEW i \in Ids, NEW t, Follows(t, i, w, Read(at))
        PROVE  Follows(t, i, w, Read(at))'
    <3>1. pc' # "replay" /\ pc' # "replayed"
      BY <1>1
    <3> QED
      BY <1>2, <1>3, <2>0, <2>1, <3>1 DEF Follows
  <2>2. UNCHANGED <<Sealed, archives, wal>> /\ issued \subseteq issued'
    BY <1>1, <2>0 DEF Sealed, Place
  <2> QED
    BY <2>1, <2>2, TracedKept DEF RecoveryInv
<1>5. ASSUME ~keep PROVE Traced'
  <2>1. <<>> \in Seq(PlainLine) /\ Len(<<>>) = 0
    OBVIOUS
  <2>2. PICK e : e = <<>> /\ e \in Seq(PlainLine) /\ Len(e) = 0
    BY <2>1
  <2>3. Sealed' = <<>>
    BY <1>1, <1>5 DEF Sealed, Place, Base, IdsInv, Keeping, Committed
  <2>4. PICK x : Joins(e, x)'
    BY <1>1, <2>2, <2>3, JoinsOneNext
  <2>5. ASSUME NEW i \in Ids PROVE \E t : Follows(t, i, e, Read(x))'
    <3>1. At(Rows, i) \in Status /\ Single(At(Rows, i))
      BY <1>1, RowsStatus, RunningSingle DEF Running
    <3>2. PICK t : Trace(t, i, e) /\ t[0] = At(Rows, i) /\ t[Len(e)] = At(Rows, i)
      BY <2>2, <3>1, TraceEmpty DEF Leads
    <3>3. Settled(i, e, At(Rows, i))
      BY <2>2, TraceEmpty DEF Settled, After, Outcome, Logged
    <3>4. ErasedOnce(t, i, e)
      BY <2>2 DEF ErasedOnce
    <3> QED
      BY <1>1, <1>3, <1>5, <2>2, <3>1, <3>2, <3>3, <3>4 DEF Follows
  <2>6. Unlogged(e)'
    BY <2>2 DEF Unlogged
  <2> QED
    BY <2>4, <2>5, <2>6 DEF Tells, Traced
<1>6. Traced'
  BY <1>4, <1>5
<1>7. PurgedGone' /\ UnissuedGone' /\ ImportsFresh' /\ SummaryFresh'
  BY <1>1, <1>3 DEF RecoveryInv, PurgedGone, UnissuedGone, ImportsFresh, SummaryFresh
<1>8. SegmentCurrent' /\ ListBelow'
  BY <1>1 DEF RecoveryInv, SegmentCurrent, ListBelow, Callable, Running
<1> QED
  BY <1>6, <1>7, <1>8 DEF RecoveryInv

-----------------------------------------------------------------------------
(* A death, and the recovery from it.                                      *)

LEMMA DieRecovery ==
    ASSUME TornWrites = FALSE, NoLostFile, Base, RecoveryInv, Die
    PROVE  RecoveryInv'
<1> USE BaseFacts
<1>1. /\ pc' = "down" /\ wal' = wal /\ docs' = Empty /\ archive' = Empty
      /\ UNCHANGED files /\ UNCHANGED <<issued, purged>>
      /\ before' = IF pc \in Recovering THEN before ELSE Rows
  BY DEF Die, Rows
<1>2. Known' = Known /\ LoadedRows' = LoadedRows
  BY <1>1 DEF Known, LoadedRows, Recovering, files
<1>3. \A i \in Ids : At(Rows, i)' = Gone
  BY <1>1 DEF At, Rows, Empty, Plain, Gone
<1>4. Traced'
  <2>1. ASSUME NEW w, NEW at, NEW i \in Ids, NEW t, Follows(t, i, w, Read(at))
        PROVE  Follows(t, i, w, Read(at))'
    BY <1>1, <1>2, <2>1 DEF Follows
  <2>2. UNCHANGED Sealed
    <3>1. Place # "renamed" /\ Place' # "renamed"
      BY <1>1 DEF Die, NoLostFile, Place, Base, IdsInv, Keeping, TypeInv, TypeOK, HolderOK,
                  Running, Recovering
    <3> QED
      BY <1>1, <3>1 DEF Sealed, files
  <2> QED
    BY <1>1, <2>1, <2>2, TracedKept DEF RecoveryInv, files
<1>5. PurgedGone' /\ UnissuedGone' /\ ImportsFresh' /\ SummaryFresh'
  BY <1>1, <1>2, <1>3 DEF RecoveryInv, PurgedGone, UnissuedGone, ImportsFresh, SummaryFresh
<1>6. SegmentCurrent' /\ ListBelow'
  BY <1>1 DEF RecoveryInv, SegmentCurrent, ListBelow, Callable, Running, files
<1> QED
  BY <1>4, <1>5, <1>6 DEF RecoveryInv

LEMMA OpenRecovery ==
    ASSUME Base, RecoveryInv, Open
    PROVE  RecoveryInv'
<1> USE BaseFacts
<1>0. /\ UNCHANGED <<wal, files>> /\ UNCHANGED issued
      /\ pc \in Recovering /\ pc' \in Recovering \cup {"idle"}
      /\ UNCHANGED Sealed
  <2>1. UNCHANGED <<wal, files>> /\ UNCHANGED issued
    BY DEF Open, LoadSnapshot, ReplayLine, NextLog, FinishReplay, FinishOpen, ghosts
  <2>2. pc \in Recovering /\ pc' \in Recovering \cup {"idle"}
    BY DEF Open, LoadSnapshot, ReplayLine, NextLog, FinishReplay, FinishOpen, Recovering, holder
  <2> QED
    BY <2>1, <2>2 DEF Sealed, Place, Recovering, files
<1>1. ListBelow'
  BY <1>0 DEF RecoveryInv, ListBelow, Recovering, files
<1>2. ASSUME \A w, at : Joins(w, at) =>
                \A i \in Ids : \A t : Follows(t, i, w, Read(at)) => Follows(t, i, w, Read(at))'
      PROVE  Traced'
  BY <1>0, <1>2, TracedKept DEF RecoveryInv, files
<1>3. CASE LoadSnapshot
  <2>1. /\ pc = "down" /\ pc' = "replay" /\ file' = 1 /\ pos' = 0
        /\ docs' = LoadedRows.docs /\ archive' = LoadedRows.archive
        /\ UNCHANGED <<purged, before>>
    BY <1>3 DEF LoadSnapshot, ghosts
  <2>2. Known' = Known /\ LoadedRows' = LoadedRows
    BY <1>0, <2>1 DEF Known, LoadedRows, Recovering, files
  <2>3. \A i \in Ids : At(Rows, i)' = At(LoadedRows, i)
    BY <2>1 DEF At, Rows
  <2>4. ASSUME NEW w, NEW at, Joins(w, at), NEW i \in Ids, NEW t, Follows(t, i, w, Read(at))
        PROVE  Follows(t, i, w, Read(at))'
    <3>1. Read(at)' = 0
      <4>1. at[1] = 0
        BY <2>4, JoinsType DEF Base
      <4> QED
        BY <2>1, <4>1 DEF Read
    <3> QED
      BY <1>0, <2>1, <2>2, <2>3, <2>4, <3>1 DEF Follows
  <2>5. PurgedGone' /\ UnissuedGone' /\ ImportsFresh' /\ SummaryFresh'
    BY <1>0, <2>1, <2>2, <2>3 DEF RecoveryInv, PurgedGone, UnissuedGone, ImportsFresh, SummaryFresh
  <2>6. SegmentCurrent'
    BY <2>1 DEF SegmentCurrent, Callable, Running
  <2> QED
    BY <1>1, <1>2, <2>4, <2>5, <2>6 DEF RecoveryInv
<1>4. CASE ReplayLine
  <2>1. /\ pc = "replay" /\ pc' = "replay" /\ pos' = pos + 1 /\ file' = file
        /\ ~LogRead /\ Replayed(LogFile[pos + 1])
        /\ UNCHANGED <<purged, before>>
    BY <1>4 DEF ReplayLine, holder, ghosts
  <2>2. PICK l : l = LogFile[pos + 1]
    OBVIOUS
  <2>3. ASSUME NEW w, NEW at, Joins(w, at)
        PROVE  /\ Read(at) \in Nat /\ Read(at) + 1 \in 1 .. Len(w) /\ w[Read(at) + 1] = l
               /\ Read(at)' = Read(at) + 1 /\ l \in PlainLine
    <3>1. Read(at) \in 0 .. Len(w) /\ Read(at) + 1 \in 1 .. Len(w) /\ w[Read(at) + 1] = l
      BY <2>1, <2>2, <2>3, JoinsRead DEF Base
    <3>2. w \in Seq(PlainLine) /\ file \in 1 .. Len(Sealed) + 1 /\ pos \in Nat
      BY <2>1, <2>3, JoinsType, JoinsRead, IdTypes DEF Base, IdsInv, ReplayedBelow
    <3>3. at[file] \in Nat
      BY <2>3, <3>2, JoinsType DEF Base
    <3>4. \A m, n \in Nat : m + (n + 1) = (m + n) + 1
      OBVIOUS
    <3>5. Read(at)' = Read(at) + 1
      BY <2>1, <3>2, <3>3, <3>4 DEF Read
    <3> QED
      BY <3>1, <3>2, <3>5
  <2>4. PICK w, at : Tells(w, at)
    BY DEF RecoveryInv, Traced
  <2>5. Does(l) /\ l \in PlainLine
    <3>1. l \in PlainLine
      BY <2>3, <2>4 DEF Tells
    <3> QED
      BY <2>1, <2>2, <3>1, ReplayedDoes
  <2>6. Known' = Known /\ LoadedRows' = LoadedRows
    BY <1>0, <2>1 DEF Known, LoadedRows, Recovering, files
  <2>7. ASSUME NEW v, NEW x, Joins(v, x), NEW i \in Ids, NEW t, Follows(t, i, v, Read(x))
        PROVE  Follows(t, i, v, Read(x))'
    <3>1. PICK n : n = Read(x)
      OBVIOUS
    <3>2. n \in Nat /\ n + 1 \in 1 .. Len(v) /\ v[n + 1] = l /\ Read(x)' = n + 1
      BY <2>3, <2>7, <3>1
    <3>3. t[n] = At(Rows, i) /\ t[n + 1] = Moved(t[(n + 1) - 1], l, i) /\ (n + 1) - 1 = n
      BY <2>1, <2>7, <3>1, <3>2 DEF Follows, Trace
    <3>4. t[n + 1] = At(Rows, i)'
      BY <2>5, <3>3 DEF Does
    <3> QED
      BY <1>0, <2>1, <2>6, <2>7, <3>2, <3>4 DEF Follows
  <2>8. UnissuedGone'
    <3>1. \A i \in Ids \ issued : l.id # i
      BY <2>3, <2>4 DEF Tells, Unlogged
    <3> QED
      BY <1>0, <2>5, <2>6, <3>1 DEF RecoveryInv, UnissuedGone, Does, Moved
  <2>9. PurgedGone' /\ ImportsFresh' /\ SummaryFresh'
    BY <1>0, <2>1, <2>6 DEF RecoveryInv, PurgedGone, ImportsFresh, SummaryFresh
  <2>10. SegmentCurrent'
    BY <2>1 DEF SegmentCurrent, Callable, Running
  <2> QED
    BY <1>1, <1>2, <2>7, <2>8, <2>9, <2>10 DEF RecoveryInv
<1>5. CASE NextLog
  <2>1. /\ pc = "replay" /\ pc' = "replay" /\ file' = file + 1 /\ pos' = 0 /\ LogRead
        /\ UNCHANGED <<docs, archive, seg_seq, purged, before>>
    BY <1>5 DEF NextLog, memory, holder, ghosts
  <2>2. Known' = Known /\ LoadedRows' = LoadedRows /\ Rows' = Rows
    BY <1>0, <2>1 DEF Known, Rows, LoadedRows, Recovering, files
  <2>3. ASSUME NEW w, NEW at, Joins(w, at), NEW i \in Ids, NEW t, Follows(t, i, w, Read(at))
        PROVE  Follows(t, i, w, Read(at))'
    <3>1. /\ Read(at) = at[file + 1] /\ file \in 1 .. Len(manifest.wal_archives)
          /\ Sealed = manifest.wal_archives /\ Len(Sealed) \in Nat
      BY <1>5, <2>1, <2>3, JoinsRead, SealedType DEF Base, IdsInv, ReplayedBelow, NextLog
    <3>2. at[file + 1] \in Nat
      <4>1. file + 1 \in 1 .. Len(Sealed) + 1
        BY <3>1
      <4> QED
        BY <2>3, <4>1, JoinsType DEF Base
    <3>3. Read(at)' = Read(at)
      BY <2>1, <3>1, <3>2 DEF Read
    <3> QED
      BY <1>0, <2>1, <2>2, <2>3, <3>3 DEF Follows
  <2>4. PurgedGone' /\ UnissuedGone' /\ ImportsFresh' /\ SummaryFresh'
    BY <1>0, <2>1, <2>2 DEF RecoveryInv, PurgedGone, UnissuedGone, ImportsFresh, SummaryFresh
  <2>5. SegmentCurrent'
    BY <2>1 DEF SegmentCurrent, Callable, Running
  <2> QED
    BY <1>1, <1>2, <2>3, <2>4, <2>5 DEF RecoveryInv
<1>6. CASE FinishReplay
  <2>1. /\ pc = "replay" /\ pc' = "replayed" /\ seg_seq' = manifest.snapshot
        /\ LogRead /\ file > Len(manifest.wal_archives)
        /\ UNCHANGED <<docs, archive, purged, before>>
    BY <1>6 DEF FinishReplay, ghosts
  <2>2. Known' = Known /\ LoadedRows' = LoadedRows /\ Rows' = Rows
    BY <1>0, <2>1 DEF Known, Rows, LoadedRows, Recovering, files
  <2>3. ASSUME NEW w, NEW at, Joins(w, at), NEW i \in Ids, NEW t, Follows(t, i, w, Read(at))
        PROVE  Follows(t, i, w, Read(at))'
    <3>1. Read(at) = Len(w)
      BY <2>1, <2>3, JoinsRead DEF Base
    <3>2. t[Len(w)] = At(Rows, i)
      BY <2>1, <2>3, <3>1 DEF Follows
    <3> QED
      BY <1>0, <2>1, <2>2, <2>3, <3>2 DEF Follows
  <2>4. PurgedGone' /\ UnissuedGone' /\ ImportsFresh' /\ SummaryFresh'
    BY <1>0, <2>1, <2>2 DEF RecoveryInv, PurgedGone, UnissuedGone, ImportsFresh, SummaryFresh
  <2>5. SegmentCurrent'
    BY <1>0, <2>1 DEF SegmentCurrent, files
  <2> QED
    BY <1>1, <1>2, <2>3, <2>4, <2>5 DEF RecoveryInv
<1>7. CASE FinishOpen
  <2>1. /\ pc = "replayed" /\ pc' = "idle" /\ purged' = {} /\ UNCHANGED <<docs, archive, seg_seq>>
    BY <1>7 DEF FinishOpen, memory
  <2>2. LoadedRows' = LoadedRows /\ Rows' = Rows /\ Known' = Rows
    BY <1>0, <2>1 DEF Known, Rows, LoadedRows, Recovering, files
  <2>3. ASSUME NEW w, NEW at, Joins(w, at), NEW i \in Ids, NEW t, Follows(t, i, w, Read(at))
        PROVE  Follows(t, i, w, Read(at))'
    BY <1>0, <2>1, <2>2, <2>3 DEF Follows
  <2>4. ImportsFresh'
    <3>1. ASSUME "import_row" \in Ops, NEW i \in issued PROVE At(Rows, i) # Gone
      <4>1. purged = {} /\ At(Known, i) # Gone /\ i \in Ids
        BY <3>1 DEF RecoveryInv, ImportsFresh
      <4>2. \E w, t, n : Follows(t, i, w, n)
        BY <4>1 DEF RecoveryInv, Traced, Tells
      <4> QED
        BY <2>1, <4>1, <4>2 DEF Follows
    <3> QED
      BY <1>0, <2>1, <2>2, <3>1 DEF ImportsFresh
  <2>5. PurgedGone' /\ UnissuedGone' /\ SummaryFresh'
    BY <1>0, <2>1, <2>2 DEF RecoveryInv, PurgedGone, UnissuedGone, SummaryFresh
  <2>6. SegmentCurrent'
    BY <1>0, <2>1 DEF RecoveryInv, SegmentCurrent, Callable, files
  <2> QED
    BY <1>1, <1>2, <2>3, <2>4, <2>5, <2>6 DEF RecoveryInv
<1> QED
  BY <1>3, <1>4, <1>5, <1>6, <1>7 DEF Open

-----------------------------------------------------------------------------
(* RecoveryInv is inductive, and says what it is meant to say.             *)

(* What the theorems below leave out, because it breaks recovery: lines cut *)
(* short (an append after one is lost), a WAL that checkpoint_keep_wal had  *)
(* renamed when the process died, and imports that NoReimport excludes.     *)
Sound == TornWrites = FALSE /\ NoLostFile /\ NoReimport

LEMMA NextRecoveryInv ==
    ASSUME Sound, Base, RecoveryInv, [Next]_vars, TypeInv'
    PROVE  RecoveryInv'
<1>0. Maps'
  BY DEF TypeInv, TypeOK, MemoryOK, Maps
<1>1. CASE Call
  <2>1. CASE \/ \E s \in Subjects \cup {NoSubject}, tag \in Tags : BeginRemember(s, tag)
             \/ \E picked \in SUBSET Ids : BeginRecall(picked)
             \/ \E s \in Subjects : BeginForgetSubject(s)
             \/ \E group \in SUBSET Ids : BeginGroup(group)
    BY <2>1, BeginRecovery
  <2>2. ASSUME NEW i \in Ids, Forget(i) \/ HardDelete(i) PROVE RecoveryInv'
    BY <1>0, <2>2, ForgetRecovery, HardDeleteRecovery DEF Sound
  <2>3. ASSUME NEW i \in Ids, NEW r \in ImportRows, NEW arch \in BOOLEAN, ImportRow(i, r, arch)
        PROVE  RecoveryInv'
    BY <1>0, <2>3, ImportRowRecovery
  <2>4. ASSUME NEW expired \in SUBSET Ids, Compact(expired) PROVE RecoveryInv'
    BY <2>4, CompactRecovery DEF Sound
  <2> QED
    BY <1>1, <2>1, <2>2, <2>3, <2>4, BeginCheckpointRecovery DEF Call
<1>2. CASE Step
  <2>1. CASE RenameWal
    BY <2>1, RenameWalRecovery
  <2>2. ASSUME NEW i \in Ids, CloseVersion(i) \/ Touch(i) \/ ArchiveMember(i)
        PROVE  RecoveryInv'
    BY <1>0, <2>2, CloseVersionRecovery, TouchRecovery, ArchiveMemberRecovery
  <2>3. CASE CommitRemember \/ CommitSummary
    BY <1>0, <2>3, CommitRememberRecovery, CommitSummaryRecovery
  <2>4. CASE EndForgetSubject \/ EndConsolidate
    BY <2>4, BeginRecovery
  <2>5. CASE WriteManifest \/ CleanupSegments \/ ResetWal
    BY <2>5, WriteManifestRecovery, CleanupRecovery, ResetWalRecovery
  <2> QED
    BY <1>2, <2>1, <2>2, <2>3, <2>4, <2>5 DEF Step
<1>3. CASE Open
  BY <1>3, OpenRecovery
<1>4. CASE Die
  BY <1>4, DieRecovery DEF Sound
<1>5. CASE UNCHANGED vars
  <2>1. /\ UNCHANGED <<docs, archive, seg_seq, next_id, pc, keep, file, pos, wal, manifest, segs>>
        /\ UNCHANGED <<archives, issued, purged, before>>
    BY <1>5 DEF vars, memory, holder, replay, files, ghosts
  <2>2. /\ UNCHANGED Known /\ UNCHANGED Rows /\ UNCHANGED LoadedRows
        /\ UNCHANGED Sealed /\ \A at : Read(at)' = Read(at)
    BY <2>1 DEF Known, Rows, LoadedRows, Sealed, Place, Read
  <2>3. Traced'
    <3>1. ASSUME NEW w, NEW at, NEW i \in Ids, NEW t, Follows(t, i, w, Read(at))
          PROVE  Follows(t, i, w, Read(at))'
      BY <2>1, <2>2, <3>1 DEF Follows
    <3> QED
      BY <2>1, <2>2, <3>1, TracedKept DEF RecoveryInv
  <2> QED
    BY <2>1, <2>2, <2>3 DEF RecoveryInv, PurgedGone, UnissuedGone, ImportsFresh, SummaryFresh,
                            SegmentCurrent, ListBelow, Callable
<1> QED
  BY <1>1, <1>2, <1>3, <1>4, <1>5 DEF Next, NoEffect

LEMMA RecoveryAlways == ASSUME Sound PROVE Spec => [](Base /\ RecoveryInv)
<1>1. TypeInv /\ IdsInv /\ [Next]_vars => IdsInv'
  BY NextIdsInv DEF Sound
<1>2. TypeInv /\ IdsInv /\ RecoveryInv /\ [Next]_vars /\ TypeInv' => RecoveryInv'
  BY NextRecoveryInv DEF Base
<1>3. TypeInv /\ IdsInv /\ RecoveryInv => Base /\ RecoveryInv
  BY DEF Base
<1> QED
  BY InitIdsInv, InitRecoveryInv, <1>1, <1>2, <1>3, TypeCorrect, PTL DEF Spec

LEMMA SamePlain ==
    ASSUME NEW r \in Slot, NEW s \in Slot, Plain(r) = Plain(s)
    PROVE  SameRecord(r, s)
<1>1. CASE r = Absent \/ s = Absent
  BY <1>1, PlainType DEF SameRecord
<1>2. CASE r \in Record /\ s \in Record
  <2>1. r # Absent /\ s # Absent
    BY <1>2, Bounds
  <2>2. [r EXCEPT !.hits = 0] = [s EXCEPT !.hits = 0]
    BY <2>1 DEF Plain
  <2>3. [r EXCEPT !.hits = s.hits] = s
    BY <1>2, <2>2 DEF Record
  <2> QED
    BY <2>1, <2>3 DEF SameRecord
<1> QED
  BY <1>1, <1>2 DEF Slot

(* Wherever the process dies and however often, open() rebuilds docs and   *)
(* archive as they were, but for hits and for what compact had taken and   *)
(* no checkpoint had settled.                                              *)
THEOREM RecoveryExact == ASSUME Sound PROVE Spec => []RecoversExactly
<1>1. Base /\ RecoveryInv => RecoversExactly
  <2> SUFFICES ASSUME Base, RecoveryInv, pc = "replayed", NEW i \in Ids \ purged
               PROVE  /\ SameRecord(docs[i], before.docs[i])
                      /\ SameRecord(archive[i], before.archive[i])
    BY DEF RecoversExactly
  <2>1. At(Rows, i) = At(before, i)
    <3>1. PICK w, t, n : Follows(t, i, w, n)
      BY DEF RecoveryInv, Traced, Tells
    <3> QED
      BY <3>1 DEF Follows, Known, Recovering
  <2>2. Plain(docs[i]) = Plain(before.docs[i]) /\ Plain(archive[i]) = Plain(before.archive[i])
    BY <2>1 DEF At, Rows
  <2>3. /\ docs[i] \in Slot /\ archive[i] \in Slot
        /\ before.docs[i] \in Slot /\ before.archive[i] \in Slot
    <3>1. before \in Snapshot /\ Maps
      BY BaseFacts DEF Base, TypeInv, TypeOK, HistoryOK, Counters, Recovering
    <3> QED
      BY <3>1 DEF Snapshot, Maps, Map, Slot
  <2> QED
    BY <2>2, <2>3, SamePlain
<1> QED
  BY <1>1, RecoveryAlways, PTL

(* No record is ever in docs and in the archive at once.                   *)
THEOREM MapsAlwaysDisjoint == ASSUME Sound PROVE Spec => []MapsDisjoint
<1>1. Base /\ RecoveryInv => MapsDisjoint
  <2> SUFFICES ASSUME Base, RecoveryInv, pc \in Running,
                      NEW i, i \in Held(docs) \cap Held(archive)
               PROVE  FALSE
    BY DEF MapsDisjoint
  <2> QED
    BY RunningSingle, RowsStatus, BaseFacts DEF Held, Single
<1> QED
  BY <1>1, RecoveryAlways, PTL

-----------------------------------------------------------------------------
(* The subject index. It needs the traces: hard_delete, and the replay of  *)
(* its line, take an id out of the index when its row leaves one map, so   *)
(* there must be no second row in the other.                               *)

Found(m, i) == m[i] # Absent /\ m[i].subject # NoSubject => i \in subjects[m[i].subject]

IndexInv ==
    /\ pc # "down" => \A i \in Ids : Found(docs, i) /\ Found(archive, i)
    /\ pc = "archiving" => pending.subject = NoSubject

(* A step after which every row is one of the same id from before, under   *)
(* the same subject.                                                       *)
OldRow(r, i) == /\ r # Absent
                /\ \/ docs[i] # Absent /\ r.subject = docs[i].subject
                   \/ archive[i] # Absent /\ r.subject = archive[i].subject

LEMMA IndexKept ==
    ASSUME \A i \in Ids : Found(docs, i) /\ Found(archive, i), subjects' = subjects,
           \A i \in Ids : /\ docs'[i] = Absent \/ OldRow(docs'[i], i)
                          /\ archive'[i] = Absent \/ OldRow(archive'[i], i)
    PROVE  (\A i \in Ids : Found(docs, i) /\ Found(archive, i))'
BY DEF Found, OldRow

LEMMA IndexSame ==
    ASSUME \A i \in Ids : Found(docs, i) /\ Found(archive, i),
           UNCHANGED <<docs, archive, subjects>>
    PROVE  (\A i \in Ids : Found(docs, i) /\ Found(archive, i))'
BY DEF Found

LEMMA ClosedSubject ==
    ASSUME NEW m \in Map, NEW i \in Ids, m[i] # Absent
    PROVE  \A j \in Ids : /\ m[j] # Absent <=> Closed(m, i)[j] # Absent
                          /\ m[j] # Absent => Closed(m, i)[j].subject = m[j].subject
BY Bounds DEF Closed, Map, Record

LEMMA HitSubject ==
    ASSUME NEW m \in Map, NEW i \in Ids, m[i] # Absent
    PROVE  \A j \in Ids : /\ m[j] # Absent <=> Hit(m, i)[j] # Absent
                          /\ m[j] # Absent => Hit(m, i)[j].subject = m[j].subject
<1>1. PICK h \in 0 .. MaxHits : Hit(m, i)[i] = [m[i] EXCEPT !.hits = h] /\ m[i] \in Record
  BY HitOnly
<1>2. Hit(m, i)[i] \in Record /\ Hit(m, i)[i].subject = m[i].subject
  BY <1>1 DEF Record
<1> QED
  BY <1>2, HitOnly, Bounds DEF ButAt

LEMMA InsertIndex ==
    ASSUME Maps, \A i \in Ids : Found(docs, i) /\ Found(archive, i),
           NEW i \in Ids, NEW r \in Record, NEW arch \in BOOLEAN, Insert(i, r, arch)
    PROVE  (\A j \in Ids : Found(docs, j) /\ Found(archive, j))'
<1>1. /\ \A s \in Subjects : subjects[s] \subseteq subjects'[s]
      /\ r.subject # NoSubject => i \in subjects'[r.subject]
  BY DEF Insert, Indexed, Maps, Record
<1>2. \A j \in Ids : /\ docs'[j] = docs[j] \/ (j = i /\ docs'[j] = r)
                     /\ archive'[j] = archive[j] \/ (j = i /\ archive'[j] = r)
  BY DEF Insert, Maps, Map
<1>3. \A j \in Ids : /\ docs[j] # Absent /\ docs[j].subject # NoSubject
                           => docs[j].subject \in Subjects
                     /\ archive[j] # Absent /\ archive[j].subject # NoSubject
                           => archive[j].subject \in Subjects
  BY DEF Maps, Map, Record
<1> QED
  BY <1>1, <1>2, <1>3 DEF Found

LEMMA DropFirstIndex ==
    ASSUME Maps, \A i \in Ids : Found(docs, i) /\ Found(archive, i),
           NEW i \in Ids, docs[i] = Absent \/ archive[i] = Absent, DropFirst(i)
    PROVE  (\A j \in Ids : Found(docs, j) /\ Found(archive, j))'
<1>1. docs'[i] = Absent /\ archive'[i] = Absent
  BY DEF DropFirst, Maps, Map
<1>2. \A j \in Ids \ {i} : docs'[j] = docs[j] /\ archive'[j] = archive[j]
  BY DEF DropFirst, Maps, Map
<1>3. \A s \in Subjects : subjects[s] \ {i} \subseteq subjects'[s]
  BY DEF DropFirst, Unindexed, Maps
<1>4. \A j \in Ids : /\ docs[j] # Absent /\ docs[j].subject # NoSubject
                           => docs[j].subject \in Subjects
                     /\ archive[j] # Absent /\ archive[j].subject # NoSubject
                           => archive[j].subject \in Subjects
  BY DEF Maps, Map, Record
<1> QED
  BY <1>1, <1>2, <1>3, <1>4 DEF Found

LEMMA InitIndexInv == Init => IndexInv
BY DEF Init, IndexInv, Found, Empty

LEMMA CallIndex ==
    ASSUME Base, RecoveryInv, IndexInv, Call
    PROVE  IndexInv'
<1> USE BaseFacts
<1>1. pc = "idle" \/ pc = "grouping"
  BY DEF Call, BeginRemember, BeginRecall, Forget, HardDelete, BeginForgetSubject, ImportRow,
         BeginGroup, Compact, BeginCheckpoint, BeginCheckpointKeepWal, Enter
<1>2. \A i \in Ids : Found(docs, i) /\ Found(archive, i)
  BY <1>1 DEF IndexInv
<1>3. CASE \/ \E s \in Subjects \cup {NoSubject}, tag \in Tags : BeginRemember(s, tag)
           \/ \E picked \in SUBSET Ids : BeginRecall(picked)
           \/ \E s \in Subjects : BeginForgetSubject(s)
           \/ \E group \in SUBSET Ids : BeginGroup(group)
           \/ BeginCheckpoint \/ BeginCheckpointKeepWal
  <2>1. UNCHANGED <<docs, archive, subjects>>
    BY <1>3 DEF BeginRemember, BeginRecall, BeginForgetSubject, BeginGroup, BeginCheckpoint,
                BeginCheckpointKeepWal, WriteSegment, memory
  <2>2. pc' = "archiving" => pending'.subject = NoSubject
    <3>1. ASSUME NEW group \in SUBSET Ids, BeginGroup(group) PROVE pending'.subject = NoSubject
      BY <3>1 DEF BeginGroup, NewRecord
    <3> QED
      BY <1>3, <3>1 DEF BeginRemember, BeginRecall, BeginForgetSubject, BeginCheckpoint,
                        BeginCheckpointKeepWal
  <2> QED
    BY <1>2, <2>1, <2>2, IndexSame DEF IndexInv
<1>4. ASSUME NEW i \in Ids, Forget(i) PROVE IndexInv'
  <2>1. /\ CloseFirst(i) /\ subjects' = subjects /\ pc' = pc
    BY <1>4 DEF Forget, holder
  <2>2. \A j \in Ids : /\ docs'[j] = Absent \/ OldRow(docs'[j], j)
                       /\ archive'[j] = Absent \/ OldRow(archive'[j], j)
    BY <2>1, ClosedSubject DEF CloseFirst, OldRow, Maps
  <2> QED
    BY <1>1, <1>2, <2>1, <2>2, IndexKept DEF IndexInv
<1>5. ASSUME NEW i \in Ids, HardDelete(i) PROVE IndexInv'
  <2>1. DropFirst(i) /\ pc' = pc /\ pc \in Running
    BY <1>1, <1>5 DEF HardDelete, holder, Running
  <2>2. docs[i] = Absent \/ archive[i] = Absent
    BY <2>1, RunningSingle, RowsStatus DEF Single
  <2> QED
    BY <1>1, <1>2, <2>1, <2>2, DropFirstIndex DEF IndexInv
<1>6. ASSUME NEW i \in Ids, NEW r \in ImportRows, NEW arch \in BOOLEAN, ImportRow(i, r, arch)
      PROVE  IndexInv'
  <2>1. Insert(i, r, arch) /\ pc' = pc /\ r \in Record
    BY <1>6, Bounds DEF ImportRow, holder
  <2> QED
    BY <1>1, <1>2, <2>1, InsertIndex DEF IndexInv
<1>7. ASSUME NEW expired \in SUBSET Ids, Compact(expired) PROVE IndexInv'
  <2>1. subjects' = subjects /\ pc' = pc
    BY <1>7 DEF Compact, holder
  <2>2. \A j \in Ids : /\ docs'[j] = Absent \/ OldRow(docs'[j], j)
                       /\ archive'[j] = Absent \/ OldRow(archive'[j], j)
    BY <1>7 DEF Compact, OldRow
  <2> QED
    BY <1>1, <1>2, <2>1, <2>2, IndexKept DEF IndexInv
<1> QED
  BY <1>3, <1>4, <1>5, <1>6, <1>7 DEF Call

LEMMA StepIndex ==
    ASSUME Base, RecoveryInv, IndexInv, Step
    PROVE  IndexInv'
<1> USE BaseFacts
<1>1. pc # "down"
  BY DEF Step, CloseVersion, Touch, ArchiveMember, CommitRemember, EndForgetSubject,
         CommitSummary, EndConsolidate, RenameWal, WriteManifest, CleanupSegments, ResetWal
<1>2. \A i \in Ids : Found(docs, i) /\ Found(archive, i)
  BY <1>1 DEF IndexInv
<1>3. ASSUME NEW i \in Ids, CloseVersion(i) PROVE IndexInv'
  <2>1. subjects' = subjects /\ pc' = pc /\ pending' = pending
    BY <1>3 DEF CloseVersion
  <2>2. i \in LiveIn(docs) \cup LiveIn(archive)
    BY <1>3 DEF CloseVersion, Base, TypeInv, TodoThere
  <2>3. \A j \in Ids : /\ docs'[j] = Absent \/ OldRow(docs'[j], j)
                       /\ archive'[j] = Absent \/ OldRow(archive'[j], j)
    BY <1>3, <2>2, ClosedSubject DEF CloseVersion, OldRow, Maps, LiveIn, Held
  <2> QED
    BY <1>2, <2>1, <2>3, IndexKept DEF IndexInv
<1>4. ASSUME NEW i \in Ids, Touch(i) PROVE IndexInv'
  <2>1. /\ subjects' = subjects /\ pc' # "archiving" /\ docs[i] # Absent
        /\ docs' = Hit(docs, i) /\ archive' = archive
    BY <1>4 DEF Touch, Base, TypeInv, TodoThere, Held
  <2>2. \A j \in Ids : /\ docs'[j] = Absent \/ OldRow(docs'[j], j)
                       /\ archive'[j] = Absent \/ OldRow(archive'[j], j)
    BY <2>1, HitSubject DEF OldRow, Maps
  <2> QED
    BY <1>2, <2>1, <2>2, IndexKept DEF IndexInv
<1>5. ASSUME NEW i \in Ids, ArchiveMember(i) PROVE IndexInv'
  <2>1. subjects' = subjects /\ pc' = pc /\ pending' = pending /\ MoveToArchive(i)
    BY <1>5 DEF ArchiveMember
  <2>2. \A j \in Ids : /\ docs'[j] = Absent \/ OldRow(docs'[j], j)
                       /\ archive'[j] = Absent \/ OldRow(archive'[j], j)
    BY <2>1 DEF MoveToArchive, OldRow, Maps, Map
  <2> QED
    BY <1>2, <2>1, <2>2, IndexKept DEF IndexInv
<1>6. CASE CommitRemember
  <2>1. next_id \in Ids /\ pending \in Record /\ Insert(next_id, pending, FALSE) /\ pc' = "idle"
    <3>1. pc = "supersede" /\ next_id \in 1 .. MaxId + 1 /\ next_id <= MaxId /\ MaxId \in Nat
      BY <1>6, Bounds DEF CommitRemember, Base, TypeInv, Counters
    <3>2. pending \in Record
      BY <3>1 DEF Base, TypeInv, TypeOK, HolderOK, Counters
    <3>3. Insert(next_id, pending, FALSE) /\ pc' = "idle"
      BY <1>6 DEF CommitRemember
    <3>4. next_id \in Ids
      BY <3>1 DEF Ids
    <3> QED
      BY <3>2, <3>3, <3>4
  <2> QED
    BY <1>2, <2>1, InsertIndex DEF IndexInv
<1>7. CASE CommitSummary
  <2>1. /\ next_id - 1 \in Ids /\ pending.subject = NoSubject /\ pc' = "grouping"
        /\ docs' = [docs EXCEPT ![next_id - 1] = pending] /\ UNCHANGED <<archive, subjects>>
    BY <1>7, Bounds DEF CommitSummary, Base, TypeInv, TypeOK, Counters, MemoryOK, Ids, IndexInv
  <2>2. \A j \in Ids : docs'[j] = docs[j] \/ docs'[j] = pending
    BY <2>1 DEF Maps, Map
  <2> QED
    BY <1>2, <2>1, <2>2 DEF IndexInv, Found
<1>8. CASE \/ EndForgetSubject \/ EndConsolidate \/ RenameWal \/ WriteManifest
           \/ CleanupSegments \/ ResetWal
  <2>1. UNCHANGED <<docs, archive, subjects>> /\ pc' # "archiving"
    BY <1>8 DEF EndForgetSubject, EndConsolidate, RenameWal, WriteManifest, CleanupSegments,
                ResetWal, memory
  <2> QED
    BY <1>2, <2>1 DEF IndexInv, Found
<1> QED
  BY <1>3, <1>4, <1>5, <1>6, <1>7, <1>8 DEF Step

LEMMA OpenIndex ==
    ASSUME Base, RecoveryInv, IndexInv, Maps', Open
    PROVE  IndexInv'
<1> USE BaseFacts
<1>1. CASE LoadSnapshot
  <2>1. subjects' = SubjectIndex(docs', archive') /\ pc' = "replay"
    BY <1>1 DEF LoadSnapshot
  <2>2. ASSUME NEW i \in Ids PROVE Found(docs, i)' /\ Found(archive, i)'
    BY <2>1 DEF Found, SubjectIndex, Held, Maps, Map, Record
  <2> QED
    BY <2>1, <2>2 DEF IndexInv
<1>2. CASE ReplayLine
  <2> DEFINE l == LogFile[pos + 1]
  <2>0. PICK w, at : Tells(w, at)
    BY DEF RecoveryInv, Traced
  <2>1. /\ pc = "replay" /\ pc' = "replay" /\ l \in PlainLine /\ Replayed(l)
        /\ Read(at) \in 0 .. Len(w) /\ Read(at) + 1 \in 1 .. Len(w) /\ w[Read(at) + 1] = l
    <3>1. pc = "replay" /\ pc' = "replay" /\ ~LogRead /\ Replayed(l)
      BY <1>2 DEF ReplayLine, holder
    <3>2. Read(at) \in 0 .. Len(w) /\ Read(at) + 1 \in 1 .. Len(w) /\ w[Read(at) + 1] = l
      BY <2>0, <3>1, JoinsRead DEF Tells, Base
    <3>3. w \in Seq(PlainLine)
      BY <2>0, JoinsType DEF Tells, Base
    <3> QED
      BY <3>1, <3>2, <3>3
  <2>2. (\A i \in Ids : Found(docs, i) /\ Found(archive, i)) /\ l.id \in Ids
    BY <2>1, LineCases DEF IndexInv
  <2>3. CASE l.op = "remember"
    <3>1. Insert(l.id, l.row, l.archived) /\ l.row \in Record /\ l.archived \in BOOLEAN
      BY <2>1, <2>3, LineCases DEF Replayed
    <3> QED
      BY <2>1, <2>2, <3>1, InsertIndex DEF IndexInv
  <2>4. CASE l.op = "hard_delete" /\ DropFirst(l.id)
    <3>1. PICK t : Follows(t, l.id, w, Read(at))
      BY <2>0, <2>2 DEF Tells
    <3>2. PICK n \in Nat : n = Read(at)
      BY <2>1
    <3>3. t[n] = At(Rows, l.id) /\ Single(t[(n + 1) - 1]) /\ (n + 1) - 1 = n
      BY <2>1, <2>4, <3>1, <3>2 DEF Follows, ErasedOnce
    <3>4. docs[l.id] = Absent \/ archive[l.id] = Absent
      BY <2>2, <3>3, RowsStatus DEF Single
    <3> QED
      BY <2>1, <2>2, <2>4, <3>4, DropFirstIndex DEF IndexInv
  <2>5. CASE l.op # "remember" /\ ~(l.op = "hard_delete" /\ DropFirst(l.id))
    <3>1. subjects' = subjects
      BY <2>1, <2>5 DEF Replayed
    <3>2. \A j \in Ids : /\ docs'[j] = Absent \/ OldRow(docs'[j], j)
                         /\ archive'[j] = Absent \/ OldRow(archive'[j], j)
      <4>1. CASE UNCHANGED <<docs, archive>>
        BY <4>1 DEF OldRow
      <4>2. CASE CloseFirst(l.id)
        BY <2>2, <4>2, ClosedSubject DEF CloseFirst, OldRow, Maps
      <4>3. CASE MoveToArchive(l.id)
        BY <2>2, <4>3 DEF MoveToArchive, OldRow, Maps, Map
      <4>4. CASE \/ docs[l.id] # Absent /\ docs' = Hit(docs, l.id) /\ archive' = archive
                 \/ archive[l.id] # Absent /\ archive' = Hit(archive, l.id) /\ docs' = docs
        BY <2>2, <4>4, HitSubject DEF OldRow, Maps
      <4> QED
        BY <2>1, <2>5, <4>1, <4>2, <4>3, <4>4 DEF Replayed
    <3> QED
      BY <2>1, <2>2, <3>1, <3>2, IndexKept DEF IndexInv
  <2> QED
    BY <2>3, <2>4, <2>5
<1>3. CASE NextLog \/ FinishReplay \/ FinishOpen
  BY <1>3 DEF NextLog, FinishReplay, FinishOpen, memory, holder, IndexInv, Found
<1> QED
  BY <1>1, <1>2, <1>3 DEF Open

LEMMA IndexAlways == ASSUME Sound PROVE Spec => []IndexInv
<1>1. Base /\ RecoveryInv /\ IndexInv /\ [Next]_vars /\ TypeInv' => IndexInv'
  <2> SUFFICES ASSUME Base, RecoveryInv, IndexInv, [Next]_vars, TypeInv' PROVE IndexInv'
    OBVIOUS
  <2>1. Maps'
    BY DEF TypeInv, TypeOK, MemoryOK, Maps
  <2>2. CASE Die
    BY <2>2 DEF Die, IndexInv
  <2>3. CASE UNCHANGED vars
    BY <2>3 DEF vars, memory, holder, IndexInv, Found
  <2> QED
    BY <2>1, <2>2, <2>3, CallIndex, StepIndex, OpenIndex DEF Next, NoEffect
<1>2. Base /\ RecoveryInv => TypeInv
  BY DEF Base
<1> QED
  BY InitIndexInv, RecoveryAlways, <1>1, <1>2, PTL DEF Spec

(* The subject index is complete whenever the collection can be called, so *)
(* that remember closes, and forget_subject forgets, every version.        *)
THEOREM IndexComplete == ASSUME Sound PROVE Spec => []SubjectsComplete
<1>1. IndexInv => SubjectsComplete
  BY DEF IndexInv, SubjectsComplete, Found, Running
<1> QED
  BY <1>1, IndexAlways, PTL

-----------------------------------------------------------------------------
(* Hits. A Touch line counts once where no death leaves the log beside a   *)
(* segment that holds its result: then the replay does again all that was  *)
(* done, and a trace may be one of hits. A count is one more than the hits *)
(* of a record, and 0 where there is none. Lines that do not touch leave   *)
(* the counts where they are or move them, whatever is live, so that the   *)
(* two maps need not be disjoint and NoReimport is not needed.             *)

Count(r)      == IF r = Absent THEN 0 ELSE r.hits + 1
CountAt(m, i) == [d |-> Count(m.docs[i]), a |-> Count(m.archive[i])]
Raised(n)     == IF n <= MaxHits THEN n + 1 ELSE n

(* What a line makes of the counts of its id.                              *)
Tally(p, l) ==
    CASE l.op = "remember"    -> IF l.archived THEN [d |-> p.d, a |-> Count(l.row)]
                                               ELSE [d |-> Count(l.row), a |-> p.a]
      [] l.op = "touch"       -> IF p.d # 0 THEN [d |-> Raised(p.d), a |-> p.a]
                                 ELSE IF p.a # 0 THEN [d |-> 0, a |-> Raised(p.a)]
                                 ELSE p
      [] l.op = "hard_delete" -> IF p.d # 0 THEN [d |-> 0, a |-> p.a] ELSE [d |-> 0, a |-> 0]
      [] l.op = "archive"     -> IF p.d # 0 THEN [d |-> 0, a |-> p.d] ELSE p
      [] OTHER                -> p
Told(p, l, i) == IF l.id = i THEN Tally(p, l) ELSE p
Tallies(l)    == \A j \in Ids : CountAt(Rows, j)' = Told(CountAt(Rows, j), l, j)

CountTrace(t, i, w) == \A k \in 1 .. Len(w) : t[k] = Told(t[k-1], w[k], i)
Counts(t, i) ==
    /\ CountTrace(t, i, wal) /\ t[0] = CountAt(LoadedRows, i)
    /\ i \notin purged => t[Len(wal)] = CountAt(Known, i)
    /\ pc = "replay" => t[pos] = CountAt(Rows, i)
    /\ pc = "replayed" => t[Len(wal)] = CountAt(Rows, i)
Counted == pc \notin {"cleanup", "reset_wal"} => \A i \in Ids : \E t : Counts(t, i)

HitsInv == Counted /\ SegmentCurrent

(* The file that checkpoint_keep_wal lists is replayed over such a segment *)
(* at every recovery, so that a Touch line in it counts twice; without it, *)
(* wal.jsonl is all the log.                                               *)
LEMMA OneLog ==
    ASSUME "checkpoint_keep_wal" \notin Ops, Base
    PROVE  /\ manifest.wal_archives = <<>> /\ keep = FALSE /\ pc # "rename_wal"
           /\ pc = "replay" => /\ file > Len(manifest.wal_archives) /\ LogFile = wal
                               /\ pos \in 0 .. Len(wal)
                               /\ ~LogRead => pos + 1 \in 1 .. Len(wal)
                               /\ LogRead => pos = Len(wal)
<1>1. manifest.wal_archives = <<>> /\ keep = FALSE /\ pc # "rename_wal"
  BY DEF Base, IdsInv, Keeping
<1>2. ASSUME pc = "replay"
      PROVE  /\ file > Len(manifest.wal_archives) /\ LogFile = wal /\ pos \in 0 .. Len(wal)
             /\ ~LogRead => pos + 1 \in 1 .. Len(wal)
             /\ LogRead => pos = Len(wal)
  <2>1. file > Len(manifest.wal_archives)
    BY <1>1, <1>2 DEF Base, IdsInv, ReplayedBelow
  <2>2. LogFile = wal
    BY <2>1 DEF LogFile
  <2>3. /\ pos \in 0 .. Len(LogFile) /\ Len(LogFile) \in Nat
        /\ LogRead <=> pos = Len(LogFile)
        /\ ~LogRead => pos + 1 \in 1 .. Len(LogFile)
    BY <1>2, LogFacts DEF Base
  <2> QED
    BY <2>1, <2>2, <2>3
<1> QED
  BY <1>1, <1>2

(* The places at which the log is beside a segment that holds its result.  *)
NoOverlap == CrashAt \cap {"cleanup", "reset_wal"} = {}

LEMMA CountZero ==
    ASSUME NEW r \in Slot
    PROVE  Count(r) \in Nat /\ (Count(r) = 0 <=> r = Absent)
BY Bounds DEF Count, Slot, Record

LEMMA CountTraceExtends ==
    ASSUME NEW w \in Seq(PlainLine), NEW l \in PlainLine, NEW i, NEW t, CountTrace(t, i, w)
    PROVE  \E u : /\ CountTrace(u, i, Append(w, l)) /\ u[0] = t[0]
                  /\ u[Len(Append(w, l))] = Told(t[Len(w)], l, i)
<1> DEFINE n == Len(w)
           v == Append(w, l)
           u == [k \in 0 .. n + 1 |-> IF k = n + 1 THEN Told(t[n], l, i) ELSE t[k]]
<1>1. /\ n \in Nat /\ Len(v) = n + 1 /\ v[n + 1] = l
      /\ \A k \in 1 .. n : v[k] = w[k]
  OBVIOUS
<1>2. \A k \in 0 .. n : u[k] = t[k]
  BY <1>1
<1>3. u[n + 1] = Told(t[n], l, i)
  BY <1>1
<1>4. ASSUME NEW k \in 1 .. n + 1 PROVE u[k] = Told(u[k-1], v[k], i)
  <2>1. CASE k = n + 1
    BY <1>1, <1>2, <1>3, <2>1
  <2>2. CASE k # n + 1
    <3>1. k \in 1 .. n /\ k \in 0 .. n /\ k - 1 \in 0 .. n
      BY <1>1, <2>2
    <3> QED
      BY <1>1, <1>2, <3>1 DEF CountTrace
  <2> QED
    BY <2>1, <2>2
<1> HIDE DEF u
<1>5. CountTrace(u, i, v) /\ u[0] = t[0]
  BY <1>1, <1>2, <1>4 DEF CountTrace
<1> QED
  BY <1>1, <1>3, <1>5

LEMMA TalliesEntry ==
    ASSUME NEW i \in Ids, ButAt(i, docs, docs'), ButAt(i, archive, archive'),
           NEW l, l.id = i,
           Tally(CountAt(Rows, i), l) = [d |-> Count(docs'[i]), a |-> Count(archive'[i])]
    PROVE  Tallies(l)
BY DEF Tallies, Told, ButAt, CountAt, Rows

LEMMA RowsCount ==
    ASSUME Maps, NEW i \in Ids
    PROVE  /\ CountAt(Rows, i) = [d |-> Count(docs[i]), a |-> Count(archive[i])]
           /\ Count(docs[i]) \in Nat /\ Count(archive[i]) \in Nat
           /\ Count(docs[i]) = 0 <=> docs[i] = Absent
           /\ Count(archive[i]) = 0 <=> archive[i] = Absent
<1>1. docs[i] \in Slot /\ archive[i] \in Slot
  BY DEF Maps, Map, Slot
<1> QED
  BY <1>1, CountZero DEF CountAt, Rows

(* The lines, one by one.                                                  *)
LEMMA ClosedTallies ==
    ASSUME Maps, NEW i \in Ids, NEW l, l.op = "forget", l.id = i,
           \/ docs[i] # Absent /\ docs' = Closed(docs, i) /\ archive' = archive
           \/ archive[i] # Absent /\ archive' = Closed(archive, i) /\ docs' = docs
    PROVE  Tallies(l)
<1>1. ASSUME NEW m \in Map, m[i] # Absent
      PROVE  Count(Closed(m, i)[i]) = Count(m[i]) /\ ButAt(i, m, Closed(m, i))
  <2>1. m[i] \in Record /\ Closed(m, i)[i] = [m[i] EXCEPT !.live = FALSE]
    BY <1>1 DEF Map, Closed
  <2>2. Closed(m, i)[i] # Absent /\ Closed(m, i)[i].hits = m[i].hits
    <3> DEFINE r == [m[i] EXCEPT !.live = FALSE]
    <3>1. r \in Record /\ r.hits = m[i].hits
      BY <2>1 DEF Record
    <3>2. Absent \notin Record
      BY Bounds
    <3> HIDE DEF r
    <3>3. r # Absent
      BY <3>1, <3>2
    <3> QED
      BY <2>1, <3>1, <3>3 DEF r
  <2> QED
    BY <1>1, <2>2 DEF Count, ButAt, Closed, Map
<1>2. /\ Count(docs'[i]) = Count(docs[i]) /\ Count(archive'[i]) = Count(archive[i])
      /\ ButAt(i, docs, docs') /\ ButAt(i, archive, archive')
  BY <1>1 DEF Maps, ButAt
<1>3. Tally(CountAt(Rows, i), l) = [d |-> Count(docs'[i]), a |-> Count(archive'[i])]
  BY <1>2 DEF Tally, CountAt, Rows
<1> QED
  BY <1>2, <1>3, TalliesEntry

LEMMA HitTallies ==
    ASSUME Maps, NEW i \in Ids, NEW l, l.op = "touch", l.id = i,
           \/ docs[i] # Absent /\ docs' = Hit(docs, i) /\ archive' = archive
           \/ docs[i] = Absent /\ archive[i] # Absent /\ archive' = Hit(archive, i) /\ docs' = docs
    PROVE  Tallies(l)
<1>1. ASSUME NEW m \in Map, m[i] # Absent
      PROVE  Count(Hit(m, i)[i]) = Raised(Count(m[i])) /\ ButAt(i, m, Hit(m, i))
  <2>1. /\ m[i] \in Record /\ m[i].hits \in 0 .. MaxHits /\ MaxHits \in Nat
        /\ Hit(m, i)[i] = [m[i] EXCEPT !.hits = IF @ < MaxHits THEN @ + 1 ELSE @]
    BY <1>1, Bounds DEF Map, Hit, Record
  <2>2. /\ Hit(m, i)[i] # Absent
        /\ Hit(m, i)[i].hits = IF m[i].hits < MaxHits THEN m[i].hits + 1 ELSE m[i].hits
    <3>1. (IF m[i].hits < MaxHits THEN m[i].hits + 1 ELSE m[i].hits) \in 0 .. MaxHits
      BY <2>1
    <3> QED
      BY <2>1, <3>1, Bounds DEF Record
  <2>3. Count(Hit(m, i)[i]) = Raised(Count(m[i]))
    BY <1>1, <2>1, <2>2 DEF Count, Raised
  <2> QED
    BY <2>3 DEF ButAt, Hit, Map
<1>2. /\ ButAt(i, docs, docs') /\ ButAt(i, archive, archive')
      /\ \/ /\ docs[i] # Absent /\ Count(docs'[i]) = Raised(Count(docs[i]))
            /\ archive'[i] = archive[i]
         \/ /\ docs[i] = Absent /\ archive[i] # Absent /\ docs'[i] = Absent
            /\ Count(archive'[i]) = Raised(Count(archive[i]))
  BY <1>1 DEF Maps, ButAt
<1>3. Tally(CountAt(Rows, i), l) = [d |-> Count(docs'[i]), a |-> Count(archive'[i])]
  BY <1>2, RowsCount DEF Tally, Count
<1> QED
  BY <1>2, <1>3, TalliesEntry

LEMMA DropTallies ==
    ASSUME Maps, NEW i \in Ids, NEW l, l.op = "hard_delete", l.id = i, DropFirst(i)
    PROVE  Tallies(l)
<1>1. /\ ButAt(i, docs, docs') /\ ButAt(i, archive, archive')
      /\ docs[i] # Absent => docs'[i] = Absent /\ archive'[i] = archive[i]
      /\ docs[i] = Absent => docs'[i] = Absent /\ archive'[i] = Absent
  BY DEF DropFirst, Maps, Map, ButAt
<1>2. Tally(CountAt(Rows, i), l) = [d |-> Count(docs'[i]), a |-> Count(archive'[i])]
  BY <1>1, RowsCount DEF Tally, Count
<1> QED
  BY <1>1, <1>2, TalliesEntry

LEMMA MoveTallies ==
    ASSUME Maps, NEW i \in Ids, NEW l, l.op = "archive", l.id = i, MoveToArchive(i)
    PROVE  Tallies(l)
<1>1. /\ ButAt(i, docs, docs') /\ ButAt(i, archive, archive')
      /\ docs[i] # Absent /\ docs'[i] = Absent /\ archive'[i] = docs[i]
  BY DEF MoveToArchive, Maps, Map, ButAt
<1>2. Tally(CountAt(Rows, i), l) = [d |-> Count(docs'[i]), a |-> Count(archive'[i])]
  BY <1>1, RowsCount DEF Tally, Count
<1> QED
  BY <1>1, <1>2, TalliesEntry

LEMMA PutTallies ==
    ASSUME Maps, NEW i \in Ids, NEW r, NEW arch \in BOOLEAN,
           NEW l, l.op = "remember", l.id = i, l.row = r, l.archived = arch,
           IF arch THEN archive' = [archive EXCEPT ![i] = r] /\ docs' = docs
                   ELSE docs' = [docs EXCEPT ![i] = r] /\ archive' = archive
    PROVE  Tallies(l)
<1>1. /\ ButAt(i, docs, docs') /\ ButAt(i, archive, archive')
      /\ arch => docs'[i] = docs[i] /\ archive'[i] = r
      /\ ~arch => docs'[i] = r /\ archive'[i] = archive[i]
  BY DEF Maps, Map, ButAt
<1>2. Tally(CountAt(Rows, i), l) = [d |-> Count(docs'[i]), a |-> Count(archive'[i])]
  BY <1>1, RowsCount DEF Tally
<1> QED
  BY <1>1, <1>2, TalliesEntry

LEMMA ReplayedTallies ==
    ASSUME Maps, NEW l \in PlainLine, Replayed(l)
    PROVE  Tallies(l)
<1>0. l.id \in Ids
  BY LineCases
<1>1. CASE l.op = "remember"
  <2>1. Insert(l.id, l.row, l.archived) /\ l.archived \in BOOLEAN
    BY <1>1, LineCases DEF Replayed
  <2>2. IF l.archived THEN archive' = [archive EXCEPT ![l.id] = l.row] /\ docs' = docs
                      ELSE docs' = [docs EXCEPT ![l.id] = l.row] /\ archive' = archive
    BY <2>1 DEF Insert
  <2> QED
    BY <1>0, <1>1, <2>1, <2>2, PutTallies
<1>2. CASE l.op # "remember" /\ UNCHANGED <<docs, archive>>
           /\ docs[l.id] = Absent /\ (archive[l.id] = Absent \/ l.op = "archive")
  <2>1. \A j \in Ids : CountAt(Rows, j)' = CountAt(Rows, j)
    BY <1>2 DEF CountAt, Rows
  <2>2. Tally(CountAt(Rows, l.id), l) = CountAt(Rows, l.id)
    BY <1>0, <1>2, RowsCount, LineCases DEF Tally
  <2> QED
    BY <1>0, <2>1, <2>2 DEF Tallies, Told
<1>3. CASE l.op = "forget" /\ CloseFirst(l.id)
  BY <1>0, <1>3, ClosedTallies DEF CloseFirst
<1>4. CASE l.op = "hard_delete" /\ DropFirst(l.id)
  BY <1>0, <1>4, DropTallies
<1>5. CASE l.op = "archive" /\ MoveToArchive(l.id)
  BY <1>0, <1>5, MoveTallies
<1>6. CASE /\ l.op = "touch"
           /\ \/ docs[l.id] # Absent /\ docs' = Hit(docs, l.id) /\ archive' = archive
              \/ docs[l.id] = Absent /\ archive[l.id] # Absent
                 /\ archive' = Hit(archive, l.id) /\ docs' = docs
  BY <1>0, <1>6, HitTallies
<1> QED
  BY <1>1, <1>2, <1>3, <1>4, <1>5, <1>6, LineCases DEF Replayed

-----------------------------------------------------------------------------
(* The steps.                                                              *)

LEMMA InitHitsInv == Init => HitsInv
<1> SUFFICES ASSUME Init PROVE HitsInv
  OBVIOUS
<1>1. wal = <<>> /\ Len(wal) = 0 /\ pc = "idle" /\ manifest.snapshot = 0
      /\ docs = Empty /\ archive = Empty
  BY DEF Init
<1>2. LoadedRows = Rows /\ Known = Rows
  BY <1>1 DEF LoadedRows, Rows, Known, Recovering
<1>3. ASSUME NEW i \in Ids PROVE \E t : Counts(t, i)
  <2>1. Counts([k \in 0 .. 0 |-> CountAt(Rows, i)], i)
    BY <1>1, <1>2 DEF Counts, CountTrace
  <2> QED
    BY <2>1
<1>4. SegmentCurrent
  BY DEF Init, SegmentCurrent, Callable
<1> QED
  BY <1>3, <1>4 DEF HitsInv, Counted

(* A step of the caller or of the holder of the lock that changes no map,  *)
(* or only what compact takes.                                             *)
LEMMA QuietHits ==
    ASSUME Base, HitsInv, pc \in Calling, pc' \in Calling,
           UNCHANGED <<seg_seq, wal, files>>, purged \subseteq purged',
           \A i \in Ids \ purged' : CountAt(Rows, i)' = CountAt(Rows, i)
    PROVE  HitsInv'
<1>1. Known = Rows /\ Known' = Rows' /\ UNCHANGED LoadedRows
  BY CallingFacts DEF Known, LoadedRows, files
<1>2. ASSUME NEW i \in Ids, NEW t, Counts(t, i) PROVE Counts(t, i)'
  <2>1. pc' # "replay" /\ pc' # "replayed"
    BY CallingFacts
  <2>2. i \notin purged' => CountAt(Known, i)' = CountAt(Known, i)
    BY <1>1
  <2>3. CountAt(LoadedRows, i)' = CountAt(LoadedRows, i)
    BY <1>1
  <2> QED
    BY <1>2, <2>1, <2>2, <2>3 DEF Counts
<1>3. SegmentCurrent'
  BY CallingFacts DEF HitsInv, SegmentCurrent, Callable, files
<1> QED
  BY <1>2, <1>3, CallingFacts DEF HitsInv, Counted

(* A step that logs what it does to the counts.                            *)
LEMMA LoggedHits ==
    ASSUME Base, HitsInv, pc \in Calling, pc' \in Calling,
           UNCHANGED <<seg_seq, files, purged>>,
           NEW l \in PlainLine, Log(l), Tallies(l)
    PROVE  HitsInv'
<1> USE BaseFacts
<1>1. wal' = Append(wal, l)
  <2>1. wal # <<>> => Len(wal) \in DOMAIN wal
    OBVIOUS
  <2> QED
    BY <2>1 DEF Log, Written, EndsTorn, PlainLine
<1>2. /\ Known = Rows /\ Known' = Rows' /\ UNCHANGED LoadedRows
      /\ pc' # "replay" /\ pc' # "replayed"
  BY CallingFacts DEF Known, LoadedRows, files
<1>3. ASSUME NEW i \in Ids, NEW t, Counts(t, i) PROVE \E u : Counts(u, i)'
  <2>1. PICK u : /\ CountTrace(u, i, Append(wal, l)) /\ u[0] = t[0]
                 /\ u[Len(Append(wal, l))] = Told(t[Len(wal)], l, i)
    BY <1>3, CountTraceExtends DEF Counts
  <2>2. i \notin purged' => u[Len(wal')] = CountAt(Known, i)'
    BY <1>1, <1>2, <1>3, <2>1 DEF Counts, Tallies
  <2>3. CountTrace(u, i, wal)' /\ u[0] = CountAt(LoadedRows, i)'
    BY <1>1, <1>2, <1>3, <2>1 DEF Counts, CountTrace
  <2> QED
    BY <1>2, <2>2, <2>3 DEF Counts
<1>4. SegmentCurrent'
  BY CallingFacts DEF HitsInv, SegmentCurrent, Callable, files
<1> QED
  BY <1>3, <1>4, CallingFacts DEF HitsInv, Counted

LEMMA CallHits ==
    ASSUME "checkpoint_keep_wal" \notin Ops, Base, HitsInv, Call, ~BeginCheckpoint
    PROVE  HitsInv'
<1> USE BaseFacts
<1>1. CASE \/ \E s \in Subjects \cup {NoSubject}, tag \in Tags : BeginRemember(s, tag)
           \/ \E picked \in SUBSET Ids : BeginRecall(picked)
           \/ \E s \in Subjects : BeginForgetSubject(s)
           \/ \E group \in SUBSET Ids : BeginGroup(group)
  <2>1. /\ pc \in Calling /\ pc' \in Calling
        /\ UNCHANGED <<seg_seq, wal, files>> /\ UNCHANGED <<docs, archive, purged>>
    BY <1>1 DEF BeginRemember, BeginRecall, BeginForgetSubject, BeginGroup, Enter, memory,
                ghosts, Calling, Running
  <2>2. \A i \in Ids : CountAt(Rows, i)' = CountAt(Rows, i)
    BY <2>1 DEF CountAt, Rows
  <2> QED
    BY <2>1, <2>2, QuietHits
<1>2. ASSUME NEW i \in Ids, Forget(i) PROVE HitsInv'
  <2>1. /\ pc \in Calling /\ pc' \in Calling /\ UNCHANGED <<seg_seq, files, purged>>
        /\ Log(ForgetLine(i))
    BY <1>2 DEF Forget, Enter, holder, ghosts, Calling, Running
  <2>2. ForgetLine(i) \in PlainLine /\ ForgetLine(i).op = "forget" /\ ForgetLine(i).id = i
    BY LinesPlain DEF ForgetLine
  <2>3. Tallies(ForgetLine(i))
    BY <1>2, <2>2, ClosedTallies DEF Forget, CloseFirst
  <2> QED
    BY <2>1, <2>2, <2>3, LoggedHits
<1>3. ASSUME NEW i \in Ids, HardDelete(i) PROVE HitsInv'
  <2>1. /\ pc \in Calling /\ pc' \in Calling /\ UNCHANGED <<seg_seq, files, purged>>
        /\ Log(HardDeleteLine(i)) /\ DropFirst(i)
    BY <1>3 DEF HardDelete, Enter, holder, Calling, Running
  <2>2. /\ HardDeleteLine(i) \in PlainLine /\ HardDeleteLine(i).op = "hard_delete"
        /\ HardDeleteLine(i).id = i
    BY LinesPlain DEF HardDeleteLine
  <2> QED
    BY <2>1, <2>2, DropTallies, LoggedHits
<1>4. ASSUME NEW i \in Ids, NEW r \in ImportRows, NEW arch \in BOOLEAN, ImportRow(i, r, arch)
      PROVE  HitsInv'
  <2> DEFINE l == RememberLine(i, r, arch)
  <2>1. /\ pc \in Calling /\ pc' \in Calling /\ UNCHANGED <<seg_seq, files, purged>>
        /\ Log(l) /\ Insert(i, r, arch)
    BY <1>4 DEF ImportRow, Enter, holder, Calling, Running
  <2>2. /\ l \in PlainLine /\ l.op = "remember" /\ l.id = i /\ l.row = r /\ l.archived = arch
    BY LinesPlain, Bounds DEF RememberLine
  <2> HIDE DEF l
  <2>3. Tallies(l)
    BY <2>1, <2>2, PutTallies DEF Insert
  <2> QED
    BY <2>1, <2>2, <2>3, LoggedHits
<1>5. ASSUME NEW expired \in SUBSET Ids, Compact(expired) PROVE HitsInv'
  <2>1. /\ pc \in Calling /\ pc' \in Calling /\ UNCHANGED <<seg_seq, wal, files>>
        /\ purged' = purged \cup CompactDocs(expired) \cup CompactArchive(expired)
    BY <1>5 DEF Compact, Enter, holder, Calling, Running
  <2>2. \A i \in Ids \ purged' : CountAt(Rows, i)' = CountAt(Rows, i)
    BY <1>5, <2>1 DEF Compact, CountAt, Rows
  <2> QED
    BY <2>1, <2>2, QuietHits
<1> QED
  BY <1>1, <1>2, <1>3, <1>4, <1>5 DEF Call, BeginCheckpointKeepWal

LEMMA StepHits ==
    ASSUME "checkpoint_keep_wal" \notin Ops, Base, HitsInv, Step,
           ~(WriteManifest \/ CleanupSegments \/ ResetWal)
    PROVE  HitsInv'
<1> USE BaseFacts
<1>1. ~RenameWal
  BY OneLog DEF RenameWal
<1>2. CASE EndForgetSubject \/ EndConsolidate
  <2>1. /\ pc \in Calling /\ pc' \in Calling
        /\ UNCHANGED <<seg_seq, wal, files>> /\ UNCHANGED <<docs, archive, purged>>
    BY <1>2 DEF EndForgetSubject, EndConsolidate, memory, ghosts, Calling, Running
  <2>2. \A i \in Ids : CountAt(Rows, i)' = CountAt(Rows, i)
    BY <2>1 DEF CountAt, Rows
  <2> QED
    BY <2>1, <2>2, QuietHits
<1>3. ASSUME NEW i \in Ids, CloseVersion(i) PROVE HitsInv'
  <2>1. /\ pc \in Calling /\ pc' \in Calling /\ UNCHANGED <<seg_seq, files, purged>>
        /\ Log(ForgetLine(i))
    BY <1>3 DEF CloseVersion, ghosts, Calling, Running
  <2>2. ForgetLine(i) \in PlainLine /\ ForgetLine(i).op = "forget" /\ ForgetLine(i).id = i
    BY LinesPlain DEF ForgetLine
  <2>3. i \in LiveIn(docs) \cup LiveIn(archive)
    BY <1>3 DEF CloseVersion, Base, TypeInv, TodoThere
  <2>4. Tallies(ForgetLine(i))
    BY <1>3, <2>2, <2>3, ClosedTallies DEF CloseVersion, LiveIn, Held
  <2> QED
    BY <2>1, <2>2, <2>4, LoggedHits
<1>4. ASSUME NEW i \in Ids, Touch(i) PROVE HitsInv'
  <2>1. /\ pc \in Calling /\ pc' \in Calling /\ UNCHANGED <<seg_seq, files, purged>>
        /\ Log(TouchLine(i)) /\ docs' = Hit(docs, i) /\ archive' = archive
    BY <1>4 DEF Touch, ghosts, Calling, Running
  <2>2. TouchLine(i) \in PlainLine /\ TouchLine(i).op = "touch" /\ TouchLine(i).id = i
    BY LinesPlain DEF TouchLine
  <2>3. docs[i] # Absent
    BY <1>4 DEF Touch, Base, TypeInv, TodoThere, Held
  <2> QED
    BY <2>1, <2>2, <2>3, HitTallies, LoggedHits
<1>5. ASSUME NEW i \in Ids, ArchiveMember(i) PROVE HitsInv'
  <2>1. /\ pc \in Calling /\ pc' \in Calling /\ UNCHANGED <<seg_seq, files, purged>>
        /\ Log(ArchiveLine(i)) /\ MoveToArchive(i)
    BY <1>5 DEF ArchiveMember, ghosts, Calling, Running
  <2>2. ArchiveLine(i) \in PlainLine /\ ArchiveLine(i).op = "archive" /\ ArchiveLine(i).id = i
    BY LinesPlain DEF ArchiveLine
  <2> QED
    BY <2>1, <2>2, MoveTallies, LoggedHits
<1>6. ASSUME NEW i \in Ids, pending \in Record, pc \in Calling, pc' \in Calling,
             UNCHANGED <<seg_seq, files, purged>>, Log(RememberLine(i, pending, FALSE)),
             docs' = [docs EXCEPT ![i] = pending], archive' = archive
      PROVE  HitsInv'
  <2> DEFINE l == RememberLine(i, pending, FALSE)
  <2>1. /\ l \in PlainLine /\ l.op = "remember" /\ l.id = i /\ l.row = pending
        /\ l.archived = FALSE
    BY <1>6, LinesPlain DEF RememberLine
  <2>2. Log(l)
    BY <1>6
  <2> HIDE DEF l
  <2>3. Tallies(l)
    BY <1>6, <2>1, PutTallies
  <2> QED
    BY <1>6, <2>1, <2>2, <2>3, LoggedHits
<1>7. CASE CommitRemember
  <2>1. next_id \in Ids /\ pending \in Record
    BY <1>7, Bounds DEF CommitRemember, Base, TypeInv, TypeOK, Counters, HolderOK, MemoryOK, Ids
  <2>2. /\ pc \in Calling /\ pc' \in Calling /\ UNCHANGED <<seg_seq, files, purged>>
        /\ Log(RememberLine(next_id, pending, FALSE))
        /\ docs' = [docs EXCEPT ![next_id] = pending] /\ archive' = archive
    BY <1>7 DEF CommitRemember, Insert, Calling, Running
  <2> QED
    BY <1>6, <2>1, <2>2
<1>8. CASE CommitSummary
  <2>1. next_id - 1 \in Ids /\ pending \in Record
    BY <1>8, Bounds DEF CommitSummary, Base, TypeInv, TypeOK, Counters, HolderOK, MemoryOK, Ids
  <2>2. /\ pc \in Calling /\ pc' \in Calling /\ UNCHANGED <<seg_seq, files, purged>>
        /\ Log(RememberLine(next_id - 1, pending, FALSE))
        /\ docs' = [docs EXCEPT ![next_id - 1] = pending] /\ archive' = archive
    BY <1>8 DEF CommitSummary, Calling, Running
  <2> QED
    BY <1>6, <2>1, <2>2
<1> QED
  BY <1>1, <1>2, <1>3, <1>4, <1>5, <1>7, <1>8 DEF Step

(* A checkpoint: until it has a new WAL, nothing is said of the log.       *)
LEMMA CheckpointHits ==
    ASSUME Base, HitsInv, BeginCheckpoint \/ WriteManifest \/ CleanupSegments \/ ResetWal
    PROVE  HitsInv'
<1> USE BaseFacts
<1>1. CASE BeginCheckpoint
  <2>1. /\ pc = "idle" /\ pc' = "write_manifest" /\ seg_seq' = seg_seq + 1
        /\ segs' = [segs EXCEPT ![seg_seq + 1] = Rows]
        /\ UNCHANGED <<docs, archive, wal, archives, manifest>> /\ UNCHANGED purged
    BY <1>1 DEF BeginCheckpoint, WriteSegment, NewSegs, ghosts
  <2>2. seg_seq + 1 \in SegNos /\ segs \in [SegNos -> Snapshot \cup {Absent}]
    <3>1. seg_seq \in Nat /\ due \in Nat /\ MaxSeg \in Nat
      BY Bounds DEF Base, TypeInv, TypeOK, MemoryOK, HolderOK
    <3>2. seg_seq + 1 <= MaxSeg
      BY <1>1, <3>1 DEF BeginCheckpoint, Base, TypeInv, Counters
    <3> QED
      BY <3>1, <3>2 DEF SegNos, Base, TypeInv, TypeOK, DiskOK
  <2>3. manifest.snapshot <= seg_seq
    BY <2>1 DEF HitsInv, SegmentCurrent, Callable, Running
  <2>4. manifest.snapshot # 0 => segs'[manifest.snapshot] = segs[manifest.snapshot]
    <3>1. manifest.snapshot # 0 => manifest.snapshot \in SegNos /\ manifest.snapshot # seg_seq + 1
      BY <2>3 DEF SegNos
    <3> QED
      BY <2>1, <2>2, <3>1
  <2>5. Known = Rows /\ Known' = Rows' /\ Rows' = Rows /\ LoadedRows' = LoadedRows
    BY <2>1, <2>4 DEF Known, Rows, LoadedRows, Recovering
  <2>6. ASSUME NEW i \in Ids, NEW t, Counts(t, i) PROVE Counts(t, i)'
    BY <2>1, <2>5, <2>6 DEF Counts
  <2>7. SegmentCurrent'
    BY <2>1, <2>2, <2>3, <2>5 DEF SegmentCurrent
  <2> QED
    BY <2>1, <2>6, <2>7 DEF HitsInv, Counted
<1>2. CASE WriteManifest
  <2>1. /\ pc = "write_manifest" /\ pc' = "cleanup" /\ manifest'.snapshot = seg_seq
        /\ UNCHANGED <<docs, archive, segs, seg_seq>>
    BY <1>2 DEF WriteManifest, memory
  <2>2. seg_seq # 0 /\ segs[seg_seq] = Rows /\ Rows' = Rows
    BY <2>1 DEF Base, TypeInv, Counters, SegNos, HitsInv, SegmentCurrent, Rows
  <2> QED
    BY <2>1, <2>2 DEF HitsInv, Counted, SegmentCurrent
<1>3. CASE CleanupSegments
  <2>1. /\ pc = "cleanup" /\ pc' = "reset_wal"
        /\ segs' = [n \in SegNos |-> IF n = manifest.snapshot THEN segs[n] ELSE Absent]
        /\ UNCHANGED <<docs, archive, seg_seq>> /\ UNCHANGED manifest
    BY <1>3 DEF CleanupSegments, memory
  <2>2. manifest.snapshot \in SegNos /\ segs'[manifest.snapshot] = Rows /\ Rows' = Rows
    BY <2>1 DEF HitsInv, SegmentCurrent, SegNos, Rows
  <2> QED
    BY <2>1, <2>2 DEF HitsInv, Counted, SegmentCurrent, Callable, Running
<1>4. CASE ResetWal
  <2>1. /\ pc = "reset_wal" /\ pc' = "idle" /\ wal' = <<>>
        /\ UNCHANGED <<docs, archive, seg_seq>> /\ UNCHANGED <<segs, manifest>>
    BY <1>4 DEF ResetWal, WalTruncated, memory, files
  <2>2. Known' = Rows /\ LoadedRows' = Rows
    BY <2>1 DEF HitsInv, SegmentCurrent, Known, Rows, LoadedRows, Recovering
  <2>3. ASSUME NEW i \in Ids PROVE \E t : Counts(t, i)'
    <3>1. PICK t : t = [k \in 0 .. 0 |-> CountAt(Rows, i)]
      OBVIOUS
    <3>2. Counts(t, i)'
      BY <2>1, <2>2, <3>1 DEF Counts, CountTrace
    <3> QED
      BY <3>2
  <2>4. SegmentCurrent'
    BY <2>1 DEF HitsInv, SegmentCurrent, Callable, Running
  <2> QED
    BY <2>3, <2>4 DEF HitsInv, Counted
<1> QED
  BY <1>1, <1>2, <1>3, <1>4

LEMMA RecoverHits ==
    ASSUME TornWrites = FALSE, NoOverlap, "checkpoint_keep_wal" \notin Ops,
           Base, HitsInv, Die \/ Open
    PROVE  HitsInv'
<1> USE BaseFacts
<1>1. CASE Die
  <2>1. /\ pc' = "down" /\ wal' = wal /\ UNCHANGED files /\ UNCHANGED purged
        /\ before' = IF pc \in Recovering THEN before ELSE Rows
    BY <1>1 DEF Die, Rows
  <2>2. Known' = Known /\ LoadedRows' = LoadedRows
    BY <2>1 DEF Known, LoadedRows, Recovering, files
  <2>3. pc \notin {"cleanup", "reset_wal"}
    BY <1>1 DEF Die, Place, NoOverlap
  <2>4. ASSUME NEW i \in Ids, NEW t, Counts(t, i) PROVE Counts(t, i)'
    BY <2>1, <2>2, <2>4 DEF Counts
  <2>5. SegmentCurrent'
    BY <2>1 DEF SegmentCurrent, Callable, Running
  <2> QED
    BY <2>3, <2>4, <2>5 DEF HitsInv, Counted
<1>2. CASE LoadSnapshot
  <2>1. /\ pc = "down" /\ pc' = "replay" /\ pos' = 0
        /\ docs' = LoadedRows.docs /\ archive' = LoadedRows.archive
        /\ UNCHANGED <<wal, files>> /\ UNCHANGED <<purged, before>>
    BY <1>2 DEF LoadSnapshot, ghosts
  <2>2. Known' = Known /\ LoadedRows' = LoadedRows
    BY <2>1 DEF Known, LoadedRows, Recovering, files
  <2>3. \A i \in Ids : CountAt(Rows, i)' = CountAt(LoadedRows, i)
    BY <2>1 DEF CountAt, Rows
  <2>4. ASSUME NEW i \in Ids, NEW t, Counts(t, i) PROVE Counts(t, i)'
    BY <2>1, <2>2, <2>3, <2>4 DEF Counts
  <2>5. SegmentCurrent'
    BY <2>1 DEF SegmentCurrent, Callable, Running
  <2> QED
    BY <2>1, <2>4, <2>5 DEF HitsInv, Counted
<1>3. CASE ReplayLine
  <2>1. /\ pc = "replay" /\ pc' = "replay" /\ pos' = pos + 1
        /\ UNCHANGED <<wal, files>> /\ UNCHANGED <<purged, before>>
    BY <1>3 DEF ReplayLine, holder, ghosts
  <2>2. pos \in 0 .. Len(wal) /\ pos + 1 \in 1 .. Len(wal) /\ wal[pos + 1] \in PlainLine
        /\ Replayed(wal[pos + 1])
    BY <1>3, <2>1, OneLog DEF ReplayLine
  <2> DEFINE l == wal[pos + 1]
  <2>3. Tallies(l)
    BY <2>2, ReplayedTallies
  <2>4. Known' = Known /\ LoadedRows' = LoadedRows
    BY <2>1 DEF Known, LoadedRows, Recovering, files
  <2>5. ASSUME NEW i \in Ids, NEW t, Counts(t, i) PROVE Counts(t, i)'
    <3>1. t[pos] = CountAt(Rows, i) /\ t[pos + 1] = Told(t[(pos + 1) - 1], l, i)
      BY <2>1, <2>2, <2>5 DEF Counts, CountTrace
    <3>2. (pos + 1) - 1 = pos
      BY <2>2
    <3>3. t[pos'] = CountAt(Rows, i)'
      BY <2>1, <2>3, <3>1, <3>2 DEF Tallies
    <3> QED
      BY <2>1, <2>4, <2>5, <3>3 DEF Counts
  <2>6. SegmentCurrent'
    BY <2>1 DEF SegmentCurrent, Callable, Running
  <2> QED
    BY <2>1, <2>5, <2>6 DEF HitsInv, Counted
<1>4. CASE NextLog
  <2>1. FALSE
    BY <1>4, OneLog, IdTypes DEF NextLog, Base
  <2> QED
    BY <2>1
<1>5. CASE FinishReplay
  <2>1. /\ pc = "replay" /\ pc' = "replayed" /\ seg_seq' = manifest.snapshot
        /\ UNCHANGED <<docs, archive, wal, files>> /\ UNCHANGED <<purged, before>>
    BY <1>5 DEF FinishReplay, ghosts
  <2>2. pos = Len(wal)
    BY <1>5, <2>1, OneLog DEF FinishReplay
  <2>3. Known' = Known /\ LoadedRows' = LoadedRows /\ Rows' = Rows
    BY <2>1 DEF Known, Rows, LoadedRows, Recovering, files
  <2>4. ASSUME NEW i \in Ids, NEW t, Counts(t, i) PROVE Counts(t, i)'
    BY <2>1, <2>2, <2>3, <2>4 DEF Counts
  <2>5. SegmentCurrent'
    BY <2>1 DEF SegmentCurrent, files
  <2> QED
    BY <2>1, <2>4, <2>5 DEF HitsInv, Counted
<1>6. CASE FinishOpen
  <2>1. /\ pc = "replayed" /\ pc' = "idle" /\ purged' = {} /\ UNCHANGED seg_seq
        /\ UNCHANGED <<docs, archive, wal, files>>
    BY <1>6 DEF FinishOpen, memory
  <2>2. LoadedRows' = LoadedRows /\ Known' = Rows
    BY <2>1 DEF Known, Rows, LoadedRows, Recovering, files
  <2>3. ASSUME NEW i \in Ids, NEW t, Counts(t, i) PROVE Counts(t, i)'
    BY <2>1, <2>2, <2>3 DEF Counts
  <2>4. SegmentCurrent'
    BY <2>1 DEF HitsInv, SegmentCurrent, Callable, files
  <2> QED
    BY <2>1, <2>3, <2>4 DEF HitsInv, Counted
<1> QED
  BY <1>1, <1>2, <1>3, <1>4, <1>5, <1>6 DEF Open

LEMMA NextHits ==
    ASSUME TornWrites = FALSE, "checkpoint_keep_wal" \notin Ops, NoOverlap,
           Base, HitsInv, [Next]_vars
    PROVE  HitsInv'
<1>1. CASE UNCHANGED vars
  <2>1. /\ UNCHANGED <<docs, archive, seg_seq, pc, pos, wal, manifest, segs>>
        /\ UNCHANGED <<purged, before>>
    BY <1>1 DEF vars, memory, holder, replay, files, ghosts
  <2>2. UNCHANGED Known /\ UNCHANGED Rows /\ UNCHANGED LoadedRows
    BY <2>1 DEF Known, Rows, LoadedRows
  <2>3. ASSUME NEW i \in Ids, NEW t, Counts(t, i) PROVE Counts(t, i)'
    BY <2>1, <2>2, <2>3 DEF Counts
  <2> QED
    BY <2>1, <2>2, <2>3 DEF HitsInv, Counted, SegmentCurrent, Callable
<1>2. CASE Call
  BY <1>2, CallHits, CheckpointHits
<1>3. CASE Step
  BY <1>3, StepHits, CheckpointHits
<1>4. CASE Open \/ Die
  BY <1>4, RecoverHits
<1> QED
  BY <1>1, <1>2, <1>3, <1>4 DEF Next, NoEffect

(* What a recall has strengthened keeps its strength: a death and recovery *)
(* neither lose a Touch line nor count it twice, unless it fell beside a   *)
(* segment that counts the line already.                                   *)
THEOREM HitsAlwaysRecovered ==
    ASSUME TornWrites = FALSE, "checkpoint_keep_wal" \notin Ops, NoOverlap
    PROVE  Spec => []HitsRecovered
<1>1. TypeInv /\ IdsInv /\ [Next]_vars => IdsInv'
  BY NextIdsInv DEF NoLostFile
<1>2. TypeInv /\ IdsInv /\ HitsInv /\ [Next]_vars => HitsInv'
  BY NextHits DEF Base
<1>3. TypeInv /\ IdsInv /\ HitsInv => HitsRecovered
  <2> SUFFICES ASSUME TypeInv, IdsInv, HitsInv, pc = "replayed", NEW i \in Ids \ purged,
                      docs[i] # Absent, before.docs[i] # Absent
               PROVE  docs[i].hits = before.docs[i].hits
    BY DEF HitsRecovered
  <2>1. PICK t : Counts(t, i)
    BY DEF HitsInv, Counted
  <2>2. CountAt(Rows, i) = CountAt(before, i)
    BY <2>1 DEF Counts, Known, Recovering
  <2>3. docs[i].hits + 1 = before.docs[i].hits + 1
    BY <2>2 DEF CountAt, Rows, Count
  <2>4. docs[i] \in Record /\ before.docs[i] \in Record
    <3>1. before \in Snapshot /\ Maps
      BY BaseFacts DEF Base, TypeInv, TypeOK, HistoryOK, Counters, Recovering
    <3> QED
      BY <3>1 DEF Snapshot, Maps, Map
  <2> QED
    BY <2>3, <2>4, Bounds DEF Record
<1> QED
  BY InitIdsInv, InitHitsInv, <1>1, <1>2, <1>3, TypeCorrect, PTL DEF Spec

-----------------------------------------------------------------------------
(* What callers see of a collection: it implements MemoryStore, a recall   *)
(* sees one version of a subject, and live summaries keep their sources.   *)
(*                                                                         *)
(* A subject has one live version, and what consolidate archived has a      *)
(* summary, with fewer operations. All of it follows from what a step does *)
(* to the statuses that recovery would rebuild (Known): nothing, or the    *)
(* effect of one line, or the loss of what compact took, or the return of  *)
(* some of it.                                                             *)

Quiet ==
    /\ \A i \in Ids : At(Known, i)' = At(Known, i)
    /\ purged' \in {purged, {}} /\ erased' = erased

(* Which lines a step may write, and what they are about.                  *)
Remembers(l) == /\ l.op = "remember" /\ At(Known, l.id) = Gone /\ erased' = erased
                /\ \/ /\ pc \in {"supersede", "archiving"} /\ todo = {}
                      /\ l.row = pending /\ ~l.archived
                   \/ "import_row" \in Ops /\ l.row \in ImportRows
Closes(l)    == l.op = "forget" /\ At(Known, l.id) # Gone /\ erased' = erased
Touches(l)   == l.op = "touch" /\ erased' = erased
Shelves(l)   == /\ l.op = "archive" /\ pc = "archiving" /\ l.id \in todo
                /\ At(Known, l.id) # Gone /\ erased' = erased
Erases(l)    == /\ l.op = "hard_delete" /\ "hard_delete" \in Ops
                /\ At(Known, l.id) # Gone /\ erased' = erased \cup {l.id}

Applies(l) ==
    /\ \A i \in Ids : At(Known, i)' = Moved(At(Known, i), l, i)
    /\ \A i \in Ids : Single(At(Known, i))
    /\ Remembers(l) \/ Closes(l) \/ Touches(l) \/ Shelves(l) \/ Erases(l)
    /\ purged' = purged

Takes(expired) ==
    /\ Compact(expired) /\ Known = Rows
    /\ \A i \in Ids : Single(At(Known, i))
    /\ CompactTaken(expired) \subseteq Ids
    /\ \A i \in CompactTaken(expired) :
          At(Known, i) # Gone /\ Expendable(At(Known, i)) /\ At(Known, i)' = Gone
    /\ \A i \in Ids \ CompactTaken(expired) : At(Known, i)' = At(Known, i)
    /\ purged' = purged \cup CompactTaken(expired) /\ erased' = erased

Returns ==
    /\ \A i \in Ids \ purged : At(Known, i)' = At(Known, i)
    /\ \A i \in purged : i \in Ids => /\ At(Known, i) = Gone
                                      /\ Expendable(At(Known, i)')
    /\ purged' = {} /\ erased' = erased

LEMMA RunningKnown ==
    ASSUME Base, RecoveryInv, pc \in Running
    PROVE  Known = Rows /\ \A i \in Ids : Single(At(Known, i))
<1>1. Known = Rows
  BY DEF Known, Running, Recovering
<1> QED
  BY <1>1, RunningSingle

LEMMA DoesApplies ==
    ASSUME Base, RecoveryInv, pc \in Running, pc' \in Running, NEW l, Does(l),
           Remembers(l) \/ Closes(l) \/ Touches(l) \/ Shelves(l) \/ Erases(l), purged' = purged
    PROVE  Applies(l)
<1>1. Known' = Rows'
  BY DEF Known, Running, Recovering
<1> QED
  BY <1>1, RunningKnown DEF Does, Applies

LEMMA LineSteps ==
    ASSUME Base, RecoveryInv, NEW i \in Ids,
           \/ CloseVersion(i) \/ Touch(i) \/ ArchiveMember(i)
           \/ Forget(i) \/ HardDelete(i)
           \/ \E r \in ImportRows, arch \in BOOLEAN : ImportRow(i, r, arch)
           \/ CommitRemember \/ CommitSummary
    PROVE  \E l \in PlainLine : Applies(l)
<1>0. /\ pc \in Running /\ pc' \in Running /\ purged' = purged
  BY DEF CloseVersion, Touch, ArchiveMember, Forget, HardDelete, ImportRow, CommitRemember,
         CommitSummary, Enter, ghosts, holder, Running
<1>1. Known = Rows
  BY <1>0, RunningKnown
<1>2. CASE CloseVersion(i)
  <2>1. Closes(ForgetLine(i))
    BY <1>1, <1>2, CloseVersionDoes DEF Closes, ForgetLine, CloseVersion, ghosts
  <2> QED
    BY <1>0, <1>2, <2>1, CloseVersionDoes, DoesApplies, LinesPlain
<1>3. CASE Touch(i)
  <2>1. Touches(TouchLine(i))
    BY <1>3 DEF Touches, TouchLine, Touch, ghosts
  <2> QED
    BY <1>0, <1>3, <2>1, TouchDoes, DoesApplies, LinesPlain
<1>4. CASE ArchiveMember(i)
  <2>1. Shelves(ArchiveLine(i))
    BY <1>1, <1>4, ArchiveMemberDoes DEF Shelves, ArchiveLine, ArchiveMember, ghosts
  <2> QED
    BY <1>0, <1>4, <2>1, ArchiveMemberDoes, DoesApplies, LinesPlain
<1>5. CASE Forget(i)
  <2>1. Closes(ForgetLine(i))
    BY <1>1, <1>5, ForgetDoes DEF Closes, ForgetLine, Forget, ghosts
  <2> QED
    BY <1>0, <1>5, <2>1, ForgetDoes, DoesApplies, LinesPlain
<1>6. CASE HardDelete(i)
  <2>1. Erases(HardDeleteLine(i))
    BY <1>1, <1>6, HardDeleteDoes DEF Erases, HardDeleteLine, HardDelete, Enter
  <2> QED
    BY <1>0, <1>6, <2>1, HardDeleteDoes, DoesApplies, LinesPlain
<1>7. CASE \E r \in ImportRows, arch \in BOOLEAN : ImportRow(i, r, arch)
  <2>1. PICK r \in ImportRows, arch \in BOOLEAN : ImportRow(i, r, arch)
    BY <1>7
  <2> DEFINE l == RememberLine(i, r, arch)
  <2>2. Does(l) /\ l \in PlainLine /\ i \notin issued
    BY <2>1, ImportRowDoes
  <2>3. l.op = "remember" /\ l.id = i /\ l.row = r
    BY DEF RememberLine
  <2>4. "import_row" \in Ops /\ erased' = erased
    BY <2>1 DEF ImportRow, Enter
  <2> HIDE DEF l
  <2>5. Remembers(l)
    BY <2>2, <2>3, <2>4 DEF Remembers, RecoveryInv, UnissuedGone
  <2> QED
    BY <1>0, <2>2, <2>5, DoesApplies
<1>8. CASE CommitRemember
  <2> DEFINE l == RememberLine(next_id, pending, FALSE)
  <2>1. Does(l) /\ l \in PlainLine /\ next_id \in Ids \ issued
    BY <1>8, CommitRememberDoes
  <2>2. l.op = "remember" /\ l.id = next_id /\ l.row = pending /\ l.archived = FALSE
    BY DEF RememberLine
  <2>3. pc = "supersede" /\ todo = {} /\ erased' = erased
    BY <1>8 DEF CommitRemember
  <2> HIDE DEF l
  <2>4. Remembers(l)
    BY <2>1, <2>2, <2>3 DEF Remembers, RecoveryInv, UnissuedGone
  <2> QED
    BY <1>0, <2>1, <2>4, DoesApplies
<1>9. CASE CommitSummary
  <2> DEFINE l == RememberLine(next_id - 1, pending, FALSE)
  <2>1. Does(l) /\ l \in PlainLine /\ next_id - 1 \in Ids \ issued
    BY <1>9, CommitSummaryDoes
  <2>2. l.op = "remember" /\ l.id = next_id - 1 /\ l.row = pending /\ l.archived = FALSE
    BY DEF RememberLine
  <2>3. pc = "archiving" /\ todo = {} /\ erased' = erased
    BY <1>9 DEF CommitSummary
  <2> HIDE DEF l
  <2>4. Remembers(l)
    BY <2>1, <2>2, <2>3 DEF Remembers, RecoveryInv, UnissuedGone
  <2> QED
    BY <1>0, <2>1, <2>4, DoesApplies
<1> QED
  BY <1>2, <1>3, <1>4, <1>5, <1>6, <1>7, <1>8, <1>9

LEMMA CompactSteps ==
    ASSUME Base, RecoveryInv, NEW expired \in SUBSET Ids, Compact(expired)
    PROVE  Takes(expired)
<1>1. /\ pc \in Running /\ pc' = pc /\ erased' = erased
      /\ purged' = purged \cup CompactTaken(expired)
  BY DEF Compact, Enter, holder, Running, CompactTaken
<1>2. Known' = Rows'
  BY <1>1 DEF Known, Running, Recovering
<1> QED
  BY <1>1, <1>2, RunningKnown, CompactTakes DEF Takes

LEMMA FinishOpenReturns ==
    ASSUME Base, RecoveryInv, FinishOpen
    PROVE  Returns
<1>1. /\ pc = "replayed" /\ pc' = "idle" /\ purged' = {} /\ erased' = erased
      /\ UNCHANGED <<docs, archive>>
  BY DEF FinishOpen, memory
<1>2. Known = before /\ Known' = Rows
  BY <1>1 DEF Known, Recovering, Rows
<1>3. ASSUME NEW i \in Ids PROVE /\ i \notin purged => At(Known, i)' = At(Known, i)
                                 /\ i \in purged => Expendable(At(Known, i)')
  <2>1. PICK w, t, n : Follows(t, i, w, n)
    BY DEF RecoveryInv, Traced, Tells
  <2>2. At(Known, i)' = At(Rows, i)
    BY <1>1, <1>2 DEF At, Rows
  <2> QED
    BY <1>1, <2>1, <2>2 DEF Follows
<1> QED
  BY <1>1, <1>3 DEF Returns, RecoveryInv, PurgedGone

LEMMA KnownKept ==
    ASSUME Known' = Known, purged' \in {purged, {}}, erased' = erased
    PROVE  Quiet
BY DEF Quiet, At

LEMMA QuietSteps ==
    ASSUME Base, RecoveryInv,
           \/ \E s \in Subjects \cup {NoSubject}, tag \in Tags : BeginRemember(s, tag)
           \/ \E picked \in SUBSET Ids : BeginRecall(picked)
           \/ \E s \in Subjects : BeginForgetSubject(s)
           \/ \E group \in SUBSET Ids : BeginGroup(group)
           \/ BeginCheckpoint \/ BeginCheckpointKeepWal
           \/ EndForgetSubject \/ EndConsolidate
           \/ RenameWal \/ WriteManifest \/ CleanupSegments \/ ResetWal
           \/ LoadSnapshot \/ ReplayLine \/ NextLog \/ FinishReplay
           \/ Die \/ UNCHANGED vars
    PROVE  Quiet
<1>1. CASE \/ \E s \in Subjects \cup {NoSubject}, tag \in Tags : BeginRemember(s, tag)
           \/ \E picked \in SUBSET Ids : BeginRecall(picked)
           \/ \E s \in Subjects : BeginForgetSubject(s)
           \/ \E group \in SUBSET Ids : BeginGroup(group)
           \/ BeginCheckpoint \/ BeginCheckpointKeepWal
           \/ EndForgetSubject \/ EndConsolidate
           \/ RenameWal \/ WriteManifest \/ CleanupSegments \/ ResetWal
  <2>1. /\ pc \notin Recovering /\ pc' \notin Recovering /\ UNCHANGED <<docs, archive>>
        /\ purged' \in {purged, {}} /\ erased' = erased
    BY <1>1 DEF BeginRemember, BeginRecall, BeginForgetSubject, BeginGroup, BeginCheckpoint,
                BeginCheckpointKeepWal, EndForgetSubject, EndConsolidate, RenameWal,
                WriteManifest, CleanupSegments, ResetWal, WriteSegment, Enter, memory, ghosts,
                Recovering
  <2>2. Known' = Known
    BY <2>1 DEF Known, Rows
  <2> QED
    BY <2>1, <2>2, KnownKept
<1>2. CASE LoadSnapshot \/ ReplayLine \/ NextLog \/ FinishReplay
  <2>1. /\ pc \in Recovering /\ pc' \in Recovering /\ before' = before
        /\ purged' = purged /\ erased' = erased
    BY <1>2 DEF LoadSnapshot, ReplayLine, NextLog, FinishReplay, holder, ghosts, Recovering
  <2>2. Known' = Known
    BY <2>1 DEF Known
  <2> QED
    BY <2>1, <2>2, KnownKept
<1>3. CASE Die
  <2>1. pc' \in Recovering /\ before' = Known /\ purged' = purged /\ erased' = erased
    BY <1>3 DEF Die, Known, Rows, Recovering
  <2>2. Known' = Known
    BY <2>1 DEF Known
  <2> QED
    BY <2>1, <2>2, KnownKept
<1>4. CASE UNCHANGED vars
  <2>1. UNCHANGED <<docs, archive, pc, before, purged, erased>>
    BY <1>4 DEF vars, memory, holder, ghosts
  <2>2. Known' = Known
    BY <2>1 DEF Known, Rows
  <2> QED
    BY <2>1, <2>2, KnownKept
<1> QED
  BY <1>1, <1>2, <1>3, <1>4

(* Every step is of one of the four kinds.                                 *)
LEMMA StepStatus ==
    ASSUME Base, RecoveryInv, [Next]_vars
    PROVE  \/ Quiet
           \/ \E l \in PlainLine : Applies(l)
           \/ \E expired \in SUBSET Ids : Takes(expired)
           \/ Returns
<1>1. CASE Call
  <2>1. \/ \E s \in Subjects \cup {NoSubject}, tag \in Tags : BeginRemember(s, tag)
        \/ \E picked \in SUBSET Ids : BeginRecall(picked)
        \/ \E s \in Subjects : BeginForgetSubject(s)
        \/ \E group \in SUBSET Ids : BeginGroup(group)
        \/ BeginCheckpoint \/ BeginCheckpointKeepWal
        \/ \E i \in Ids : Forget(i) \/ HardDelete(i)
        \/ \E i \in Ids, r \in ImportRows, arch \in BOOLEAN : ImportRow(i, r, arch)
        \/ \E expired \in SUBSET Ids : Compact(expired)
    BY <1>1 DEF Call
  <2>2. CASE \E i \in Ids : Forget(i) \/ HardDelete(i)
    BY <2>2, LineSteps
  <2>3. CASE \E i \in Ids, r \in ImportRows, arch \in BOOLEAN : ImportRow(i, r, arch)
    BY <2>3, LineSteps
  <2> QED
    BY <2>1, <2>2, <2>3, QuietSteps, CompactSteps
<1>2. CASE Step
  <2>1. \E i \in Ids : TRUE
    BY Bounds DEF Ids
  <2>2. CASE \E i \in Ids : CloseVersion(i) \/ Touch(i) \/ ArchiveMember(i)
    BY <2>2, LineSteps
  <2>3. CASE CommitRemember \/ CommitSummary
    BY <2>1, <2>3, LineSteps
  <2> QED
    BY <1>2, <2>2, <2>3, QuietSteps DEF Step
<1>3. CASE Open
  BY <1>3, QuietSteps, FinishOpenReturns DEF Open
<1> QED
  BY <1>1, <1>2, <1>3, QuietSteps DEF Next, NoEffect

-----------------------------------------------------------------------------
(* The refinement: what MemoryStore sees of a status.                      *)

View(c) == IF c.d # Absent THEN Shown(c.d, FALSE)
           ELSE IF c.a # Absent THEN Shown(c.a, TRUE)
           ELSE Absent
Mapped  == Visible(Known)

LEMMA RowFields ==
    ASSUME NEW x \in Store!Row, NEW y \in Store!Row,
           y.subject = x.subject, y.summary = x.summary, y.sources = x.sources
    PROVE  /\ ~y.live /\ y.archived = x.archived => y = [x EXCEPT !.live = FALSE]
           /\ y.archived /\ y.live = x.live => y = [x EXCEPT !.archived = TRUE]
BY DEF Store!Row

LEMMA ShownFacts ==
    ASSUME NEW r \in Record, NEW arch \in BOOLEAN
    PROVE  /\ Shown(r, arch) \in Store!Row
           /\ Shown(r, arch).live = r.live /\ Shown(r, arch).summary = r.summary
           /\ Shown(r, arch).sources = r.sources /\ Shown(r, arch).archived = arch
           /\ Shown(r, arch).subject = r.subject
BY DEF Shown, Record, Store!Row

LEMMA ShownChanges ==
    ASSUME NEW r \in Record, NEW arch \in BOOLEAN
    PROVE  /\ Shown(Dead(r), arch) = [Shown(r, arch) EXCEPT !.live = FALSE]
           /\ Shown(r, TRUE) = [Shown(r, arch) EXCEPT !.archived = TRUE]
<1> DEFINE x == Shown(r, arch)
<1>1. Shown(Dead(r), arch) = [Shown(r, arch) EXCEPT !.live = FALSE]
  <2> DEFINE y == Shown(Dead(r), arch)
  <2>1. /\ Dead(r) \in Record /\ Dead(r).live = FALSE /\ Dead(r).subject = r.subject
        /\ Dead(r).summary = r.summary /\ Dead(r).sources = r.sources
    BY DEF Dead, Record
  <2>2. /\ x \in Store!Row /\ y \in Store!Row /\ ~y.live /\ y.archived = x.archived
        /\ y.subject = x.subject /\ y.summary = x.summary /\ y.sources = x.sources
    BY <2>1, ShownFacts
  <2> HIDE DEF x, y
  <2>3. y = [x EXCEPT !.live = FALSE]
    BY <2>2, RowFields
  <2> QED
    BY <2>3 DEF x, y
<1>2. Shown(r, TRUE) = [Shown(r, arch) EXCEPT !.archived = TRUE]
  <2> DEFINE y == Shown(r, TRUE)
  <2>1. /\ x \in Store!Row /\ y \in Store!Row /\ y.live = x.live /\ y.archived
        /\ y.subject = x.subject /\ y.summary = x.summary /\ y.sources = x.sources
    <3>1. ASSUME NEW b \in BOOLEAN
          PROVE  /\ Shown(r, b) \in Store!Row /\ Shown(r, b).live = r.live
                 /\ Shown(r, b).subject = r.subject /\ Shown(r, b).summary = r.summary
                 /\ Shown(r, b).sources = r.sources
      BY ShownFacts
    <3>2. Shown(r, TRUE).archived
      BY DEF Shown
    <3> QED
      BY <3>1, <3>2
  <2> HIDE DEF x, y
  <2>2. y = [x EXCEPT !.archived = TRUE]
    BY <2>1, RowFields
  <2> QED
    BY <2>2 DEF x, y
<1> QED
  BY <1>1, <1>2

LEMMA ViewType ==
    ASSUME NEW c \in Status
    PROVE  /\ View(c) \in Store!Row \cup {Absent}
           /\ View(c) = Absent <=> c = Gone
<1>1. \A r \in Record, arch \in BOOLEAN : Shown(r, arch) \in Store!Row
  BY DEF Shown, Store!Row, Record
<1>2. Absent \notin Store!Row
  BY ShownAssumption
<1>3. /\ c.d # Absent => c.d \in Record
      /\ c.a # Absent => c.a \in Record
      /\ c = Gone <=> c.d = Absent /\ c.a = Absent
  BY DEF Status, Slot, Gone
<1> HIDE DEF Store!Row
<1> QED
  BY <1>1, <1>2, <1>3 DEF View

LEMMA VisibleView ==
    ASSUME NEW m \in Snapshot, NEW i \in Ids
    PROVE  Visible(m)[i] = View(At(m, i)) /\ At(m, i) \in Status
<1>1. m.docs[i] \in Slot /\ m.archive[i] \in Slot
  BY DEF Snapshot, Map, Slot
<1>2. \A r \in Record, arch \in BOOLEAN : Shown(Plain(r), arch) = Shown(r, arch)
  <2>1. \A r \in Record : Plain(r) = [r EXCEPT !.hits = 0]
    BY Bounds DEF Plain
  <2> QED
    BY <2>1 DEF Shown, Record
<1>3. At(m, i) \in Status
  BY <1>1, PlainType DEF At, Status
<1>4. /\ m.docs[i] # Absent => m.docs[i] \in Record
      /\ m.archive[i] # Absent => m.archive[i] \in Record
  BY <1>1 DEF Slot
<1>5. /\ Plain(m.docs[i]) = Absent <=> m.docs[i] = Absent
      /\ Plain(m.archive[i]) = Absent <=> m.archive[i] = Absent
  BY <1>1, PlainType
<1> QED
  BY <1>2, <1>3, <1>4, <1>5 DEF Visible, View, At

LEMMA KnownType == TypeInv => Known \in Snapshot
<1> SUFFICES ASSUME TypeInv PROVE Known \in Snapshot
  OBVIOUS
<1>1. pc \in Recovering => before \in Snapshot
  BY DEF TypeInv, TypeOK, HistoryOK, Counters
<1>2. Rows \in Snapshot
  BY DEF TypeInv, TypeOK, MemoryOK, Rows, Snapshot
<1> QED
  BY <1>1, <1>2 DEF Known

MappedOK ==
    /\ Mapped \in [Ids -> Store!Row \cup {Absent}]
    /\ \A i \in Ids : /\ At(Known, i) \in Status
                      /\ Mapped[i] = View(At(Known, i))
                      /\ Mapped[i] = Absent <=> At(Known, i) = Gone

LEMMA MappedFacts == TypeInv => MappedOK
<1> SUFFICES ASSUME TypeInv PROVE MappedOK
  OBVIOUS
<1>1. \A i \in Ids : /\ At(Known, i) \in Status
                     /\ Mapped[i] = View(At(Known, i))
  BY KnownType, VisibleView DEF Mapped
<1>2. \A i \in Ids : /\ Mapped[i] \in Store!Row \cup {Absent}
                     /\ Mapped[i] = Absent <=> At(Known, i) = Gone
  BY <1>1, ViewType
<1>3. Mapped = [i \in Ids |-> Mapped[i]]
  BY DEF Mapped, Visible
<1> QED
  BY <1>1, <1>2, <1>3 DEF MappedOK

LEMMA MappedNext == TypeInv' => MappedOK'
BY MappedFacts, PTL

-----------------------------------------------------------------------------
(* What the holder of the lock knows while it archives, or supersedes:     *)
(* every row it will archive is a live memory and a source of the summary, *)
(* every source is there, every live version of the subject waits to be    *)
(* closed.                                                                 *)

Archives ==
    pc = "archiving" =>
        /\ \A i \in todo : i \in LiveIn(docs) /\ ~docs[i].summary
        /\ pending.summary /\ todo \subseteq pending.sources
        /\ pending.sources \subseteq Held(docs) \cup Held(archive)
Supersedes ==
    pc = "supersede" =>
        /\ pending.sources = {}
        /\ pending.subject # NoSubject =>
              /\ \A i \in LiveIn(docs) : docs[i].subject = pending.subject => i \in todo
              /\ \A i \in LiveIn(archive) : archive[i].subject = pending.subject => i \in todo
HolderInv == Archives /\ Supersedes

LEMMA HolderSteps ==
    ASSUME [Next]_vars
    PROVE  \/ pc' \notin {"archiving", "supersede"}
           \/ \E s \in Subjects \cup {NoSubject}, tag \in Tags : BeginRemember(s, tag)
           \/ \E group \in SUBSET Ids : BeginGroup(group)
           \/ \E i \in Ids : CloseVersion(i) \/ ArchiveMember(i)
           \/ UNCHANGED vars
<1>1. CASE Call
  BY <1>1 DEF Call, BeginRecall, Forget, HardDelete, BeginForgetSubject, ImportRow, Compact,
              BeginCheckpoint, BeginCheckpointKeepWal, Enter, holder
<1>2. CASE Step
  BY <1>2 DEF Step, Touch, CommitRemember, EndForgetSubject, CommitSummary, EndConsolidate,
              RenameWal, WriteManifest, CleanupSegments, ResetWal
<1>3. CASE Open \/ Die
  BY <1>3 DEF Open, LoadSnapshot, ReplayLine, NextLog, FinishReplay, FinishOpen, Die, holder
<1> QED
  BY <1>1, <1>2, <1>3 DEF Next, NoEffect

LEMMA NextHolderInv ==
    ASSUME Base, RecoveryInv, IndexInv, HolderInv, [Next]_vars
    PROVE  HolderInv'
<1> USE BaseFacts
<1>1. CASE \E s \in Subjects \cup {NoSubject}, tag \in Tags : BeginRemember(s, tag)
  <2>1. PICK s \in Subjects \cup {NoSubject}, tag \in Tags : BeginRemember(s, tag)
    BY <1>1
  <2>2. /\ pc = "idle" /\ pc' = "supersede" /\ todo' = LiveVersions(s)
        /\ pending'.sources = {} /\ pending'.subject = s /\ docs' = docs /\ archive' = archive
    BY <2>1 DEF BeginRemember, Enter, NewRecord, memory
  <2>3. ASSUME NEW i \in LiveIn(docs), docs[i].subject = s, s # NoSubject
        PROVE  i \in LiveVersions(s)
    <3>1. Found(docs, i) /\ docs[i] # Absent
      BY <2>2 DEF IndexInv, LiveIn, Held
    <3> QED
      BY <2>3, <3>1 DEF LiveVersions, Found
  <2>4. ASSUME NEW i \in LiveIn(archive), archive[i].subject = s, s # NoSubject
        PROVE  i \in LiveVersions(s)
    <3>1. Found(archive, i) /\ archive[i] # Absent
      BY <2>2 DEF IndexInv, LiveIn, Held
    <3> QED
      BY <2>4, <3>1 DEF LiveVersions, Found
  <2> QED
    BY <2>2, <2>3, <2>4 DEF HolderInv, Archives, Supersedes, LiveIn, Held
<1>2. CASE \E group \in SUBSET Ids : BeginGroup(group)
  <2>1. PICK group \in SUBSET Ids : BeginGroup(group)
    BY <1>2
  <2>2. /\ pc' = "archiving" /\ todo' = group /\ group \subseteq Eligible
        /\ pending'.sources = group /\ pending'.summary /\ docs' = docs
    BY <2>1 DEF BeginGroup, NewRecord
  <2> QED
    BY <2>2 DEF HolderInv, Archives, Supersedes, Eligible, LiveIn, Held
<1>3. ASSUME NEW i \in Ids, CloseVersion(i)
      PROVE  HolderInv'
  <2>1. /\ pc' = pc /\ pc # "archiving" /\ pc \in Running /\ i \in todo
        /\ todo' = todo \ {i} /\ pending' = pending
        /\ i \in LiveIn(docs) => docs' = Closed(docs, i) /\ archive' = archive
        /\ i \notin LiveIn(docs) => docs' = docs /\ archive' = Closed(archive, i)
    BY <1>3 DEF CloseVersion, Running
  <2>2. i \in LiveIn(docs) \cup LiveIn(archive)
    BY <1>3, <2>1 DEF CloseVersion, Base, TypeInv, TodoThere
  <2>3. docs[i] = Absent \/ archive[i] = Absent
    BY <2>1, RunningSingle, RowsStatus DEF Single
  <2>4. ASSUME NEW m \in {docs, archive}, m[i] # Absent
        PROVE  \A j \in LiveIn(Closed(m, i)) : j # i /\ j \in LiveIn(m) /\ Closed(m, i)[j] = m[j]
    BY <2>4 DEF LiveIn, Held, Closed, Maps, Map, Record
  <2>5. /\ \A j \in LiveIn(docs)' : j # i /\ j \in LiveIn(docs) /\ docs'[j] = docs[j]
        /\ \A j \in LiveIn(archive)' : j # i /\ j \in LiveIn(archive) /\ archive'[j] = archive[j]
    <3>1. CASE i \in LiveIn(docs)
      BY <2>1, <2>3, <2>4, <3>1 DEF LiveIn, Held
    <3>2. CASE i \notin LiveIn(docs)
      BY <2>1, <2>2, <2>3, <2>4, <3>2 DEF LiveIn, Held
    <3> QED
      BY <3>1, <3>2
  <2> QED
    BY <2>1, <2>5 DEF HolderInv, Archives, Supersedes
<1>4. ASSUME NEW i \in Ids, ArchiveMember(i)
      PROVE  HolderInv'
  <2>1. /\ pc' = "archiving" /\ pc = "archiving" /\ todo' = todo \ {i} /\ pending' = pending
        /\ docs[i] # Absent
        /\ docs' = [docs EXCEPT ![i] = Absent] /\ archive' = [archive EXCEPT ![i] = docs[i]]
    BY <1>4 DEF ArchiveMember, MoveToArchive
  <2>2. /\ \A j \in Ids \ {i} : docs'[j] = docs[j] /\ archive'[j] = archive[j]
        /\ archive'[i] # Absent
    BY <2>1 DEF Maps, Map
  <2>3. (Held(docs) \cup Held(archive)) \subseteq (Held(docs) \cup Held(archive))'
    BY <2>2 DEF Held
  <2>4. \A j \in todo \ {i} : j \in LiveIn(docs)' /\ ~docs'[j].summary
    BY <2>1, <2>2 DEF HolderInv, Archives, LiveIn, Held
  <2> QED
    BY <2>1, <2>3, <2>4 DEF HolderInv, Archives, Supersedes
<1>5. CASE UNCHANGED vars
  BY <1>5 DEF vars, memory, holder, HolderInv, Archives, Supersedes, LiveIn, Held
<1>6. CASE pc' \notin {"archiving", "supersede"}
  BY <1>6 DEF HolderInv, Archives, Supersedes
<1> QED
  BY <1>1, <1>2, <1>3, <1>4, <1>5, <1>6, HolderSteps

LEMMA HolderAlways == ASSUME Sound PROVE Spec => []HolderInv
<1>1. Init => HolderInv
  BY DEF Init, HolderInv, Archives, Supersedes
<1>2. Base /\ RecoveryInv /\ IndexInv /\ HolderInv /\ [Next]_vars => HolderInv'
  BY NextHolderInv
<1> QED
  BY <1>1, <1>2, RecoveryAlways, IndexAlways, PTL DEF Spec

-----------------------------------------------------------------------------
(* Every step is one of the store, or changes nothing it shows.            *)

LEMMA StoreLine ==
    ASSUME Base, TypeInv', HolderInv, NEW l \in PlainLine, Applies(l)
    PROVE  \/ UNCHANGED <<Mapped, purged>>
           \/ Store!Put(l.id) \/ Store!Close(l.id) \/ Store!Shelve(l.id) \/ Store!Erase(l.id)
<1> DEFINE i == l.id
           c == At(Known, i)
           e == Effect(c, l)
<1>1. /\ Mapped \in [Ids -> Store!Row \cup {Absent}]
      /\ Mapped' \in [Ids -> Store!Row \cup {Absent}]
      /\ i \in Ids /\ c \in Status /\ Single(c) /\ Mapped[i] = View(c) /\ Mapped'[i] = View(e)
      /\ Mapped[i] = Absent <=> c = Gone
      /\ Mapped'[i] = Absent <=> e = Gone
      /\ \A j \in Ids \ {i} : Mapped'[j] = Mapped[j]
      /\ purged' = purged
  BY MappedFacts, MappedNext, LineCases DEF MappedOK, Applies, Moved, Base
<1>2. Mapped' = [Mapped EXCEPT ![i] = View(e)] /\ Mapped'[i] \in Store!Row \cup {Absent}
  BY <1>1
<1>3. /\ c = Gone <=> c.d = Absent /\ c.a = Absent
      /\ c.d # Absent => c.d \in Record /\ Dead(c.d) \in Record /\ Dead(c.d) # Absent
      /\ c.a # Absent => c.a \in Record /\ Dead(c.a) \in Record /\ Dead(c.a) # Absent
  BY <1>1, DeadType DEF Status, Slot, Gone
<1>4. CASE Remembers(l)
  <2>1. e # Gone /\ c = Gone
    <3>1. l.row \in Record /\ l.archived \in BOOLEAN /\ Plain(l.row) # Absent /\ c = Gone
      BY <1>4, LineCases, PlainOf DEF Remembers
    <3> QED
      BY <1>4, <3>1 DEF Remembers, Effect, Gone
  <2> HIDE DEF e, c, i
  <2>2. Store!Put(i)
    BY <1>1, <1>2, <2>1 DEF Store!Put, Mapped, Known
  <2> QED
    BY <2>2 DEF i
<1>5. CASE Closes(l)
  <2>1. c # Gone
    BY <1>5 DEF Closes
  <2>2. View(e) = [View(c) EXCEPT !.live = FALSE]
    <3>1. CASE c.d # Absent
      <4>1. e = [d |-> Dead(c.d), a |-> c.a]
        BY <1>5, <3>1 DEF Closes, Effect
      <4> HIDE DEF e, c
      <4>2. View(c) = Shown(c.d, FALSE) /\ View(e) = Shown(Dead(c.d), FALSE)
        BY <1>3, <3>1, <4>1 DEF View
      <4> QED
        BY <1>3, <3>1, <4>2, ShownChanges
    <3>2. CASE c.d = Absent
      <4>1. e = [d |-> Absent, a |-> Dead(c.a)] /\ c.a # Absent
        BY <1>3, <1>5, <2>1, <3>2 DEF Closes, Effect
      <4> HIDE DEF e, c
      <4>2. View(c) = Shown(c.a, TRUE) /\ View(e) = Shown(Dead(c.a), TRUE)
        BY <1>3, <3>2, <4>1 DEF View
      <4> QED
        BY <1>3, <4>1, <4>2, ShownChanges
    <3> QED
      BY <3>1, <3>2
  <2> HIDE DEF e, c, i
  <2>3. Mapped' = [Mapped EXCEPT ![i].live = FALSE]
    BY <1>1, <1>2, <2>2
  <2>4. Store!Close(i)
    BY <1>1, <2>1, <2>3 DEF Store!Close, Mapped, Known
  <2> QED
    BY <2>4 DEF i
<1>6. CASE Touches(l)
  <2>1. e = c
    BY <1>6 DEF Touches, Effect
  <2> HIDE DEF e, c, i
  <2> QED
    BY <1>1, <1>2, <2>1
<1>7. CASE Shelves(l)
  <2>1. c.d # Absent /\ c.d.live /\ ~c.d.summary /\ c.a = Absent
    <3>1. pc = "archiving" /\ i \in todo /\ Known = Rows
      BY <1>7 DEF Shelves, Known, Recovering
    <3>2. docs[i] \in Record /\ docs[i].live /\ ~docs[i].summary /\ c.d = Plain(docs[i])
      BY <1>1, <3>1, RowsStatus, BaseFacts DEF HolderInv, Archives, LiveIn, Held, Maps, Map
    <3>3. Plain(docs[i]) # Absent /\ Plain(docs[i]) = [docs[i] EXCEPT !.hits = 0]
      BY <3>2, PlainOf, Bounds DEF Plain
    <3> QED
      BY <1>1, <3>2, <3>3 DEF Single, Record
  <2>2. /\ View(e) = [View(c) EXCEPT !.archived = TRUE] /\ View(c) # Absent
        /\ View(c).live /\ ~View(c).summary /\ ~View(c).archived
    <3>1. e = [d |-> Absent, a |-> c.d] /\ c # Gone
      BY <1>3, <1>7, <2>1 DEF Shelves, Effect
    <3> HIDE DEF e, c
    <3>2. View(c) = Shown(c.d, FALSE) /\ View(e) = Shown(c.d, TRUE)
      BY <2>1, <3>1 DEF View
    <3>3. c.d \in Record
      BY <1>1, <1>3, <2>1
    <3>4. Shown(c.d, TRUE) = [Shown(c.d, FALSE) EXCEPT !.archived = TRUE]
      BY <3>3, ShownChanges
    <3>5. /\ Shown(c.d, FALSE).live = c.d.live /\ Shown(c.d, FALSE).summary = c.d.summary
          /\ Shown(c.d, FALSE).archived = FALSE
      BY <3>3, ShownFacts
    <3>6. Shown(c.d, FALSE) # Absent
      BY <1>1, <1>3, <2>1, <3>2
    <3> QED
      BY <2>1, <3>2, <3>4, <3>5, <3>6
  <2> HIDE DEF e, c, i
  <2>3. Mapped' = [Mapped EXCEPT ![i].archived = TRUE]
    BY <1>1, <1>2, <2>2
  <2>4. Store!Shelve(i)
    BY <1>1, <2>2, <2>3 DEF Store!Shelve, Mapped, Known
  <2> QED
    BY <2>4 DEF i
<1>8. CASE Erases(l)
  <2>1. c # Gone /\ e = Gone
    BY <1>1, <1>8 DEF Erases, Effect, Single, Gone
  <2> HIDE DEF e, c, i
  <2>2. Mapped' = [Mapped EXCEPT ![i] = Absent]
    BY <1>1, <1>2, <2>1
  <2>3. Store!Erase(i)
    BY <1>1, <2>1, <2>2 DEF Store!Erase, Mapped, Known
  <2> QED
    BY <2>3 DEF i
<1> QED
  BY <1>4, <1>5, <1>6, <1>7, <1>8 DEF Applies

LEMMA StoreTakes ==
    ASSUME Base, TypeInv', NEW expired \in SUBSET Ids, Takes(expired)
    PROVE  Store!Expire(CompactTaken(expired))
<1> DEFINE S == CompactTaken(expired)
<1> USE BaseFacts
<1>1. /\ Mapped \in [Ids -> Store!Row \cup {Absent}]
      /\ Mapped' \in [Ids -> Store!Row \cup {Absent}]
      /\ \A i \in Ids : /\ At(Known, i) \in Status /\ Single(At(Known, i))
                        /\ Mapped[i] = View(At(Known, i))
                        /\ Mapped'[i] = View(At(Known, i)')
                        /\ Mapped[i] = Absent <=> At(Known, i) = Gone
                        /\ Mapped'[i] = Absent <=> At(Known, i)' = Gone
      /\ Known = Rows /\ S \subseteq Ids
  BY MappedFacts, MappedNext DEF MappedOK, Takes, Base
<1>2. Mapped' = [i \in Ids |-> IF i \in S THEN Absent ELSE Mapped[i]]
  <2>1. \A i \in Ids : Mapped'[i] = IF i \in S THEN Absent ELSE Mapped[i]
    BY <1>1 DEF Takes
  <2> QED
    BY <1>1, <2>1
<1>3. ASSUME NEW i \in S
      PROVE  Mapped[i] # Absent /\ ~Mapped[i].summary /\ (Mapped[i].live => Mapped[i].archived)
  <2>1. i \in Ids /\ At(Known, i) # Gone /\ Expendable(At(Known, i))
    BY DEF Takes
  <2> QED
    BY <1>1, <2>1 DEF Expendable, View, Shown, RowOf, Gone, Status, Slot
<1>4. ASSUME NEW i \in S, NEW j \in Ids, Mapped[j] # Absent, Mapped[j].live, Mapped[j].summary
      PROVE  i \notin Mapped[j].sources
  <2>1. i \notin Referenced
    BY DEF CompactTaken, CompactDocs, CompactArchive
  <2>2. Mapped[j] = IF docs[j] # Absent THEN Shown(docs[j], FALSE)
                    ELSE IF archive[j] # Absent THEN Shown(archive[j], TRUE) ELSE Absent
    BY <1>1 DEF Mapped, Visible, Rows
  <2>3. CASE docs[j] # Absent
    <3>1. j \in LiveIn(docs) /\ docs[j].summary /\ Mapped[j].sources = docs[j].sources
      BY <1>4, <2>2, <2>3 DEF Shown, LiveIn, Held
    <3> QED
      BY <2>1, <3>1 DEF Referenced
  <2>4. CASE docs[j] = Absent
    <3>1. j \in LiveIn(archive) /\ archive[j].summary /\ Mapped[j].sources = archive[j].sources
      BY <1>4, <2>2, <2>4 DEF Shown, LiveIn, Held
    <3> QED
      BY <2>1, <3>1 DEF Referenced
  <2> QED
    BY <2>3, <2>4
<1>5. purged' = purged \cup S
  BY DEF Takes
<1> HIDE DEF S
<1>6. Store!Expire(S)
  BY <1>2, <1>3, <1>4, <1>5 DEF Store!Expire, Store!Expirable, Mapped, Known
<1> QED
  BY <1>6 DEF S

LEMMA StoreReturns ==
    ASSUME Base, TypeInv', Returns
    PROVE  Store!Restart
<1>1. /\ Mapped' \in [Ids -> Store!Row \cup {Absent}]
      /\ \A i \in Ids \ purged : Mapped'[i] = Mapped[i]
      /\ purged' = {}
  BY MappedFacts, MappedNext DEF MappedOK, Returns, Base
<1> QED
  BY <1>1 DEF Store!Restart, Mapped, Known

LEMMA StoreQuiet ==
    ASSUME Base, TypeInv', Quiet
    PROVE  Store!Settle \/ UNCHANGED <<Mapped, purged>>
<1>1. Mapped' = Mapped
  <2>1. \A i \in Ids : Mapped'[i] = Mapped[i]
    BY MappedFacts, MappedNext DEF MappedOK, Quiet, Base
  <2> QED
    BY <2>1, MappedFacts, MappedNext DEF MappedOK, Base
<1> QED
  BY <1>1 DEF Quiet, Store!Settle, Mapped, Known

(* The collection implements the store: wherever the process dies, what a  *)
(* caller sees of a row changes by an operation on it only, and what       *)
(* compact dropped may come back until a checkpoint has settled it.        *)
THEOREM StoreImplemented == ASSUME Sound PROVE Spec => ImplementsStore
<1>1. Init => Store!Init
  <2> SUFFICES ASSUME Init PROVE Store!Init
    OBVIOUS
  <2>1. pc \notin Recovering /\ docs = Empty /\ archive = Empty /\ purged = {}
    BY DEF Init, Recovering
  <2> QED
    BY <2>1 DEF Store!Init, Visible, Rows, Empty
<1>2. ASSUME Base, RecoveryInv, HolderInv, [Next]_vars, TypeInv'
      PROVE  [Store!Next]_<<Visible(IF pc \in Recovering THEN before ELSE Rows), purged>>
  <2>1. CASE \E l \in PlainLine : Applies(l)
    <3>1. PICK l \in PlainLine : Applies(l)
      BY <2>1
    <3>2. l.id \in Ids
      BY LineCases
    <3> QED
      BY <1>2, <3>1, <3>2, StoreLine DEF Store!Next, Mapped, Known
  <2>2. CASE \E expired \in SUBSET Ids : Takes(expired)
    <3>1. PICK expired \in SUBSET Ids : Takes(expired)
      BY <2>2
    <3>2. CompactTaken(expired) \in SUBSET Ids /\ Store!Expire(CompactTaken(expired))
      BY <1>2, <3>1, StoreTakes DEF Takes
    <3> QED
      BY <3>2 DEF Store!Next
  <2>3. CASE Returns
    BY <1>2, <2>3, StoreReturns DEF Store!Next
  <2>4. CASE Quiet
    BY <1>2, <2>4, StoreQuiet DEF Store!Next, Mapped, Known
  <2> QED
    BY <1>2, <2>1, <2>2, <2>3, <2>4, StepStatus
<1>3. Base => TypeInv
  BY DEF Base
<1> QED
  BY <1>1, <1>2, <1>3, RecoveryAlways, HolderAlways, PTL DEF Spec, ImplementsStore, Store!Spec

-----------------------------------------------------------------------------
(* The sources of a live summary stay, unless hard_delete erases them.     *)

Needs(c) == IF c # Gone /\ RowOf(c).live /\ RowOf(c).summary THEN RowOf(c).sources ELSE {}
Kept == \A i \in Ids : \A j \in Needs(At(Known, i)) : At(Known, j) # Gone \/ j \in erased

(* An export lists its rows in any order: a live summary may be imported   *)
(* before its sources, or without them.                                    *)
ImportsNeedNothing ==
    "import_row" \in Ops => \A r \in ImportRows : r.live /\ r.summary => r.sources = {}

LEMMA EffectNeeds ==
    ASSUME NEW c \in Status, Single(c), NEW l \in PlainLine, l.op # "remember"
    PROVE  /\ Needs(Effect(c, l)) \subseteq Needs(c)
           /\ c # Gone /\ l.op # "hard_delete" => Effect(c, l) # Gone
<1> DEFINE e == Effect(c, l)
<1>1. /\ c = Gone <=> c.d = Absent /\ c.a = Absent
      /\ \A r \in Record : Dead(r) # Absent /\ Dead(r).live = FALSE
      /\ c.d # Absent => c.d \in Record
      /\ c.a # Absent => c.a \in Record
  <2>1. \A r \in Record : Dead(r) # Absent /\ Dead(r).live = FALSE
    BY DeadType DEF Dead, Record
  <2> QED
    BY <2>1 DEF Status, Slot, Gone
<1>2. CASE c = Gone
  BY <1>1, <1>2, LineCases DEF Effect, Gone
<1>3. CASE c # Gone /\ l.op = "forget"
  <2>1. e # Gone /\ RowOf(e).live = FALSE
    BY <1>1, <1>3 DEF Effect, RowOf, Gone, Single
  <2> HIDE DEF e
  <2>2. Needs(e) = {}
    BY <2>1 DEF Needs
  <2> QED
    BY <2>1, <2>2 DEF e
<1>4. CASE c # Gone /\ l.op = "archive"
  <2>1. e # Gone /\ RowOf(e) = RowOf(c)
    BY <1>1, <1>4 DEF Effect, RowOf, Gone
  <2> HIDE DEF e
  <2>2. Needs(e) = Needs(c)
    BY <1>4, <2>1 DEF Needs
  <2> QED
    BY <1>4, <2>1, <2>2 DEF e
<1>5. CASE c # Gone /\ l.op = "hard_delete"
  <2>1. e = Gone
    BY <1>1, <1>5 DEF Effect, Single, Gone
  <2> QED
    BY <1>5, <2>1 DEF Needs
<1>6. CASE c # Gone /\ l.op = "touch"
  BY <1>6 DEF Effect
<1> QED
  BY <1>2, <1>3, <1>4, <1>5, <1>6, LineCases

LEMMA EffectRemember ==
    ASSUME NEW l \in PlainLine, l.op = "remember"
    PROVE  /\ Effect(Gone, l) # Gone /\ RowOf(Effect(Gone, l)) = Plain(l.row)
           /\ ~l.archived => Effect(Gone, l).d = Plain(l.row)
           /\ l.archived => Effect(Gone, l).d = Absent
           /\ Plain(l.row) \in Record /\ l.row \in Record
           /\ Plain(l.row).live = l.row.live /\ Plain(l.row).summary = l.row.summary
           /\ Plain(l.row).sources = l.row.sources /\ Plain(l.row).subject = l.row.subject
<1>1. l.row \in Record /\ Plain(l.row) # Absent /\ l.archived \in BOOLEAN /\ Plain(l.row) \in Record
  BY LineCases, PlainOf
<1>2. Plain(l.row) = [l.row EXCEPT !.hits = 0]
  BY <1>1, Bounds DEF Plain
<1>3. /\ Plain(l.row).live = l.row.live /\ Plain(l.row).summary = l.row.summary
      /\ Plain(l.row).sources = l.row.sources /\ Plain(l.row).subject = l.row.subject
  BY <1>1, <1>2 DEF Record
<1> QED
  BY <1>1, <1>3 DEF Effect, RowOf, Gone

LEMMA KeptLine ==
    ASSUME Base, HolderInv, ImportsNeedNothing, Kept, NEW l \in PlainLine, Applies(l)
    PROVE  Kept'
<1>1. \A i \in Ids : /\ At(Known, i) \in Status /\ Single(At(Known, i))
                     /\ At(Known, i)' = Moved(At(Known, i), l, i)
  BY MappedFacts DEF MappedOK, Applies, Base
<1>2. l.id \in Ids /\ erased \subseteq erased'
  BY LineCases DEF Applies, Remembers, Closes, Touches, Shelves, Erases
<1>3. ASSUME NEW j \in Ids, At(Known, j) # Gone PROVE At(Known, j)' # Gone \/ j \in erased'
  <2>1. CASE l.id # j
    BY <1>1, <1>3, <2>1 DEF Moved
  <2>2. CASE l.id = j /\ l.op \notin {"remember", "hard_delete"}
    BY <1>1, <1>3, <2>2, EffectNeeds DEF Moved
  <2>3. CASE l.id = j /\ l.op = "remember"
    BY <1>3, <2>3 DEF Applies, Remembers, Closes, Touches, Shelves, Erases
  <2>4. CASE l.id = j /\ l.op = "hard_delete"
    BY <2>4 DEF Applies, Remembers, Closes, Touches, Shelves, Erases
  <2> QED
    BY <2>1, <2>2, <2>3, <2>4
<1>4. ASSUME NEW i \in Ids, NEW j \in Needs(At(Known, i)')
      PROVE  j \in Ids /\ (At(Known, j) # Gone \/ j \in erased)
  <2>0. \A c \in Status : Needs(c) \subseteq Ids
    BY DEF Needs, RowOf, Status, Slot, Gone, Record
  <2>1. CASE l.id # i
    BY <1>1, <1>4, <2>0, <2>1 DEF Moved, Kept
  <2>2. CASE l.id = i /\ l.op # "remember"
    <3>1. j \in Needs(At(Known, i))
      BY <1>1, <1>4, <2>2, EffectNeeds DEF Moved
    <3> QED
      BY <1>1, <2>0, <3>1 DEF Kept
  <2>3. CASE l.id = i /\ l.op = "remember"
    <3>1. Remembers(l) /\ At(Known, i)' = Effect(Gone, l)
      BY <1>1, <2>3 DEF Applies, Remembers, Closes, Touches, Shelves, Erases, Moved
    <3>2. j \in l.row.sources /\ l.row.live /\ l.row.summary
      BY <1>4, <2>3, <3>1, EffectRemember DEF Needs
    <3>3. pc = "archiving" /\ l.row = pending
      BY <3>1, <3>2 DEF Remembers, ImportsNeedNothing, HolderInv, Supersedes
    <3>4. j \in Held(docs) \cup Held(archive) /\ Known = Rows
      BY <3>2, <3>3 DEF HolderInv, Archives, Known, Recovering
    <3>5. j \in Ids
      BY <3>4 DEF Held
    <3> QED
      BY <3>4, <3>5, HeldStatus, BaseFacts
  <2> QED
    BY <2>1, <2>2, <2>3
<1> QED
  BY <1>2, <1>3, <1>4 DEF Kept

LEMMA KeptTakes ==
    ASSUME Base, Kept, NEW expired \in SUBSET Ids, Takes(expired)
    PROVE  Kept'
<1> DEFINE S == CompactTaken(expired)
<1> USE BaseFacts
<1>1. \A i \in Ids : At(Known, i) \in Status /\ Single(At(Known, i)) /\ Known = Rows
  BY MappedFacts DEF MappedOK, Takes, Base
<1>2. ASSUME NEW i \in Ids, NEW j \in Needs(At(Known, i)')
      PROVE  j \in Needs(At(Known, i)) /\ j \notin S
  <2>1. i \notin S /\ At(Known, i)' = At(Known, i)
    BY <1>2 DEF Takes, Needs
  <2>2. j \in Referenced
    <3> DEFINE c == At(Known, i)
    <3>1. c # Gone /\ RowOf(c).live /\ RowOf(c).summary /\ j \in RowOf(c).sources
      BY <1>2, <2>1 DEF Needs
    <3>2. CASE docs[i] # Absent
      <4>1. /\ RowOf(c) = Plain(docs[i]) /\ docs[i] \in Record
            /\ Plain(docs[i]) = [docs[i] EXCEPT !.hits = 0]
        BY <1>1, <3>2, RowsStatus, Bounds DEF RowOf, Maps, Map, Plain
      <4>2. i \in LiveIn(docs) /\ docs[i].summary /\ j \in docs[i].sources
        BY <3>1, <3>2, <4>1 DEF LiveIn, Held, Record
      <4> QED
        BY <4>2 DEF Referenced
    <3>3. CASE docs[i] = Absent
      <4>1. RowOf(c) = Plain(archive[i]) /\ archive[i] # Absent
        BY <1>1, <3>1, <3>3, RowsStatus DEF RowOf, Gone, Status
      <4>2. archive[i] \in Record /\ Plain(archive[i]) = [archive[i] EXCEPT !.hits = 0]
        BY <4>1, Bounds DEF Maps, Map, Plain
      <4>3. i \in LiveIn(archive) /\ archive[i].summary /\ j \in archive[i].sources
        BY <3>1, <4>1, <4>2 DEF LiveIn, Held, Record
      <4> QED
        BY <4>3 DEF Referenced
    <3> QED
      BY <3>2, <3>3
  <2> QED
    BY <1>2, <2>1, <2>2 DEF CompactTaken, CompactDocs, CompactArchive
<1>3. \A c \in Status : Needs(c) \subseteq Ids
  BY DEF Needs, RowOf, Status, Slot, Gone, Record
<1> QED
  BY <1>1, <1>2, <1>3 DEF Kept, Takes

LEMMA KeptReturns ==
    ASSUME Base, Kept, Returns
    PROVE  Kept'
<1>0. \A c \in Status : Needs(c) \subseteq Ids
  BY DEF Needs, RowOf, Status, Slot, Gone, Record
<1>1. ASSUME NEW j \in Ids, At(Known, j) # Gone PROVE At(Known, j)' # Gone
  BY <1>1 DEF Returns
<1>2. ASSUME NEW i \in Ids, NEW j \in Needs(At(Known, i)') PROVE j \in Needs(At(Known, i))
  BY <1>2 DEF Returns, Expendable, Needs
<1>3. \A i \in Ids : At(Known, i) \in Status
  BY MappedFacts DEF MappedOK, Base
<1> QED
  BY <1>0, <1>1, <1>2, <1>3 DEF Kept, Returns

LEMMA KeptAlways == ASSUME Sound, ImportsNeedNothing PROVE Spec => []Kept
<1>1. Init => Kept
  BY DEF Init, Kept, Needs, Known, Rows, At, Gone, Plain, Empty, Recovering
<1>2. ASSUME Base, RecoveryInv, HolderInv, Kept, [Next]_vars PROVE Kept'
  <2>1. CASE Quiet
    <3>1. \A i \in Ids : Needs(At(Known, i)) \subseteq Ids
      BY <1>2, MappedFacts DEF MappedOK, Base, Needs, RowOf, Status, Slot, Gone, Record
    <3> QED
      BY <1>2, <2>1, <3>1 DEF Quiet, Kept
  <2> QED
    BY <1>2, <2>1, StepStatus, KeptLine, KeptTakes, KeptReturns
<1> QED
  BY <1>1, <1>2, RecoveryAlways, HolderAlways, PTL DEF Spec

(* A live summary can be expanded: compact never takes one of its sources, *)
(* also when a death brings back some of what it took.                     *)
THEOREM SourcesAlwaysKept ==
    ASSUME Sound, ImportsNeedNothing PROVE Spec => []SourcesKept
<1>1. ASSUME Base, RecoveryInv, Kept PROVE SourcesKept
  <2> SUFFICES ASSUME pc \in Running, NEW i \in Ids, NEW m \in {docs, archive},
                      m[i] # Absent, m[i].live, m[i].summary, NEW j \in m[i].sources
               PROVE  j \in Held(docs) \cup Held(archive) \cup erased
    BY DEF SourcesKept
  <2> USE <1>1, BaseFacts
  <2>1. Known = Rows /\ Single(At(Rows, i))
    BY RunningKnown
  <2>2. m[i] \in Record /\ Plain(m[i]) = [m[i] EXCEPT !.hits = 0] /\ Plain(m[i]) # Absent
    <3>1. m[i] \in Record
      BY DEF Maps, Map
    <3> QED
      BY <3>1, PlainOf, Bounds DEF Plain
  <2>3. RowOf(At(Rows, i)) = Plain(m[i]) /\ At(Rows, i) # Gone
    BY <2>1, <2>2, RowsStatus DEF RowOf, Single, Gone
  <2>4. j \in Needs(At(Known, i)) /\ j \in Ids
    BY <2>1, <2>2, <2>3 DEF Needs, Record
  <2> QED
    BY <2>1, <2>4, HeldStatus DEF Kept
<1> QED
  BY <1>1, RecoveryAlways, KeptAlways, PTL

-----------------------------------------------------------------------------
(* At most one live version of a subject: in docs, or (wide) in the two    *)
(* maps. Compact may take a live archived version, so that the next one    *)
(* does not close it, and a death brings it back: wide needs its absence.  *)

LiveAs(r, s)        == r # Absent /\ r.live /\ r.subject = s
Version(c, s, wide) == LiveAs(c.d, s) \/ (wide /\ LiveAs(c.a, s))
OneVersion(wide) ==
    /\ wide => purged = {}
    /\ \A s \in Subjects : \A i, j \in Ids :
          Version(At(Known, i), s, wide) /\ Version(At(Known, j), s, wide) => i = j

(* An imported live row closes no other version of its subject.            *)
NoLiveImports ==
    "import_row" \in Ops => \A r \in ImportRows : r.live => r.subject = NoSubject

LEMMA EffectVersion ==
    ASSUME NEW c \in Status, NEW l \in PlainLine, l.op # "remember",
           NEW s, NEW wide \in BOOLEAN, Version(Effect(c, l), s, wide)
    PROVE  Version(c, s, wide)
<1>1. \A r \in Record : Dead(r).live = FALSE
  BY DEF Dead, Record
<1>2. /\ c.d # Absent => c.d \in Record
      /\ c.a # Absent => c.a \in Record
  BY DEF Status, Slot
<1>3. CASE l.op = "archive"
  BY <1>1, <1>2, <1>3 DEF Effect, Version, LiveAs, Gone
<1>4. CASE l.op = "forget"
  BY <1>1, <1>2, <1>4 DEF Effect, Version, LiveAs, Gone
<1>5. CASE l.op \in {"hard_delete", "touch"}
  BY <1>1, <1>2, <1>5 DEF Effect, Version, LiveAs, Gone
<1> QED
  BY <1>3, <1>4, <1>5, LineCases

LEMMA RowsVersion ==
    ASSUME Maps, NEW i \in Ids, NEW s
    PROVE  /\ LiveAs(At(Rows, i).d, s) <=> i \in LiveIn(docs) /\ docs[i].subject = s
           /\ LiveAs(At(Rows, i).a, s) <=> i \in LiveIn(archive) /\ archive[i].subject = s
<1>1. ASSUME NEW r \in Slot
      PROVE  LiveAs(Plain(r), s) <=> r # Absent /\ r.live /\ r.subject = s
  <2>1. CASE r = Absent
    BY <2>1 DEF Plain, LiveAs
  <2>2. CASE r # Absent
    <3>1. r \in Record /\ Plain(r) = [r EXCEPT !.hits = 0] /\ Plain(r) # Absent
      BY <2>2, PlainType DEF Plain, Slot
    <3> QED
      BY <2>2, <3>1 DEF LiveAs, Record
  <2> QED
    BY <2>1, <2>2
<1>2. docs[i] \in Slot /\ archive[i] \in Slot
  BY DEF Maps, Map, Slot
<1> QED
  BY <1>1, <1>2, RowsStatus DEF LiveIn, Held

LEMMA VersionLine ==
    ASSUME Base, IndexInv, HolderInv, NoLiveImports, NEW wide \in BOOLEAN, OneVersion(wide),
           NEW l \in PlainLine, Applies(l)
    PROVE  OneVersion(wide)'
<1>1. \A i \in Ids : /\ At(Known, i) \in Status
                     /\ At(Known, i)' = Moved(At(Known, i), l, i)
  BY MappedFacts DEF MappedOK, Applies, Base
<1>2. l.id \in Ids /\ purged' = purged
  BY LineCases DEF Applies
<1>3. CASE l.op # "remember"
  <2>1. \A i \in Ids, s \in Subjects :
           Version(At(Known, i)', s, wide) => Version(At(Known, i), s, wide)
    BY <1>1, <1>3, EffectVersion DEF Moved
  <2> QED
    BY <1>2, <2>1 DEF OneVersion
<1>4. CASE l.op = "remember"
  <2>1. Remembers(l) /\ At(Known, l.id)' = Effect(Gone, l)
    BY <1>1, <1>2, <1>4 DEF Applies, Remembers, Closes, Touches, Shelves, Erases, Moved
  <2>2. \A i \in Ids \ {l.id} : At(Known, i)' = At(Known, i)
    BY <1>1 DEF Moved
  <2>3. ASSUME NEW s \in Subjects, Version(Effect(Gone, l), s, wide),
               NEW j \in Ids, Version(At(Known, j), s, wide)
        PROVE  FALSE
    <3>1. l.row.live /\ l.row.subject = s /\ s # NoSubject
      BY <1>4, <2>3, EffectRemember, LineCases, ConstantsAssumption
         DEF Version, LiveAs, RowOf, Effect, Gone
    <3>2. l.row = pending /\ pc = "supersede" /\ todo = {}
      BY <2>1, <3>1 DEF Remembers, NoLiveImports, IndexInv
    <3>3. Known = Rows
      BY <3>2 DEF Known, Recovering
    <3>4. \/ j \in LiveIn(docs) /\ docs[j].subject = s
          \/ j \in LiveIn(archive) /\ archive[j].subject = s
      BY <2>3, <3>3, RowsVersion, BaseFacts DEF Version
    <3> QED
      BY <3>1, <3>2, <3>4 DEF HolderInv, Supersedes
  <2> QED
    BY <1>2, <2>1, <2>2, <2>3 DEF OneVersion
<1> QED
  BY <1>3, <1>4

LEMMA VersionTakes ==
    ASSUME Base, NEW wide \in BOOLEAN, wide => "compact" \notin Ops, OneVersion(wide),
           NEW expired \in SUBSET Ids, Takes(expired)
    PROVE  OneVersion(wide)'
<1>1. ~wide
  BY DEF Takes, Compact, Enter
<1>2. \A s : ~Version(Gone, s, wide)
  BY DEF Version, LiveAs, Gone
<1>3. \A i \in Ids : At(Known, i)' \in {At(Known, i), Gone}
  BY DEF Takes
<1> QED
  BY <1>1, <1>2, <1>3 DEF OneVersion

LEMMA VersionReturns ==
    ASSUME Base, NEW wide \in BOOLEAN, OneVersion(wide), Returns
    PROVE  OneVersion(wide)'
<1>1. ASSUME NEW i \in Ids, NEW s, Version(At(Known, i)', s, wide)
      PROVE  Version(At(Known, i), s, wide)
  <2>1. CASE i \notin purged
    BY <1>1, <2>1 DEF Returns
  <2>2. CASE i \in purged
    <3>1. ~wide /\ Expendable(At(Known, i)')
      BY <2>2 DEF OneVersion, Returns
    <3> QED
      BY <1>1, <3>1 DEF Expendable, Version, LiveAs, Gone
  <2> QED
    BY <2>1, <2>2
<1> QED
  BY <1>1 DEF OneVersion, Returns

LEMMA NextVersion ==
    ASSUME Base, RecoveryInv, IndexInv, HolderInv, NoLiveImports, NEW wide \in BOOLEAN,
           wide => "compact" \notin Ops, OneVersion(wide), [Next]_vars
    PROVE  OneVersion(wide)'
<1>1. CASE Quiet
  BY <1>1 DEF Quiet, OneVersion
<1> QED
  BY <1>1, StepStatus, VersionLine, VersionTakes, VersionReturns

LEMMA InitVersion == ASSUME Init, NEW wide \in BOOLEAN PROVE OneVersion(wide)
BY DEF Init, OneVersion, Version, LiveAs, Known, Rows, At, Plain, Empty, Recovering

LEMMA AtMostOne ==
    ASSUME NEW S, S \subseteq Ids, \A i, j \in S : i = j
    PROVE  Cardinality(S) <= 1
<1>1. CASE S = {}
  BY <1>1, FS_EmptySet
<1>2. CASE S # {}
  <2>1. PICK i \in S : S = {i}
    BY <1>2
  <2> QED
    BY <2>1, FS_Singleton
<1> QED
  BY <1>1, <1>2

(* A recall sees at most one version of a subject, also after recovery has *)
(* brought back what compact took: no live row of docs comes back.         *)
THEOREM OneVersionAlwaysRecalled ==
    ASSUME Sound, NoLiveImports PROVE Spec => []OneVersionRecalled
<1>1. ASSUME Base, RecoveryInv, OneVersion(FALSE) PROVE OneVersionRecalled
  <2> SUFFICES ASSUME pc \in Running, NEW s \in Subjects
               PROVE  Cardinality({i \in LiveIn(docs) : docs[i].subject = s}) <= 1
    BY DEF OneVersionRecalled
  <2> DEFINE S == {i \in LiveIn(docs) : docs[i].subject = s}
  <2>1. S \subseteq Ids
    BY DEF LiveIn, Held
  <2>2. \A i \in S : Version(At(Known, i), s, FALSE)
    BY <1>1, <2>1, RunningKnown, RowsVersion, BaseFacts DEF Version
  <2>3. \A i, j \in S : i = j
    BY <1>1, <2>1, <2>2 DEF OneVersion
  <2> HIDE DEF S
  <2>4. Cardinality(S) <= 1
    BY <2>1, <2>3, AtMostOne
  <2> QED
    BY <2>4 DEF S
<1>2. Init => OneVersion(FALSE)
  BY InitVersion
<1>3. Base /\ RecoveryInv /\ IndexInv /\ HolderInv /\ OneVersion(FALSE) /\ [Next]_vars
      => OneVersion(FALSE)'
  BY NextVersion
<1> QED
  BY <1>1, <1>2, <1>3, RecoveryAlways, IndexAlways, HolderAlways, PTL DEF Spec

(* A subject has at most one live version, in docs or in the archive:      *)
(* remember has closed the others, wherever the process died, provided     *)
(* that compact takes none of them out of the log's sight.                 *)
THEOREM OneAlwaysLive ==
    ASSUME Sound, NoLiveImports, "compact" \notin Ops PROVE Spec => []OneLiveVersion
<1>1. ASSUME Base, RecoveryInv, OneVersion(TRUE) PROVE OneLiveVersion
  <2> SUFFICES ASSUME pc \in Running, NEW s \in Subjects
               PROVE  Cardinality({i \in LiveIn(docs) : docs[i].subject = s}
                             \cup {i \in LiveIn(archive) : archive[i].subject = s}) <= 1
    BY DEF OneLiveVersion
  <2> DEFINE S == {i \in LiveIn(docs) : docs[i].subject = s}
                   \cup {i \in LiveIn(archive) : archive[i].subject = s}
  <2>1. S \subseteq Ids
    BY DEF LiveIn, Held
  <2>2. \A i \in S : Version(At(Known, i), s, TRUE)
    BY <1>1, <2>1, RunningKnown, RowsVersion, BaseFacts DEF Version
  <2>3. \A i, j \in S : i = j
    BY <1>1, <2>1, <2>2 DEF OneVersion
  <2> HIDE DEF S
  <2>4. Cardinality(S) <= 1
    BY <2>1, <2>3, AtMostOne
  <2> QED
    BY <2>4 DEF S
<1>2. Init => OneVersion(TRUE)
  BY InitVersion
<1>3. Base /\ RecoveryInv /\ IndexInv /\ HolderInv /\ OneVersion(TRUE) /\ [Next]_vars
      => OneVersion(TRUE)'
  BY NextVersion
<1> QED
  BY <1>1, <1>2, <1>3, RecoveryAlways, IndexAlways, HolderAlways, PTL DEF Spec

-----------------------------------------------------------------------------
(* What is in the archive has a summary in docs, once the group it belongs *)
(* to is done. While the group is under way, its summary is pending.       *)

Covers(c, i) == c.d # Absent /\ c.d.summary /\ i \in c.d.sources
Summarised ==
    /\ purged = {}
    /\ \A i \in Ids : At(Known, i).a # Absent
                        => \/ \E j \in Ids : Covers(At(Known, j), i)
                           \/ pc = "archiving" /\ i \in pending.sources

(* Callers neither erase nor import nor drop rows, and no death falls      *)
(* inside a group.                                                         *)
Undisturbed ==
    /\ Ops \cap {"hard_delete", "import_row", "compact"} = {}
    /\ "archiving" \notin CrashAt

LEMMA ArchivingSteps ==
    ASSUME pc = "archiving", "archiving" \notin CrashAt, [Next]_vars
    PROVE  CommitSummary \/ (pc' = "archiving" /\ pending' = pending)
<1>1. CASE Call
  BY <1>1 DEF Call, BeginRemember, BeginRecall, Forget, HardDelete, BeginForgetSubject, BeginGroup,
              ImportRow, Compact, BeginCheckpoint, BeginCheckpointKeepWal, Enter
<1>2. CASE Step
  BY <1>2 DEF Step, CloseVersion, Touch, ArchiveMember, CommitRemember, EndForgetSubject,
              EndConsolidate, RenameWal, WriteManifest, CleanupSegments, ResetWal
<1>3. CASE Open
  BY <1>3 DEF Open, LoadSnapshot, ReplayLine, NextLog, FinishReplay, FinishOpen
<1>4. CASE Die
  BY <1>4 DEF Die, Place
<1>5. CASE NoEffect \/ UNCHANGED vars
  BY <1>5 DEF NoEffect, vars, holder
<1> QED
  BY <1>1, <1>2, <1>3, <1>4, <1>5 DEF Next

LEMMA EffectCovers ==
    ASSUME NEW c \in Status, NEW l \in PlainLine, l.op \in {"forget", "touch"}
    PROVE  /\ Effect(c, l).a # Absent => c.a # Absent
           /\ \A i : Covers(c, i) => Covers(Effect(c, l), i)
<1>1. \A r \in Record : /\ Dead(r) # Absent /\ Dead(r).summary = r.summary
                        /\ Dead(r).sources = r.sources
  BY DeadType DEF Dead, Record
<1>2. c.d # Absent => c.d \in Record
  BY DEF Status, Slot
<1> QED
  BY <1>1, <1>2 DEF Effect, Covers

LEMMA SummarisedLine ==
    ASSUME Base, HolderInv, Undisturbed, Summarised, NEW l \in PlainLine, Applies(l),
           pc = "archiving" => pc' = "archiving" /\ pending' = pending
    PROVE  Summarised'
<1>1. \A i \in Ids : /\ At(Known, i) \in Status /\ Single(At(Known, i))
                     /\ At(Known, i)' = Moved(At(Known, i), l, i)
  BY MappedFacts DEF MappedOK, Applies, Base
<1>2. l.id \in Ids /\ purged' = {}
  BY LineCases DEF Applies, Summarised
<1>3. \A i \in Ids \ {l.id} : At(Known, i)' = At(Known, i)
  BY <1>1 DEF Moved
<1>4. At(Known, l.id)' = Effect(At(Known, l.id), l)
  BY <1>1, <1>2 DEF Moved
<1>5. CASE l.op \in {"forget", "touch"}
  <2>1. \A j \in Ids : /\ At(Known, j)'.a # Absent => At(Known, j).a # Absent
                       /\ \A i : Covers(At(Known, j), i) => Covers(At(Known, j)', i)
    BY <1>1, <1>5, EffectCovers DEF Moved
  <2> QED
    BY <1>2, <2>1 DEF Summarised
<1>6. CASE l.op = "remember"
  <2>1. At(Known, l.id) = Gone /\ ~l.archived
    BY <1>6 DEF Applies, Remembers, Closes, Touches, Shelves, Erases, Undisturbed
  <2>2. At(Known, l.id)'.a = Absent /\ \A i : ~Covers(At(Known, l.id), i)
    BY <1>4, <1>6, <2>1 DEF Effect, Gone, Covers
  <2> QED
    BY <1>2, <1>3, <2>2 DEF Summarised
<1>7. CASE l.op = "archive"
  <2>1. Shelves(l)
    BY <1>7 DEF Applies, Remembers, Closes, Touches, Shelves, Erases
  <2>2. /\ pc = "archiving" /\ l.id \in todo /\ Known = Rows
        /\ docs[l.id] \in Record /\ ~docs[l.id].summary /\ l.id \in pending.sources
    BY <2>1, BaseFacts DEF Shelves, Known, Recovering, HolderInv, Archives, LiveIn, Held, Maps, Map
  <2>3. \A i : ~Covers(At(Known, l.id), i)
    <3>1. /\ At(Known, l.id).d = Plain(docs[l.id])
          /\ Plain(docs[l.id]) = [docs[l.id] EXCEPT !.hits = 0]
      BY <1>2, <2>2, RowsStatus, BaseFacts, Bounds DEF Plain
    <3> QED
      BY <2>2, <3>1 DEF Covers, Record
  <2> QED
    BY <1>2, <1>3, <2>2, <2>3 DEF Summarised
<1>8. CASE l.op = "hard_delete"
  BY <1>8 DEF Applies, Remembers, Closes, Touches, Shelves, Erases, Undisturbed
<1> QED
  BY <1>5, <1>6, <1>7, <1>8, LineCases

LEMMA SummarisedCommit ==
    ASSUME Base, RecoveryInv, HolderInv, Summarised, CommitSummary
    PROVE  Summarised'
<1>n. PICK n \in Ids \ issued : n = next_id - 1
  BY CommitSummaryDoes
<1> DEFINE l == RememberLine(n, pending, FALSE)
<1>1. Does(l) /\ l \in PlainLine
  BY <1>n, CommitSummaryDoes
<1>2. /\ pc = "archiving" /\ pc' = "grouping" /\ purged' = purged
      /\ Known = Rows /\ Known' = Rows'
  BY DEF CommitSummary, Known, Rows, Recovering
<1>3. l.op = "remember" /\ l.id = n /\ l.row = pending /\ l.archived = FALSE
  BY DEF RememberLine
<1> HIDE DEF l
<1>4. At(Known, n) = Gone
  BY <1>1 DEF RecoveryInv, UnissuedGone
<1>5. At(Known, n)' = Effect(Gone, l) /\ \A i \in Ids \ {n} : At(Known, i)' = At(Known, i)
  BY <1>1, <1>2, <1>3, <1>4 DEF Does, Moved
<1>6. /\ At(Known, n)'.d = Plain(pending) /\ At(Known, n)'.a = Absent
      /\ Plain(pending) \in Record /\ Plain(pending) # Absent
      /\ Plain(pending).summary = pending.summary /\ Plain(pending).sources = pending.sources
  <2>1. Plain(pending) # Absent
    BY <1>1, <1>3, LineCases, PlainOf
  <2>2. Effect(Gone, l).a = Absent
    BY <1>3 DEF Effect, Gone
  <2> QED
    BY <1>1, <1>3, <1>5, <2>1, <2>2, EffectRemember
<1>7. \A i \in pending.sources : Covers(At(Known, n)', i)
  BY <1>2, <1>6 DEF HolderInv, Archives, Covers
<1>8. \A i : ~Covers(At(Known, n), i)
  BY <1>4 DEF Covers, Gone
<1> QED
  BY <1>1, <1>2, <1>5, <1>6, <1>7, <1>8 DEF Summarised

LEMMA NextSummarised ==
    ASSUME Base, RecoveryInv, HolderInv, Undisturbed, Summarised, [Next]_vars
    PROVE  Summarised'
<1>1. CASE CommitSummary
  BY <1>1, SummarisedCommit
<1>2. CASE ~CommitSummary
  <2>1. pc = "archiving" => pc' = "archiving" /\ pending' = pending
    BY <1>2, ArchivingSteps DEF Undisturbed
  <2>2. CASE Quiet \/ Returns
    <3>1. \A i \in Ids : At(Known, i)' = At(Known, i)
      BY <2>2 DEF Quiet, Returns, Summarised
    <3> QED
      BY <2>1, <2>2, <3>1 DEF Quiet, Returns, Summarised
  <2>3. CASE \E expired \in SUBSET Ids : Takes(expired)
    BY <2>3 DEF Takes, Compact, Enter, Undisturbed
  <2> QED
    BY <2>1, <2>2, <2>3, StepStatus, SummarisedLine
<1> QED
  BY <1>1, <1>2

(* What consolidate put out of the sight of recall is a source of a        *)
(* summary that recall sees, once the group is done, also after deaths     *)
(* that fall outside of a group.                                           *)
THEOREM ArchivedAlwaysSummarised ==
    ASSUME Sound, Undisturbed PROVE Spec => []ArchivedHasSummary
<1>1. Init => Summarised
  BY DEF Init, Summarised, Known, Rows, At, Plain, Empty, Recovering
<1>2. Base /\ RecoveryInv /\ HolderInv /\ Summarised /\ [Next]_vars => Summarised'
  BY NextSummarised
<1>3. ASSUME Base, RecoveryInv, Summarised PROVE ArchivedHasSummary
  <2> SUFFICES ASSUME pc = "idle", NEW i \in Held(archive)
               PROVE  \E j \in Held(docs) : docs[j].summary /\ i \in docs[j].sources
    BY DEF ArchivedHasSummary
  <2> USE <1>3, BaseFacts
  <2>1. i \in Ids /\ archive[i] # Absent /\ Known = Rows
    BY DEF Held, Known, Recovering
  <2>2. PICK j \in Ids : Covers(At(Rows, j), i)
    BY <2>1, RowsStatus DEF Summarised
  <2>3. docs[j] # Absent /\ At(Rows, j).d = Plain(docs[j])
    BY <2>2, RowsStatus DEF Covers
  <2>4. docs[j] \in Record /\ Plain(docs[j]) = [docs[j] EXCEPT !.hits = 0]
    BY <2>3, Bounds DEF Maps, Map, Plain
  <2> QED
    BY <2>2, <2>3, <2>4 DEF Covers, Record, Held
<1> QED
  BY <1>1, <1>2, <1>3, RecoveryAlways, HolderAlways, PTL DEF Spec

=============================================================================
