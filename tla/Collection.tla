----------------------------- MODULE Collection -----------------------------
(***************************************************************************)
(* One collection of EngramDB: the memory that a Mutex guards, the files   *)
(* that make it durable, the operations that change both, the death of the *)
(* process at any point, and the recovery that Collection::open performs.  *)
(*                                                                         *)
(* An operation that appends several lines to the WAL, and a checkpoint,   *)
(* hold the lock over several steps: `pc` says how far the lock holder is. *)
(* One step appends one line or performs one file operation, so that the   *)
(* process may die between any two of them.                                *)
(*                                                                         *)
(* Abstracted: text, tags, sketches and times (a record is live or dead;   *)
(* which cold or expired records a maintenance call picks is any choice).  *)
(* A record lives under its id, so `id` is not a field of it.              *)
(***************************************************************************)
EXTENDS Naturals, Sequences, FiniteSets

CONSTANTS
    Subjects,     \* the subjects callers use
    NoSubject,    \* a record without a subject
    Absent,       \* no record under an id, no file under a name
    MinCluster,   \* ConsolidateCfg::min_cluster; the setter makes it 2 or more
    Tags,         \* may a caller tag a memory "summary"? the choices
    ImportRows,   \* the rows an export file may hold
    Ops,          \* the operations callers use, a subset of AllOps
    CrashAt,      \* the places at which the process may die
    TornWrites,   \* may a death leave half of a line at the end of the WAL?
    MaxId,        \* bound: no record gets an id above MaxId
    MaxHits,      \* bound: hits saturates at MaxHits
    MaxLog,       \* bound: no operation starts when the WAL has MaxLog lines
    MaxSeg,       \* bound: the highest seg_seq a checkpoint may use
    MaxDue        \* bound: maintenance calls that wait for their checkpoint

AllOps == {"remember", "recall", "forget", "forget_subject", "hard_delete",
           "import_row", "consolidate", "compact",
           "checkpoint", "checkpoint_keep_wal"}

Ids == 1 .. MaxId
SegNos == 1 .. MaxSeg

(* types::Record, without what the properties do not tell apart.           *)
Record == [subject : Subjects \cup {NoSubject},
           live    : BOOLEAN,            \* valid_to.is_none()
           hits    : 0 .. MaxHits,
           summary : BOOLEAN,            \* tagged "summary"
           sources : SUBSET Ids]         \* source_ids

Map   == [Ids -> Record \cup {Absent}]
Empty == [i \in Ids |-> Absent]

(* wal::WalOp, and the line a write cut short leaves behind.               *)
Torn == [op |-> "torn"]
Line == [op : {"remember"}, id : Ids, row : Record, archived : BOOLEAN]
          \cup [op : {"forget", "touch", "hard_delete", "archive"}, id : Ids]
          \cup {Torn}

(* A segment holds the rows of both maps; archived tells them apart.       *)
Snapshot == [docs : Map, archive : Map]
Manifest == [next_id : 0 .. MaxId + 1,
             snapshot : 0 .. MaxSeg,     \* 0: no segment listed
             wal_archives : Seq(SegNos)]

Running    == {"idle", "supersede", "forgetting", "touching", "grouping",
               "archiving", "rename_wal", "write_manifest", "cleanup", "reset_wal"}
Recovering == {"down", "replay", "replayed"}
Places     == Running \cup Recovering \cup {"renamed"}

ASSUME ConstantsAssumption ==
    /\ MaxId \in Nat \ {0} /\ MaxHits \in Nat \ {0} /\ MaxLog \in Nat
    /\ MaxSeg \in Nat /\ MaxDue \in Nat
    /\ MinCluster \in Nat
    /\ Tags \subseteq BOOLEAN /\ ImportRows \subseteq Record
    /\ Ops \subseteq AllOps /\ CrashAt \subseteq Places
    /\ TornWrites \in BOOLEAN
    /\ NoSubject \notin Subjects
    /\ Absent \notin Record /\ Absent \notin Snapshot /\ Absent \notin Seq(Line)

VARIABLES
    docs,      \* Inner.docs: what recall sees
    archive,   \* Inner.archive
    subjects,  \* Inner.subjects; the order of the ids is not kept
    next_id,   \* Inner.next_id; max_id + 1 while open() runs
    seg_seq,   \* Inner.seg_seq
    pc,        \* how far the holder of the lock, or open(), is
    todo,      \* ids the holder of the lock has still to handle
    pending,   \* the record the holder of the lock will remember, or Absent
    keep,      \* is the running checkpoint checkpoint_keep_wal?
    due,       \* calls of consolidate and compact that still have to checkpoint
    file, pos, \* open(): which log it replays, how many lines it has read
    wal,       \* wal.jsonl (a missing file reads as an empty one)
    archives,  \* the archived WAL files, by the seg_seq in their name
    segs,      \* the segment files
    manifest,  \* manifest.json
    \* history variables: no action reads them
    issued,    \* ids whose Remember line was written
    erased,    \* ids whose HardDelete line was written
    purged,    \* ids compact took from memory and the log still remembers
    before     \* the maps at the death that open() recovers from, or Absent

memory == <<docs, archive, subjects, next_id, seg_seq>>
holder == <<pc, todo, pending, keep>>
replay == <<file, pos>>
files  == <<archives, segs, manifest>>
ghosts == <<issued, erased, purged, before>>
vars   == <<memory, holder, due, replay, wal, files, ghosts>>

-----------------------------------------------------------------------------
(* Helpers.                                                                *)

Held(m)     == {i \in Ids : m[i] # Absent}
LiveIn(m)   == {i \in Held(m) : m[i].live}
Closed(m,i) == [m EXCEPT ![i].live = FALSE]
Hit(m,i)    == [m EXCEPT ![i].hits = IF @ < MaxHits THEN @ + 1 ELSE @]
SumOf(a,b)  == a + b        \* mutant of Larger
Larger(a,b) == IF a >= b THEN a ELSE b

LineWithoutFlag(i, r, a) ==     \* mutant: the archived flag is lost
    [op |-> "remember", id |-> i, row |-> r, archived |-> FALSE]
RememberLine(i, r, a) == [op |-> "remember", id |-> i, row |-> r, archived |-> a]
ForgetLine(i)     == [op |-> "forget", id |-> i]
TouchLine(i)      == [op |-> "touch", id |-> i]
HardDeleteLine(i) == [op |-> "hard_delete", id |-> i]
ArchiveLine(i)    == [op |-> "archive", id |-> i]

(* WalWriter::append. A line written after half a line extends that line,  *)
(* and replay never gets past it: everything written later is part of the  *)
(* unreadable rest of the file.                                            *)
EndsTorn(w)  == w # <<>> /\ w[Len(w)] = Torn
Written(w,l) == IF EndsTorn(w) THEN w ELSE Append(w, l)

(* The id enters the subject index, or leaves it: retain(|&x| x != id).    *)
SubjectDropped(sub, r, i) ==    \* mutant: remove(s) in place of retain
    IF r.subject = NoSubject THEN sub ELSE [sub EXCEPT ![r.subject] = {}]
Unindexed(sub, r, i) ==
    IF r.subject = NoSubject THEN sub ELSE [sub EXCEPT ![r.subject] = @ \ {i}]
Indexed(sub, r, i) ==
    IF r.subject = NoSubject THEN sub ELSE [sub EXCEPT ![r.subject] = @ \cup {i}]

SourcesLost(s, tag, src) ==     \* mutant of NewRecord
    [subject |-> s, live |-> TRUE, hits |-> 0, summary |-> tag, sources |-> {}]
NewRecord(s, tag, src) ==
    [subject |-> s, live |-> TRUE, hits |-> 0, summary |-> tag, sources |-> src]

(* A caller takes the lock only when no other operation holds it.          *)
Enter(op) == pc = "idle" /\ op \in Ops /\ Len(wal) < MaxLog

(* Effects that an operation and the replay of its line share.             *)
CloseFirst(i) ==    \* docs if it is there, else archive
    \/ docs[i] # Absent /\ docs' = Closed(docs, i) /\ UNCHANGED archive
    \/ docs[i] = Absent /\ archive[i] # Absent
       /\ archive' = Closed(archive, i) /\ UNCHANGED docs

DropFirst(i) ==     \* docs.remove(id), else archive.remove(id)
    \/ /\ docs[i] # Absent
       /\ docs' = [docs EXCEPT ![i] = Absent] /\ UNCHANGED archive
       /\ subjects' = Unindexed(subjects, docs[i], i)
    \/ /\ docs[i] = Absent /\ archive[i] # Absent
       /\ archive' = [archive EXCEPT ![i] = Absent] /\ UNCHANGED docs
       /\ subjects' = Unindexed(subjects, archive[i], i)

CopyToArchive(i) ==     \* mutant: get in place of remove
    /\ docs[i] # Absent
    /\ archive' = [archive EXCEPT ![i] = docs[i]] /\ UNCHANGED docs
MoveToArchive(i) ==
    /\ docs[i] # Absent
    /\ docs' = [docs EXCEPT ![i] = Absent]
    /\ archive' = [archive EXCEPT ![i] = docs[i]]

ArchivedUnindexed(i, r, arch) ==    \* mutant: only docs are indexed
    IF arch THEN archive' = [archive EXCEPT ![i] = r] /\ UNCHANGED <<docs, subjects>>
            ELSE docs' = [docs EXCEPT ![i] = r] /\ UNCHANGED archive
                 /\ subjects' = Indexed(subjects, r, i)
Insert(i, r, arch) ==
    /\ IF arch THEN archive' = [archive EXCEPT ![i] = r] /\ UNCHANGED docs
               ELSE docs' = [docs EXCEPT ![i] = r] /\ UNCHANGED archive
    /\ subjects' = Indexed(subjects, r, i)

Log(line) == wal' = Written(wal, line)

-----------------------------------------------------------------------------
(* remember: close every live version of the subject, one Forget line      *)
(* each, then log the new record and only then put it into docs.           *)

LiveInDocs(s) ==    \* mutant: an archived version is overlooked
    IF s = NoSubject THEN {} ELSE subjects[s] \cap LiveIn(docs)
LiveVersions(s) ==
    IF s = NoSubject THEN {}
    ELSE {i \in subjects[s] : i \in LiveIn(docs) \cup LiveIn(archive)}

BeginRemember(s, tag) ==
    /\ Enter("remember") /\ next_id <= MaxId
    /\ pc' = "supersede"
    /\ todo' = LiveVersions(s)
    /\ pending' = NewRecord(s, tag, {})
    /\ UNCHANGED <<memory, keep, due, replay, wal, files, ghosts>>

CloseVersion(i) ==
    /\ pc \in {"supersede", "forgetting"} /\ i \in todo
    /\ IF i \in LiveIn(docs)
       THEN docs' = Closed(docs, i) /\ UNCHANGED archive
       ELSE archive' = Closed(archive, i) /\ UNCHANGED docs
    /\ Log(ForgetLine(i))
    /\ todo' = todo \ {i}
    /\ UNCHANGED <<subjects, next_id, seg_seq, pc, pending, keep, due, replay,
                   files, ghosts>>

CommitRemember ==
    /\ pc = "supersede" /\ todo = {}
    /\ next_id' = next_id + 1
    /\ Log(RememberLine(next_id, pending, FALSE))
    /\ Insert(next_id, pending, FALSE)
    /\ issued' = issued \cup {next_id}
    /\ pc' = "idle" /\ pending' = Absent
    /\ UNCHANGED <<seg_seq, todo, keep, due, replay, files,
                   erased, purged, before>>

-----------------------------------------------------------------------------
(* recall strengthens what it returns: hits + 1 and a Touch line for each. *)
(* A question about an earlier time may return what was closed since.      *)

BeginRecall(picked) ==
    /\ Enter("recall")
    /\ picked \subseteq Held(docs) /\ picked # {}
    /\ pc' = "touching" /\ todo' = picked
    /\ UNCHANGED <<memory, pending, keep, due, replay, wal, files, ghosts>>

TouchUnlogged(i) ==     \* mutant: the Touch line is missing
    /\ pc = "touching" /\ i \in todo
    /\ docs' = Hit(docs, i)
    /\ todo' = todo \ {i}
    /\ pc' = IF todo = {i} THEN "idle" ELSE pc
    /\ UNCHANGED <<archive, subjects, next_id, seg_seq, pending, keep, due, replay, wal,
                   files, ghosts>>

Touch(i) ==
    /\ pc = "touching" /\ i \in todo
    /\ docs' = Hit(docs, i)
    /\ Log(TouchLine(i))
    /\ todo' = todo \ {i}
    /\ pc' = IF todo = {i} THEN "idle" ELSE pc
    /\ UNCHANGED <<archive, subjects, next_id, seg_seq, pending, keep, due, replay,
                   files, ghosts>>

-----------------------------------------------------------------------------
(* forget, forget_subject, hard_delete, import_row. The calls that change  *)
(* nothing (NotFound, an id that exists already) are stuttering steps.     *)

Forget(i) ==
    /\ Enter("forget")
    /\ CloseFirst(i)
    /\ Log(ForgetLine(i))
    /\ UNCHANGED <<subjects, next_id, seg_seq, holder, due, replay, files,
                   ghosts>>

BeginForgetSubject(s) ==
    /\ Enter("forget_subject") /\ LiveVersions(s) # {}
    /\ pc' = "forgetting" /\ todo' = LiveVersions(s)
    /\ UNCHANGED <<memory, pending, keep, due, replay, wal, files, ghosts>>

EndForgetSubject ==
    /\ pc = "forgetting" /\ todo = {}
    /\ pc' = "idle"
    /\ UNCHANGED <<memory, todo, pending, keep, due, replay, wal, files,
                   ghosts>>

HardDelete(i) ==
    /\ Enter("hard_delete")
    /\ DropFirst(i)
    /\ Log(HardDeleteLine(i))
    /\ erased' = erased \cup {i}
    /\ UNCHANGED <<next_id, seg_seq, holder, due, replay, files,
                   issued, purged, before>>

ImportKeepsNextId(i) == next_id     \* mutant of NextIdAfterImport
NextIdAfterImport(i) == Larger(next_id, i + 1)

ImportRow(i, r, arch) ==
    /\ Enter("import_row")
    /\ docs[i] = Absent /\ archive[i] = Absent
    /\ next_id' = NextIdAfterImport(i)
    /\ Log(RememberLine(i, r, arch))
    /\ Insert(i, r, arch)
    /\ issued' = issued \cup {i}
    /\ UNCHANGED <<seg_seq, holder, due, replay, files,
                   erased, purged, before>>

-----------------------------------------------------------------------------
(* consolidate: for each group of cold records (same keyword), archive the *)
(* members, one Archive line each, then log and insert their summary. The  *)
(* checkpoint that ends the call comes after the lock was released: `due`. *)

Eligible == {i \in LiveIn(docs) : ~docs[i].summary /\ docs[i].hits = 0}

BeginGroup(group) ==
    /\ \/ Enter("consolidate") /\ due < MaxDue /\ seg_seq + due < MaxSeg
       \/ pc = "grouping"
    /\ group \subseteq Eligible /\ group # {} /\ Cardinality(group) >= MinCluster
    /\ next_id <= MaxId
    /\ pc' = "archiving" /\ todo' = group
    /\ pending' = NewRecord(NoSubject, TRUE, group)
    /\ next_id' = next_id + 1
    /\ UNCHANGED <<docs, archive, subjects, seg_seq, keep, due, replay, wal, files, ghosts>>

ArchiveMember(i) ==
    /\ pc = "archiving" /\ i \in todo
    /\ MoveToArchive(i)
    /\ Log(ArchiveLine(i))
    /\ todo' = todo \ {i}
    /\ UNCHANGED <<subjects, next_id, seg_seq, pc, pending, keep, due, replay, files, ghosts>>

CommitSummary ==
    /\ pc = "archiving" /\ todo = {}
    /\ Log(RememberLine(next_id - 1, pending, FALSE))
    /\ docs' = [docs EXCEPT ![next_id - 1] = pending]
    /\ issued' = issued \cup {next_id - 1}
    /\ pc' = "grouping" /\ pending' = Absent
    /\ UNCHANGED <<archive, subjects, next_id, seg_seq, todo, keep, due, replay, files,
                   erased, purged, before>>

CheckpointHeld ==       \* mutant: checkpoint waits for the lock its caller holds
    pc = "grouping" /\ UNCHANGED vars

EndConsolidate ==
    /\ pc = "grouping"
    /\ pc' = "idle" /\ due' = due + 1
    /\ UNCHANGED <<memory, todo, pending, keep, replay, wal, files, ghosts>>

(* compact: drop what expired, from memory only; `expired` is what the     *)
(* retention period says, of the dead and, by event_time, of the archive.  *)
Referenced ==
    UNION ({docs[i].sources : i \in {j \in LiveIn(docs) : docs[j].summary}} \cup
           {archive[i].sources : i \in {j \in LiveIn(archive) : archive[j].summary}})

CompactLive(expired) ==     \* mutant: an old live record is dropped
    {i \in (Held(docs) \cap expired) \ Referenced : ~docs[i].summary}
CompactDocs(expired) ==
    {i \in (Held(docs) \cap expired) \ Referenced : ~docs[i].summary /\ ~docs[i].live}
CompactSources(expired) ==      \* mutant: summaries do not protect
    {i \in Held(archive) \cap expired : ~archive[i].summary}
CompactArchive(expired) ==
    {i \in (Held(archive) \cap expired) \ Referenced : ~archive[i].summary}

Compact(expired) ==
    /\ Enter("compact") /\ due < MaxDue /\ seg_seq + due < MaxSeg
    /\ docs' = [i \in Ids |-> IF i \in CompactDocs(expired) THEN Absent ELSE docs[i]]
    /\ archive' = [i \in Ids |-> IF i \in CompactArchive(expired) THEN Absent
                                                                  ELSE archive[i]]
    /\ purged' = purged \cup CompactDocs(expired) \cup CompactArchive(expired)
    /\ due' = due + 1
    /\ UNCHANGED <<subjects, next_id, seg_seq, holder, replay, wal, files,
                   issued, erased, before>>

-----------------------------------------------------------------------------
(* checkpoint and checkpoint_keep_wal: one step per file operation, all of *)
(* them under the lock. A call of its own, or the end of a maintenance     *)
(* call; the .tmp files are never read, so only the renames show.          *)

DocsOnly == [docs |-> docs, archive |-> Empty]      \* mutant of Rows
Rows == [docs |-> docs, archive |-> archive]

CleanedFirst == [n \in SegNos |->                     \* mutant of NewSegs
                   IF n = seg_seq + 1 THEN Rows ELSE Absent]
NewSegs == [segs EXCEPT ![seg_seq + 1] = Rows]

WriteSegment ==
    /\ seg_seq' = seg_seq + 1
    /\ segs' = NewSegs
    /\ UNCHANGED <<docs, archive, subjects, next_id, todo, pending, replay, wal,
                   archives, manifest, ghosts>>

BeginCheckpoint ==
    /\ pc = "idle"
    /\ \/ "checkpoint" \in Ops /\ seg_seq + due < MaxSeg /\ UNCHANGED due
       \/ due > 0 /\ due' = due - 1
    /\ WriteSegment
    /\ pc' = "write_manifest" /\ keep' = FALSE

BeginCheckpointKeepWal ==
    /\ pc = "idle" /\ "checkpoint_keep_wal" \in Ops /\ seg_seq + due < MaxSeg
    /\ WriteSegment
    /\ pc' = "rename_wal" /\ keep' = TRUE
    /\ UNCHANGED due

WalDiscarded == archives                              \* mutant of WalRenamed
WalRenamed == [archives EXCEPT ![seg_seq] = wal]

RenameWal ==
    /\ pc = "rename_wal"
    /\ archives' = WalRenamed
    /\ wal' = <<>>
    /\ pc' = "write_manifest"
    /\ UNCHANGED <<memory, todo, pending, keep, due, replay, segs, manifest,
                   ghosts>>

WriteManifest ==
    /\ pc = "write_manifest"
    /\ manifest' = [next_id |-> next_id, snapshot |-> seg_seq,
                    wal_archives |-> IF keep
                                     THEN Append(manifest.wal_archives, seg_seq)
                                     ELSE <<>>]
    /\ pc' = "cleanup"
    /\ UNCHANGED <<memory, todo, pending, keep, due, replay, wal, archives, segs, ghosts>>

CleanupSegments ==
    /\ pc = "cleanup"
    /\ segs' = [n \in SegNos |-> IF n = manifest.snapshot THEN segs[n] ELSE Absent]
    /\ pc' = "reset_wal"
    /\ UNCHANGED <<memory, todo, pending, keep, due, replay, wal, archives, manifest, ghosts>>

WalTruncated == <<>>

ResetWal ==
    /\ pc = "reset_wal"
    /\ wal' = WalTruncated
    /\ pc' = "idle" /\ keep' = FALSE
    /\ purged' = IF keep THEN purged ELSE {}
    /\ UNCHANGED <<memory, todo, pending, due, replay, files,
                   issued, erased, before>>

-----------------------------------------------------------------------------
(* The process dies: what was in memory is gone; a write cut short may     *)
(* leave half of a line. Closing the database and opening it again is the  *)
(* same step at pc = "idle": nothing is written on close.                  *)

MidAppend == pc \in {"idle", "supersede", "forgetting", "touching", "archiving"}

(* What checkpoint_keep_wal has renamed and the manifest does not list yet *)
(* makes a place of its own.                                               *)
Place == IF pc = "write_manifest" /\ keep THEN "renamed" ELSE pc

Die ==
    /\ Place \in CrashAt
    /\ docs' = Empty /\ archive' = Empty
    /\ subjects' = [s \in Subjects |-> {}]
    /\ next_id' = 0 /\ seg_seq' = 0
    /\ pc' = "down" /\ todo' = {} /\ pending' = Absent /\ keep' = FALSE
    /\ due' = 0 /\ file' = 0 /\ pos' = 0
    /\ \/ UNCHANGED wal
       \/ TornWrites /\ MidAppend /\ Log(Torn)
    /\ before' = IF pc \in Recovering THEN before
                 ELSE [docs |-> docs, archive |-> archive]
    /\ UNCHANGED <<files, issued, erased, purged>>

-----------------------------------------------------------------------------
(* Collection::open: rows of the listed segment, then the archived WALs in *)
(* order, then wal.jsonl, each up to its first unreadable line. Half a line*)
(* is taken for one, though where it ends within a character of several    *)
(* bytes open fails instead (wal.rs:71).                                   *)

LoadedRows == IF manifest.snapshot = 0 THEN [docs |-> Empty, archive |-> Empty]
              ELSE segs[manifest.snapshot]

NothingIndexed(d, a) == [s \in Subjects |-> {}]       \* mutant of SubjectIndex
SubjectIndex(d, a) ==
    [s \in Subjects |-> {i \in Held(d) : d[i].subject = s}
                       \cup {i \in Held(a) : a[i].subject = s}]

LoadSnapshot ==
    /\ pc = "down"
    /\ LoadedRows # Absent      \* else open fails: snapshot missing
    /\ docs' = LoadedRows.docs /\ archive' = LoadedRows.archive
    /\ subjects' = SubjectIndex(docs', archive')
    /\ next_id' \in 1 .. MaxId + 1        \* the highest id of the rows, + 1
    /\ \A i \in Held(docs') \cup Held(archive') : i < next_id'
    /\ next_id' = 1 \/ next_id' - 1 \in Held(docs') \cup Held(archive')
    /\ pc' = "replay" /\ file' = 1 /\ pos' = 0
    /\ UNCHANGED <<seg_seq, todo, pending, keep, due, wal, files, ghosts>>

LiveWalFirst ==     \* mutant of LogFile: wal.jsonl before the archived files
    IF file = 1 THEN wal ELSE archives[manifest.wal_archives[file - 1]]
LogFile == IF file > Len(manifest.wal_archives) THEN wal
           ELSE IF archives[manifest.wal_archives[file]] = Absent THEN <<>>
           ELSE archives[manifest.wal_archives[file]]
LogRead == pos < Len(LogFile) => LogFile[pos + 1] = Torn

Replayed(l) ==
    \/ /\ l.op = "remember"
       /\ Insert(l.id, l.row, l.archived)
       /\ next_id' = Larger(next_id, l.id + 1)
    \/ /\ l.op = "forget" /\ CloseFirst(l.id)
       /\ UNCHANGED <<subjects, next_id>>
    \/ /\ l.op = "touch"
       /\ \/ docs[l.id] # Absent /\ docs' = Hit(docs, l.id) /\ UNCHANGED archive
          \/ docs[l.id] = Absent /\ archive[l.id] # Absent
             /\ archive' = Hit(archive, l.id) /\ UNCHANGED docs
       /\ UNCHANGED <<subjects, next_id>>
    \/ /\ l.op = "hard_delete" /\ DropFirst(l.id)
       /\ UNCHANGED next_id
    \/ /\ l.op = "archive" /\ MoveToArchive(l.id)
       /\ UNCHANGED <<subjects, next_id>>
    \/ /\ docs[l.id] = Absent /\ l.op # "remember"    \* nothing to apply it to
       /\ archive[l.id] = Absent \/ l.op = "archive"
       /\ UNCHANGED <<docs, archive, subjects, next_id>>

ReplayLine ==
    /\ pc = "replay" /\ ~LogRead
    /\ Replayed(LogFile[pos + 1])
    /\ pos' = pos + 1
    /\ UNCHANGED <<seg_seq, holder, due, file, wal, files, ghosts>>

NextLog ==
    /\ pc = "replay" /\ LogRead /\ file <= Len(manifest.wal_archives)
    /\ file' = file + 1 /\ pos' = 0
    /\ UNCHANGED <<memory, holder, due, wal, files, ghosts>>

NextIdFromRows == next_id       \* mutant of RecoveredNextId
RecoveredNextId == Larger(manifest.next_id, next_id)

FinishReplay ==
    /\ pc = "replay" /\ LogRead /\ file > Len(manifest.wal_archives)
    /\ next_id' = RecoveredNextId
    /\ seg_seq' = manifest.snapshot
    /\ file' = 0 /\ pos' = 0
    /\ pc' = "replayed"
    /\ UNCHANGED <<docs, archive, subjects, todo, pending, keep, due, wal, files, ghosts>>

(* open() returns: the caller has its collection.                          *)
FinishOpen ==
    /\ pc = "replayed"
    /\ pc' = "idle" /\ before' = Absent /\ purged' = {}
    /\ UNCHANGED <<memory, todo, pending, keep, due, replay, wal, files,
                   issued, erased>>

-----------------------------------------------------------------------------
(* A directory that Db::create_collection has just opened.                 *)
Init ==
    /\ docs = Empty /\ archive = Empty /\ subjects = [s \in Subjects |-> {}]
    /\ next_id = 1 /\ seg_seq = 0
    /\ pc = "idle" /\ todo = {} /\ pending = Absent /\ keep = FALSE /\ due = 0
    /\ file = 0 /\ pos = 0
    /\ wal = <<>>
    /\ archives = [n \in SegNos |-> Absent] /\ segs = [n \in SegNos |-> Absent]
    /\ manifest = [next_id |-> 0, snapshot |-> 0, wal_archives |-> <<>>]
    /\ issued = {} /\ erased = {} /\ purged = {} /\ before = Absent

Step ==
    \/ \E i \in Ids : CloseVersion(i) \/ Touch(i) \/ ArchiveMember(i)
    \/ CommitRemember \/ EndForgetSubject
    \/ CommitSummary \/ EndConsolidate
    \/ RenameWal \/ WriteManifest \/ CleanupSegments \/ ResetWal

Open == LoadSnapshot \/ ReplayLine \/ NextLog \/ FinishReplay \/ FinishOpen

Call ==
    \/ \E s \in Subjects \cup {NoSubject}, tag \in Tags : BeginRemember(s, tag)
    \/ \E picked \in SUBSET Ids : BeginRecall(picked)
    \/ \E i \in Ids : Forget(i) \/ HardDelete(i)
    \/ \E s \in Subjects : BeginForgetSubject(s)
    \/ \E i \in Ids, r \in ImportRows, arch \in BOOLEAN : ImportRow(i, r, arch)
    \/ \E group \in SUBSET Ids : BeginGroup(group)
    \/ \E expired \in SUBSET Ids : Compact(expired)
    \/ BeginCheckpoint \/ BeginCheckpointKeepWal

(* A call that changes nothing (NotFound, an existing id, nothing to close *)
(* or to cluster), and the time when nobody calls.                         *)
NoEffect == pc = "idle" /\ UNCHANGED vars

Next == Call \/ Step \/ Open \/ Die \/ NoEffect

Spec == Init /\ [][Next]_vars

(* The holder of the lock waits for nobody, and so does open(), which      *)
(* somebody calls after a death.                                           *)
FairSpec == Spec /\ WF_vars(Step) /\ WF_vars(Open)

-----------------------------------------------------------------------------
(* Properties.                                                             *)

(* Every variable keeps the type its declaration gives it.                 *)
MemoryOK ==
    /\ docs \in Map /\ archive \in Map
    /\ subjects \in [Subjects -> SUBSET Ids]
    /\ next_id \in 0 .. MaxId + 1
    /\ seg_seq \in 0 .. MaxSeg
HolderOK ==
    /\ pc \in Running \cup Recovering
    /\ todo \in SUBSET Ids
    /\ pending \in Record \cup {Absent}
    /\ keep \in BOOLEAN
    /\ due \in 0 .. MaxDue
    /\ file \in Nat /\ pos \in Nat
DiskOK ==
    /\ wal \in Seq(Line)
    /\ archives \in [SegNos -> Seq(Line) \cup {Absent}]
    /\ segs \in [SegNos -> Snapshot \cup {Absent}]
    /\ manifest \in Manifest
HistoryOK ==
    /\ issued \in SUBSET Ids /\ erased \in SUBSET Ids /\ purged \in SUBSET Ids
    /\ before \in Snapshot \cup {Absent}
TypeOK == MemoryOK /\ HolderOK /\ DiskOK /\ HistoryOK

(* What the manifest lists is on disk, whenever the process dies: open     *)
(* never fails with "snapshot missing" (storage/mod.rs, read_snapshot).    *)
ListedFilesExist ==
    /\ manifest.snapshot # 0 => segs[manifest.snapshot] # Absent
    /\ \A k \in DOMAIN manifest.wal_archives : archives[manifest.wal_archives[k]] # Absent

(* An id that was ever given to a record is below next_id whenever the     *)
(* collection can be called, after any number of deaths and recoveries,    *)
(* deleted and compacted ids included: remember never gives it out again   *)
(* (collection.rs, remember and the max() in open).                        *)
NoIdReissued == pc \in Running => \A i \in issued : i < next_id

(* Recovery rebuilds the maps that memory held when the process died, up   *)
(* to hits, and up to ids that compact removed without logging it and that *)
(* no checkpoint has settled yet.                                          *)
SameRecord(r, s) == \/ r = s
                    \/ r # Absent /\ s # Absent /\ [r EXCEPT !.hits = s.hits] = s
RecoversExactly ==
    pc = "replayed" => \A i \in Ids \ purged : /\ SameRecord(docs[i], before.docs[i])
                                               /\ SameRecord(archive[i], before.archive[i])

(* Recovery rebuilds the hits as well: a Touch line is counted once.       *)
HitsRecovered ==
    pc = "replayed" => \A i \in Ids \ purged : docs[i] # Absent /\ before.docs[i] # Absent
                                               => docs[i].hits = before.docs[i].hits

(* No record is in docs and in the archive at once: what Archive moved is  *)
(* not left behind, what was deleted has no second copy, and verify finds  *)
(* no duplicate id.                                                        *)
MapsDisjoint == pc \in Running => Held(docs) \cap Held(archive) = {}

(* The subject index is complete: every record that has a subject is found *)
(* under it, or else remember could not close it and forget_subject could  *)
(* not forget it.                                                          *)
SubjectsComplete ==
    pc \in Running =>
        \A i \in Ids :
            /\ docs[i] # Absent /\ docs[i].subject # NoSubject => i \in subjects[docs[i].subject]
            /\ archive[i] # Absent /\ archive[i].subject # NoSubject
                 => i \in subjects[archive[i].subject]

(* A subject has at most one live version, in docs or in the archive,      *)
(* before and after any death.                                             *)
OneLiveVersion ==
    pc \in Running =>
        \A s \in Subjects :
            Cardinality({i \in LiveIn(docs) : docs[i].subject = s}
                   \cup {i \in LiveIn(archive) : archive[i].subject = s}) <= 1

(* A recall sees at most one version of a subject, also when what compact  *)
(* removed has come back: records it brings back to docs are closed.       *)
OneVersionRecalled ==
    pc \in Running =>
        \A s \in Subjects : Cardinality({i \in LiveIn(docs) : docs[i].subject = s}) <= 1

(* A live summary can be expanded: compact never takes a source from under *)
(* it; only hard_delete does (collection.rs, compact and expand_summaries).*)
SourcesKept ==
    pc \in Running =>
        \A i \in Ids : \A m \in {docs, archive} :
            m[i] # Absent /\ m[i].live /\ m[i].summary
                => m[i].sources \subseteq Held(docs) \cup Held(archive) \cup erased

(* What consolidate put into the archive, out of the sight of recall, is a *)
(* source of a summary in docs (where callers neither import nor erase).   *)
(* A death between the lines of a group takes the summary with it.         *)
ArchivedHasSummary ==
    pc = "idle" => \A i \in Held(archive) :
                      \E j \in Held(docs) : docs[j].summary /\ i \in docs[j].sources

(* The lock is always released, and after a death open always returns.     *)
LockReleased == (pc # "idle") ~> (pc = "idle")

(* What a caller sees, as a MemoryStore: while the collection is closed,   *)
(* what it held when the process died.                                     *)
Shown(r, arch) == [subject |-> r.subject, live |-> r.live, summary |-> r.summary,
                   sources |-> r.sources, archived |-> arch]
Visible(m) == [i \in Ids |-> IF m.docs[i] # Absent THEN Shown(m.docs[i], FALSE)
                             ELSE IF m.archive[i] # Absent THEN Shown(m.archive[i], TRUE)
                             ELSE Absent]

Store == INSTANCE MemoryStore
         WITH rows <- Visible(IF pc \in Recovering THEN before ELSE Rows),
              unsettled <- purged

ASSUME ShownAssumption == Absent \notin Store!Row

(* The collection implements the store: through checkpoints, deaths and    *)
(* recoveries no row changes but by an operation on it.                    *)
ImplementsStore == Store!Spec

=============================================================================
