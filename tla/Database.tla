------------------------------ MODULE Database ------------------------------
(***************************************************************************)
(* A database directory that several processes may open: the lock file,    *)
(* the Db with its map of collections, the Arc<Collection> handles its     *)
(* callers hold, and the jobs that go through collections while others     *)
(* write them: backup_to, export_jsonl and verify, which read their files, *)
(* and import_jsonl, which adds rows one at a time.                        *)
(*                                                                         *)
(* A collection is abstracted to the rows it holds: Collection.tla has its *)
(* operations. Here a row is only ever added, and a checkpoint is four     *)
(* file operations under the mutex of its collection.                      *)
(***************************************************************************)
EXTENDS Naturals, FiniteSets

CONSTANTS
    Procs,        \* the processes that use the directory
    Cols,         \* names of collections
    Absent,
    KeepHandles,  \* may a handle be in use when the Db it came from is closed?
    Jobs,         \* the jobs callers start, a subset of AllJobs
    Files,        \* the files import_jsonl is given: sets of <<collection, row>>
    Writers,      \* the operations callers use beside a job, a subset of AllWriters
    MaxObj,       \* bound: Collection objects in memory at once
    MaxId,        \* bound: no row gets an id above MaxId
    MaxSeg        \* bound: the highest seg_seq a checkpoint may use

AllWriters == {"remember", "checkpoint"}
AllJobs    == {"backup", "export", "verify", "import"}
Objs   == 1 .. MaxObj
Ids    == 1 .. MaxId
SegNos == 1 .. MaxSeg

(* The process that wrote a row stands for its contents.                   *)
Row == [id : Ids, by : Procs]

(* A directory of a collection, and a copy of one.                         *)
Dir == [listed : 0 .. MaxSeg,                       \* manifest.json; 0: none
        segs   : [SegNos -> {Absent} \cup SUBSET Row],
        wal    : SUBSET Row]
(* A Collection in the memory of a process.                                *)
Object == [proc : Procs, col : Cols, rows : SUBSET Row, seg_seq : 0 .. MaxSeg,
           pc : {"idle", "manifest", "cleanup", "truncate"},
           for_job : BOOLEAN]       \* is its running checkpoint part of the job?

ASSUME DatabaseAssumption ==
    /\ MaxObj \in Nat /\ MaxId \in Nat /\ MaxSeg \in Nat
    /\ KeepHandles \in BOOLEAN
    /\ Jobs \subseteq AllJobs /\ Writers \subseteq AllWriters
    /\ Files \subseteq SUBSET (Cols \X Row)
    /\ Absent \notin Procs /\ Absent \notin Objs /\ Absent \notin Nat
    /\ Absent \notin Object /\ Absent \notin Dir
    /\ \A rows \in SUBSET Row : rows # Absent

VARIABLES
    lock,      \* who holds engram.lock, or Absent
    dbs,       \* per process: is its Db closed, opening, open or closing?
    cols,      \* Db.cols: per process and name, the object or Absent
    handles,   \* per process: the objects its callers hold an Arc of
    objs,      \* the objects in memory
    disk,      \* the directory of each collection, or Absent
    job,       \* the running job, or Absent
    acked      \* history: per collection, the rows remember or import reported

vars == <<lock, dbs, cols, handles, objs, disk, job, acked>>

-----------------------------------------------------------------------------
(* Helpers.                                                                *)

Live       == {o \in Objs : objs[o] # Absent}
InMap(p)   == {cols[p][c] : c \in Cols} \ {Absent}
Refs(p)    == InMap(p) \cup handles[p]
Listed(d)  == IF d.listed = 0 THEN {} ELSE d.segs[d.listed]
Readable(d) == Listed(d) # Absent
NoDir      == [listed |-> 0, segs |-> [n \in SegNos |-> Absent], wal |-> {}]

IdsOf(rows) == {r.id : r \in rows}
LastId(o) ==            \* mutant of NextId: no + 1
    {0} \cup IdsOf(objs[o].rows)
(* next_id, if it is within bounds: one above every id there was.          *)
NextId(o) ==
    {id \in Ids : /\ \A i \in IdsOf(objs[o].rows) : i < id
                  /\ id = 1 \/ id - 1 \in IdsOf(objs[o].rows)}

(* What Collection::open rebuilds: the listed segment, then the WAL.       *)
Recovered(d) == Listed(d) \cup d.wal

(* checkpoint_all holds the mutex of the map until every collection is     *)
(* saved; calls that need the map wait.                                    *)
MapFree(p) == ~(job # Absent /\ job.proc = p /\ job.at = "checkpoint_all")

Without(p) == [o \in Objs |-> IF objs[o] # Absent /\ objs[o].proc = p
                              THEN Absent ELSE objs[o]]
Dropped(gone) == [o \in Objs |-> IF o \in gone THEN Absent ELSE objs[o]]

-----------------------------------------------------------------------------
(* Opening and closing.                                                    *)

AcquireAnyway(p) ==     \* mutant of AcquireLock: nobody looks at the lock
    /\ dbs[p] = "closed"
    /\ lock' = p
    /\ dbs' = [dbs EXCEPT ![p] = "opening"]
    /\ UNCHANGED <<cols, handles, objs, disk, job, acked>>

(* Db::open, when another process has the lock: Error::Locked, no step.    *)
AcquireLock(p) ==
    /\ dbs[p] = "closed" /\ lock = Absent
    /\ lock' = p
    /\ dbs' = [dbs EXCEPT ![p] = "opening"]
    /\ UNCHANGED <<cols, handles, objs, disk, job, acked>>

(* Db::open for every directory it finds; create_collection for a name     *)
(* that is not in the map (its directory is made when missing). Both hold  *)
(* what keeps other threads from the map until the object is in it. An open*)
(* that fails puts nothing into the map, and is left out.                  *)
OpenCollection(p, c, o) ==
    LET d == IF disk[c] = Absent THEN NoDir ELSE disk[c] IN
    /\ \/ dbs[p] = "opening" /\ disk[c] # Absent
       \/ dbs[p] = "open" /\ MapFree(p)
    /\ cols[p][c] = Absent /\ o \notin Live
    /\ Readable(d)
    /\ cols' = [cols EXCEPT ![p][c] = o]
    /\ objs' = [objs EXCEPT ![o] = [proc |-> p, col |-> c, rows |-> Recovered(d),
                                    seg_seq |-> d.listed, pc |-> "idle",
                                    for_job |-> FALSE]]
    /\ disk' = [disk EXCEPT ![c] = d]
    /\ UNCHANGED <<lock, dbs, handles, job, acked>>

FinishOpen(p) ==
    /\ dbs[p] = "opening"
    /\ \A c \in Cols : disk[c] # Absent => cols[p][c] # Absent
    /\ dbs' = [dbs EXCEPT ![p] = "open"]
    /\ UNCHANGED <<lock, cols, handles, objs, disk, job, acked>>

(* create_collection or collection of a name that is in the map.           *)
TakeHandle(p, o) ==
    /\ dbs[p] = "open" /\ MapFree(p)
    /\ o \in InMap(p) \ handles[p]
    /\ handles' = [handles EXCEPT ![p] = @ \cup {o}]
    /\ UNCHANGED <<lock, dbs, cols, objs, disk, job, acked>>

DropHandle(p, o) ==
    /\ o \in handles[p] /\ (objs[o].pc = "idle" \/ objs[o].for_job)
    /\ handles' = [handles EXCEPT ![p] = @ \ {o}]
    /\ objs' = Dropped({o} \ InMap(p))
    /\ UNCHANGED <<lock, dbs, cols, disk, job, acked>>

UnlockFirst(p) ==       \* mutant of DropMap: the fields in the other order
    /\ dbs[p] = "open" /\ (job # Absent => job.proc # p)
    /\ KeepHandles \/ handles[p] = {}
    /\ \A o \in InMap(p) \ handles[p] : objs[o].pc = "idle"
    /\ lock' = Absent
    /\ dbs' = [dbs EXCEPT ![p] = "closing"]
    /\ UNCHANGED <<cols, handles, objs, disk, job, acked>>

(* Dropping the Db drops its fields in the order they are declared: the    *)
(* map, then the lock. No call on the Db is running; an object that a      *)
(* caller still holds lives on.                                            *)
DropMap(p) ==
    /\ dbs[p] = "open" /\ (job # Absent => job.proc # p)
    /\ KeepHandles \/ handles[p] = {}
    /\ \A o \in InMap(p) \ handles[p] : objs[o].pc = "idle"
    /\ objs' = Dropped(InMap(p) \ handles[p])
    /\ cols' = [cols EXCEPT ![p] = [c \in Cols |-> Absent]]
    /\ dbs' = [dbs EXCEPT ![p] = "closing"]
    /\ UNCHANGED <<lock, handles, disk, job, acked>>

Unlock(p) ==
    /\ dbs[p] = "closing"
    /\ lock' = IF lock = p THEN Absent ELSE lock
    /\ dbs' = [dbs EXCEPT ![p] = "closed"]
    /\ UNCHANGED <<cols, handles, objs, disk, job, acked>>

(* The process ends anywhere; the system releases its lock.                *)
Die(p) ==
    /\ dbs[p] # "closed" \/ handles[p] # {}
    /\ lock' = IF lock = p THEN Absent ELSE lock
    /\ dbs' = [dbs EXCEPT ![p] = "closed"]
    /\ cols' = [cols EXCEPT ![p] = [c \in Cols |-> Absent]]
    /\ handles' = [handles EXCEPT ![p] = {}]
    /\ objs' = Without(p)
    /\ job' = IF job # Absent /\ job.proc = p THEN Absent ELSE job
    /\ UNCHANGED <<disk, acked>>

-----------------------------------------------------------------------------
(* The operations of a collection, each under the mutex of its object.     *)

(* A row goes to the WAL, then to memory, then its caller is told.         *)
AddRow(o, r) ==
    /\ disk' = [disk EXCEPT ![objs[o].col].wal = @ \cup {r}]
    /\ objs' = [objs EXCEPT ![o].rows = @ \cup {r}]
    /\ acked' = [acked EXCEPT ![objs[o].col] = @ \cup {r}]
    /\ UNCHANGED <<lock, dbs, cols, handles>>

Remember(p, o) ==
    /\ "remember" \in Writers /\ o \in handles[p] /\ objs[o].pc = "idle"
    /\ \E id \in NextId(o) : AddRow(o, [id |-> id, by |-> p])
    /\ UNCHANGED job

Saving(o) == o \in Live /\ objs[o].pc = "idle" /\ objs[o].seg_seq < MaxSeg

WriteOver(o, jobs) ==   \* mutant of WriteSegment: the listed one goes at once
    /\ Saving(o)
    /\ disk' = [disk EXCEPT ![objs[o].col].segs =
                   [n \in SegNos |-> IF n = objs[o].seg_seq + 1 THEN objs[o].rows ELSE Absent]]
    /\ objs' = [objs EXCEPT ![o].seg_seq = @ + 1, ![o].pc = "manifest", ![o].for_job = jobs]
WriteSegment(o, jobs) ==
    /\ Saving(o)
    /\ disk' = [disk EXCEPT ![objs[o].col].segs[objs[o].seg_seq + 1] = objs[o].rows]
    /\ objs' = [objs EXCEPT ![o].seg_seq = @ + 1, ![o].pc = "manifest", ![o].for_job = jobs]

Checkpoint(p, o) ==
    /\ "checkpoint" \in Writers /\ o \in handles[p]
    /\ WriteSegment(o, FALSE)
    /\ UNCHANGED <<lock, dbs, cols, handles, job, acked>>

TruncateFirst(o) ==     \* mutant of WriteManifest: the WAL goes too early
    /\ o \in Live /\ objs[o].pc = "manifest"
    /\ disk' = [disk EXCEPT ![objs[o].col].wal = {}]
    /\ objs' = [objs EXCEPT ![o].pc = "cleanup"]
    /\ UNCHANGED <<lock, dbs, cols, handles, job, acked>>

WriteManifest(o) ==
    /\ o \in Live /\ objs[o].pc = "manifest"
    /\ disk' = [disk EXCEPT ![objs[o].col].listed = objs[o].seg_seq]
    /\ objs' = [objs EXCEPT ![o].pc = "cleanup"]
    /\ UNCHANGED <<lock, dbs, cols, handles, job, acked>>

Cleanup(o) ==
    /\ o \in Live /\ objs[o].pc = "cleanup"
    /\ disk' = [disk EXCEPT ![objs[o].col].segs =
                   [n \in SegNos |-> IF n = objs[o].seg_seq THEN @[n] ELSE Absent]]
    /\ objs' = [objs EXCEPT ![o].pc = "truncate"]
    /\ UNCHANGED <<lock, dbs, cols, handles, job, acked>>

Truncate(o) ==
    /\ o \in Live /\ objs[o].pc = "truncate"
    /\ disk' = [disk EXCEPT ![objs[o].col].wal = {}]
    /\ objs' = [objs EXCEPT ![o].pc = "idle", ![o].for_job = FALSE]
    /\ job' = IF objs[o].for_job /\ job # Absent
              THEN [job EXCEPT !.unsaved = @ \ {objs[o].col}] ELSE job
    /\ UNCHANGED <<lock, dbs, cols, handles, acked>>

-----------------------------------------------------------------------------
(* A job on a thread of p. backup_to saves every collection, then copies   *)
(* manifest and segments of each, file by file; export_jsonl saves, then   *)
(* reads, one collection after the other; verify reads only. The mutex of  *)
(* a collection is held during its checkpoint only, and by import_jsonl    *)
(* for one row at a time.                                                  *)

Names(p) == {c \in Cols : cols[p][c] # Absent}

NewJob(p, kind) ==
    [proc |-> p, kind |-> kind, at |-> "next", unsaved |-> {},
     left   |-> Names(p),           \* collections still to be read
     col    |-> Absent,             \* the one being read
     files  |-> {},                 \* of it: still to be copied
     rest   |-> {},                 \* of the file of an import: still to be added
     dirs   |-> [c \in Cols |-> Absent],
     errors |-> {},                 \* what verify found missing
     since  |-> acked]
Begun(j) ==
    /\ dbs[j.proc] = "open" /\ job = Absent /\ j.kind \in Jobs
    /\ job' = j
    /\ UNCHANGED <<lock, dbs, cols, handles, objs, disk, acked>>

StartJob(p, kind) ==
    LET j == NewJob(p, kind)
        Snapshot(c) == IF disk[c] = Absent THEN {} ELSE Listed(disk[c]) IN
    CASE kind = "backup" -> Begun([j EXCEPT !.at = "checkpoint_all", !.unsaved = Names(p)])
      [] kind = "export" -> Begun(j)
      [] kind = "verify" -> Begun([j EXCEPT !.since = [c \in Cols |-> Snapshot(c)]])

(* The rows an import is given, in what an export leaves.                  *)
InFile(f, c)   == {r \in Row : <<c, r>> \in f}
AsExport(f)    == [c \in Cols |-> IF InFile(f, c) = {} THEN Absent
                                 ELSE [NoDir EXCEPT !.wal = InFile(f, c)]]
StartImport(p, f) ==
    Begun([NewJob(p, "import") EXCEPT !.left = {}, !.rest = f, !.dirs = AsExport(f)])

SaveForJob(o) ==
    /\ job # Absent /\ o \in InMap(job.proc) /\ objs[o].col \in job.unsaved
    /\ ~\E q \in Live : objs[q].for_job
    /\ WriteSegment(o, TRUE)
    /\ UNCHANGED <<lock, dbs, cols, handles, job, acked>>

(* The mutex of the map is released: collections made since are in the     *)
(* names that backup_to goes through.                                      *)
AllSaved ==
    /\ job # Absent /\ job.at = "checkpoint_all" /\ job.unsaved = {}
    /\ job' = [job EXCEPT !.at = "next", !.left = Names(job.proc)]
    /\ UNCHANGED <<lock, dbs, cols, handles, objs, disk, acked>>

(* The next collection: backup_to reads the names in its directory, where  *)
(* 0 stands for manifest.json. They are read at once here, where read_dir  *)
(* is lazy. export_jsonl saves the collection first, verify does not.      *)
FilesOf(d) == {n \in SegNos : d.segs[n] # Absent} \cup (IF d.listed = 0 THEN {} ELSE {0})

NextCollection(c) ==
    /\ job # Absent /\ job.at = "next" /\ c \in job.left
    /\ job' = IF job.kind = "backup"
              THEN [job EXCEPT !.at = "copy", !.col = c, !.files = FilesOf(disk[c]),
                               !.dirs[c] = NoDir]
              ELSE [job EXCEPT !.at = "save", !.col = c,
                               !.unsaved = IF job.kind = "export" THEN {c} ELSE {}]
    /\ UNCHANGED <<lock, dbs, cols, handles, objs, disk, acked>>

(* A file that is gone when its turn comes makes backup_to return an error.*)
CopyFile(n) ==
    /\ job # Absent /\ job.at = "copy" /\ n \in job.files
    /\ LET d == disk[job.col]
           rest == [job EXCEPT !.files = @ \ {n}] IN
       job' = IF n = 0 THEN [rest EXCEPT !.dirs[job.col].listed = d.listed]
              ELSE IF d.segs[n] = Absent THEN Absent
              ELSE [rest EXCEPT !.dirs[job.col].segs[n] = d.segs[n]]
    /\ UNCHANGED <<lock, dbs, cols, handles, objs, disk, acked>>

(* export_jsonl, verify: read_manifest, once the checkpoint is done. What  *)
(* they leave has no segments: the rows they read are kept in `wal`.       *)
UnsavedManifest ==      \* mutant: the manifest is read before the checkpoint
    /\ job # Absent /\ job.at = "save"
    /\ job' = [job EXCEPT !.at = "rows", !.files = {disk[job.col].listed}, !.unsaved = {}]
    /\ UNCHANGED <<lock, dbs, cols, handles, objs, disk, acked>>

ReadManifest ==
    /\ job # Absent /\ job.at = "save" /\ job.unsaved = {}
    /\ job' = [job EXCEPT !.at = "rows", !.files = {disk[job.col].listed}]
    /\ UNCHANGED <<lock, dbs, cols, handles, objs, disk, acked>>

(* read_snapshot of that manifest. When the segment is gone export_jsonl   *)
(* ends with an error, and verify reports one and goes on.                 *)
ReadRows ==
    /\ job # Absent /\ job.at = "rows"
    /\ \E n \in job.files :
          LET rows == Listed([disk[job.col] EXCEPT !.listed = n]) IN
          job' = IF rows # Absent
                 THEN [job EXCEPT !.files = {}, !.dirs[job.col] = [NoDir EXCEPT !.wal = rows]]
                 ELSE IF job.kind = "export" THEN Absent
                 ELSE [job EXCEPT !.files = {}, !.errors = @ \cup {<<job.col, n>>}]
    /\ UNCHANGED <<lock, dbs, cols, handles, objs, disk, acked>>

DoneWith ==
    /\ job # Absent /\ job.at \in {"copy", "rows"} /\ job.files = {}
    /\ job' = [job EXCEPT !.at = "next", !.left = @ \ {job.col}, !.col = Absent]
    /\ UNCHANGED <<lock, dbs, cols, handles, objs, disk, acked>>

ImportAnyway(c, r) ==   \* mutant of ImportRow: nobody looks for the id
    LET o == cols[job.proc][c] IN
    /\ o # Absent /\ objs[o].pc = "idle"
    /\ AddRow(o, r)

(* import_row, into a collection that create_collection finds or opens.    *)
(* The rows of a file come in any order here.                              *)
ImportRow(c, r) ==
    LET o == cols[job.proc][c] IN
    /\ o # Absent /\ objs[o].pc = "idle"
    /\ IF r.id \in IdsOf(objs[o].rows)
       THEN UNCHANGED <<lock, dbs, cols, handles, objs, disk, acked>>
       ELSE AddRow(o, r)

ImportEnd(c, r) ==      \* mutant of ImportLine: the first line is the last
    /\ job # Absent /\ <<c, r>> \in job.rest
    /\ ImportRow(c, r)
    /\ job' = [job EXCEPT !.rest = {}]
(* A line of a collection with an invalid name is skipped; no export has   *)
(* one, and none is here.                                                  *)
ImportLine(c, r) ==
    /\ job # Absent /\ <<c, r>> \in job.rest
    /\ ImportRow(c, r)
    /\ job' = [job EXCEPT !.rest = @ \ {<<c, r>>}]

(* A line that is no row ends the import; the rows before it stay.         *)
BadLine ==
    /\ job # Absent /\ job.rest # {}
    /\ job' = Absent
    /\ UNCHANGED <<lock, dbs, cols, handles, objs, disk, acked>>

Returning == job # Absent /\ job.at = "next" /\ job.left = {} /\ job.rest = {}
FinishJob ==
    /\ Returning
    /\ job' = Absent
    /\ UNCHANGED <<lock, dbs, cols, handles, objs, disk, acked>>

-----------------------------------------------------------------------------
Init ==
    /\ lock = Absent
    /\ dbs = [p \in Procs |-> "closed"]
    /\ cols = [p \in Procs |-> [c \in Cols |-> Absent]]
    /\ handles = [p \in Procs |-> {}]
    /\ objs = [o \in Objs |-> Absent]
    /\ disk = [c \in Cols |-> Absent]
    /\ job = Absent
    /\ acked = [c \in Cols |-> {}]

OpenAndClose(p) ==
    \/ AcquireLock(p) \/ FinishOpen(p) \/ DropMap(p) \/ Unlock(p) \/ Die(p)
    \/ \E c \in Cols, o \in Objs : OpenCollection(p, c, o)
    \/ \E o \in Objs : TakeHandle(p, o) \/ DropHandle(p, o)

Operation ==
    \/ \E p \in Procs, o \in Objs : Remember(p, o) \/ Checkpoint(p, o)
    \/ \E o \in Objs : WriteManifest(o) \/ Cleanup(o) \/ Truncate(o)

JobStep ==
    \/ \E p \in Procs, kind \in Jobs \ {"import"} : StartJob(p, kind)
    \/ \E p \in Procs, f \in Files : StartImport(p, f)
    \/ \E c \in Cols, r \in Row : ImportLine(c, r)
    \/ BadLine
    \/ \E o \in Objs : SaveForJob(o)
    \/ \E c \in Cols : NextCollection(c)
    \/ \E n \in 0 .. MaxSeg : CopyFile(n)
    \/ AllSaved \/ ReadManifest \/ ReadRows \/ DoneWith \/ FinishJob

Next == (\E p \in Procs : OpenAndClose(p)) \/ Operation \/ JobStep

Spec == Init /\ [][Next]_vars

-----------------------------------------------------------------------------
(* Properties.                                                             *)

(* Every variable keeps its type.                                          *)
Missing == SUBSET (Cols \X SegNos)
Job == [proc : Procs, kind : AllJobs,
        at : {"checkpoint_all", "next", "copy", "save", "rows"},
        unsaved : SUBSET Cols, left : SUBSET Cols, col : Cols \cup {Absent},
        files : SUBSET (0 .. MaxSeg), rest : SUBSET (Cols \X Row),
        dirs : [Cols -> Dir \cup {Absent}], errors : Missing,
        since : [Cols -> SUBSET Row]]
TypeOK ==
    /\ lock \in Procs \cup {Absent}
    /\ dbs \in [Procs -> {"closed", "opening", "open", "closing"}]
    /\ cols \in [Procs -> [Cols -> Objs \cup {Absent}]]
    /\ handles \in [Procs -> SUBSET Objs]
    /\ objs \in [Objs -> Object \cup {Absent}]
    /\ disk \in [Cols -> Dir \cup {Absent}]
    /\ job \in Job \cup {Absent}
    /\ acked \in [Cols -> SUBSET Row]

(* A collection has one object, in one process: two would each append to   *)
(* the WAL, and replace the segments, that the other relies on (lock.rs).  *)
OneWriter == \A o, q \in Live : objs[o].col = objs[q].col => o = q

(* Every row that remember returned an id for is in the files, at every    *)
(* step of a checkpoint and through every death and reopening.             *)
AckedKept ==
    \A c \in Cols : disk[c] # Absent
        => Readable(disk[c]) /\ Recovered(disk[c]) = acked[c]

(* What an object answers from is what the files say: no process works on  *)
(* a memory that another one has overtaken.                                *)
MemoryCurrent == \A o \in Live : objs[o].rows = Recovered(disk[objs[o].col])

(* No id is given twice: not by remember after a reopening, nor by an      *)
(* import beside it.                                                       *)
UniqueIds ==
    \A c \in Cols : \A r, t \in acked[c] : r.id = t.id => r = t

(* When a backup that opens, or an export, returns, it holds every row     *)
(* that was there when the job began and none that was not there when it   *)
(* ended; so does what verify read, of the rows in the snapshot when it    *)
(* began.                                                                  *)
CopyComplete ==
    Returning /\ job.kind # "import" => \A c \in Cols :
        IF job.dirs[c] = Absent
        THEN job.since[c] = {} \/ \E n \in SegNos : <<c, n>> \in job.errors
        ELSE Readable(job.dirs[c])
             => /\ job.since[c] \subseteq Recovered(job.dirs[c])
                /\ Recovered(job.dirs[c]) \subseteq acked[c]

(* verify reports a segment as missing only when a checkpoint has replaced *)
(* it since: files that nobody writes are never reported.                  *)
VerifyHonest == job # Absent => \A e \in job.errors : disk[e[1]].listed > e[2]

(* When an import returns every row of the file is there, or another row   *)
(* that got its id first; earlier imports of it may have failed anywhere.  *)
ImportComplete ==
    Returning /\ job.kind = "import" => \A c \in Cols :
        job.dirs[c] # Absent => IdsOf(job.dirs[c].wal) \subseteq IdsOf(acked[c])

(* A backup can be opened: its manifest lists a segment that is in it      *)
(* (db.rs, backup_to: a consistent online backup).                         *)
BackupOpens ==
    Returning /\ job.kind = "backup"
        => \A c \in Cols : job.dirs[c] # Absent => Readable(job.dirs[c])

=============================================================================
