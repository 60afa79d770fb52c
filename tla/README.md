# A TLA+ model of EngramDB

EngramDB keeps memories for AI agents: records with text, a subject, versions
and a validity period, found again by a token-budgeted recall. This directory
models the parts of it where order, failure and concurrency decide what is
correct, checks them with TLC on small instances, and proves some of the
results for every instance with TLAPS. Paths are relative to `src/`; line
numbers are those of the commit the modules were written from.

## The system

| part | code | state | operations |
|---|---|---|---|
| Collection | `db/src/collection.rs`, `types.rs` | `Inner` under one `Mutex`: `docs`, `archive`, `subjects`, `next_id`, `seg_seq`, `df`, association graph, sketch index, `hot_tail`, WAL writer | `remember`, `recall`, `forget`, `forget_subject`, `hard_delete`, `import_row`, `consolidate`, `compact`, `checkpoint`, `checkpoint_keep_wal`, `open` |
| Storage | `storage/mod.rs`, `storage/wal.rs` | per collection: `manifest.json`, `seg-*.jsonl`, `wal.jsonl`, `wal-a*.archived` | append and flush a line, replay up to the first line that does not parse, write a segment or a manifest through a temporary file, remove unlisted segments, truncate the WAL |
| FileLock | `storage/lock.rs` | `engram.lock` of a directory | acquire or `Error::Locked`; released on drop and when the process ends |
| Db | `db.rs` | `cols` (name to `Arc<Collection>`, under a `Mutex`), the lock | `open`, `create_collection`, `collection`, drop, `checkpoint_all`, `backup_to`, `restore_from`, `export_jsonl`, `import_jsonl`, `verify`, `compact` |
| Recall | `recall.rs`, `salience.rs`, `collection.rs:387-586` | none of its own | candidates from the sketch index and the tail, or all of `docs`; fusion; MMR within a budget; the touches |
| Sketch index | `sketch_hnsw.rs`, `index/mod.rs` | layered links, entry, levels, generation stamps | `insert`, `search` |
| Association graph, encoder | `graph.rs`, `encoder.rs`, `sparse.rs`, `tokenizer.rs`, `sketch.rs` | postings, degrees; document frequencies | `add_doc`, `remove_doc`, `expand_candidates`; `update_df`, `encode` |
| Vector indexes | `index/vamana.rs`, `hnsw.rs`, `ivfpq.rs`, `sq.rs` | graphs, lists and codebooks that no collection uses | `insert`, `build`, `train_and_build`, `search` |
| Numeric kernels | `simd.rs`, `gpu.rs`, `db/gpu/` | none | dot products |
| Servers and bindings | `server.rs`, `ffi.rs`, `sdks/`, `go/` | handles; a thread per connection | wrappers of the above |

How they interact: an operation of a collection takes the mutex, changes the
memory, and appends lines to the WAL, each flushed to the operating system
before the call returns. A checkpoint writes both maps to a new segment, makes
the manifest list it, removes the other segments and starts a new WAL.
`Collection::open` reads the listed segment and replays the logs over it. `Db`
hands out `Arc<Collection>` handles; servers and bindings keep and use them
from several threads. `backup_to`, `export_jsonl` and `verify` read the files
of a collection, and `import_jsonl` adds rows to it, beside such calls.

What is hard in it:

- death of the process at any line of an operation that writes several, and at
  any file operation of a checkpoint; old log lines replayed over a newer
  snapshot; a torn last line;
- two calls (`consolidate`, `compact`) that let go of the lock before the
  checkpoint they end with; `compact` logs nothing;
- an index of subjects, and two maps, that every operation, every kind of log
  line and every import must keep in step;
- a lock that lives in the `Db`, and handles that may outlive it;
- readers of files that checkpoints replace under them, and imports whose ids
  others may give out;
- indexes that are deleted from lazily, pruned at both ends of a link, and
  approximate: what must still be found, and what may be missed.

`PROJECT.json` lists these under `hazards`, each at its line and with the
properties that watch it.

## Modules

| module | models | variables that matter |
|---|---|---|
| `MemoryStore` | what a collection promises: one row per id that only an operation on it changes, and rows dropped by `compact` that a restart may bring back until a checkpoint | `rows`, `unsettled` |
| `Collection` | `collection.rs`, `storage/`: memory, files, operations, death and recovery | `docs`, `archive`, `subjects`, `next_id`, `seg_seq` are the fields of `Inner`; `wal`, `archives`, `segs`, `manifest` are the files; `pc`, `todo`, `pending`, `keep` are the place and the locals of whoever holds the lock; `due` counts `consolidate` and `compact` calls that have let go of it; `file`, `pos` are the place of `open` |
| `Database` | `db.rs`, `lock.rs` and the handles: processes that open one directory, objects, jobs | `lock`, `dbs`, `cols`, `handles`, `objs`, `disk`, `job`, `copy` |
| `Candidates` | `index/mod.rs` and the loops that all graph indexes have: the order in which nodes are looked at, the greedy walk, the beam | none |
| `LayeredGraph` | what `sketch_hnsw.rs` and `hnsw.rs` do alike: layers, descent, links back with pruning, entry | none; a graph is a record of `links`, `entry`, `max_level` |
| `SketchHnsw` | `sketch_hnsw.rs`: insertion and search as operators on an index | none; an index is such a record with `ids`, `sketches`, `levels` |
| `Selection` | `recall.rs`: fusion of scores, the cut to the best candidates, `mmr_select` | none |
| `Retrieval` | what `recall` finds: the structures that lead to the records (`collection.rs`, `graph.rs`), and every operation that changes or should change them | `docs`, `index`, `hot_tail`, `post` and `adj` (the association graph) |
| `VisitedStamps` | `index/mod.rs`: the visited nodes of a search, as stamps and a generation | none; a record of `stamps`, `gen` |
| `Vamana` | `index/vamana.rs` | `graph` (store, links, entry, last, seeds), `visited` |
| `Hnsw` | `index/hnsw.rs` | `hnsw` (store, links, entry, max_level) |
| `IvfPq` | `index/ivfpq.rs` | `ivf` (store, centroids, lists, codes, books) |
| `VectorIndexes` | the three of them as `examples/bench_indexes.rs` uses them, each a specification of its own and here an instance with its own variables; and the theorems about them | `kind`: which one the program created |
| `MCCollection`, `MCDatabase`, `MCRetrieval`, `MCVectorIndexes` | the instances TLC checks | |
| `CollectionProofs` | theorems about `Collection`: types, files, ids, recovery, what callers see | |
| `DatabaseProofs` | theorems about `Database`: its files and objects, its jobs | |
| `SearchProofs` | what the operators of `Candidates` and `LayeredGraph` compute: folds, sums, orders, walks, the beam; links and entries | |
| `RetrievalProofs` | theorems about `Retrieval`, with `SketchHnsw` and `Selection` | |
| `VamanaProofs`, `HnswProofs`, `IvfPqProofs` | the inductive invariants of `Vamana`, `Hnsw` and `IvfPq`, which `VectorIndexes` instances with them | |

**Collection.** One action appends one WAL line or performs one file operation,
so that `Die` can fall between any two; what an operation does in memory
between two lines belongs to the action of the line. The operations that write
several lines are chains of actions under one lock:

- `remember`: `BeginRemember`, `CloseVersion` per live version of the subject,
  `CommitRemember`; `forget_subject`: `BeginForgetSubject`, `CloseVersion`,
  `EndForgetSubject`;
- `recall`: `BeginRecall` (any set of ids of `docs`, for a question about an
  earlier time may find closed ones), `Touch` per hit;
- `consolidate`: `BeginGroup` (any set of at least `MinCluster` eligible ids),
  `ArchiveMember` per member, `CommitSummary`, again for the next group or
  `EndConsolidate`, which leaves a checkpoint `due`;
- a checkpoint: `BeginCheckpoint` (or `BeginCheckpointKeepWal` and
  `RenameWal`), `WriteManifest`, `CleanupSegments`, `ResetWal`;
- `open`: `LoadSnapshot`, `ReplayLine`, `NextLog`, `FinishReplay`, `FinishOpen`;
  `LoadSnapshot` is impossible where the listed segment is not there. Half a line
  ends the replay of its file, also where it ends within a character of several
  bytes and the code fails (disagreements below).

Reads change nothing and have no action. The abstractions: a record is live or
not (no times); text, tags, sketches and scores are left out, and whatever the
code decides by them (which records are recalled, cold or expired) is any
choice that its remaining conditions allow; the temporary file and its rename
are one step. `ghosts` are history variables that no action reads.

**Database.** A collection is reduced to its set of rows, of which none is ever
deleted, and a checkpoint to the same four file operations. `OpenCollection` is
one step because `Db::open` holds the file lock and `create_collection` the
mutex of the map until the object is in it; an `open` that fails, and the lines
of an import whose collection has an invalid name (`db.rs:170-173`), which no
export writes, are left out. `backup_to`, `export_jsonl`,
`verify` and `import_jsonl` are one `job`, with any operations between its
steps: `SaveForJob` and the checkpoint it begins, then `CopyFile` file by file
(of names read at once, where `read_dir` is lazy: a job that misses a segment
listed later has a backup that does not open, or has not copied that manifest),
or `ReadManifest` and `ReadRows`; `ImportLine` per row, which skips an id that
is there, and `BadLine`, which ends an import half way. `verify` saves nothing
and goes on where the others return an error. A row is an id and the process
that wrote it, so that two rows of one id are told apart. `KeepHandles` says
whether a caller may keep a handle when the `Db` it came from is dropped.

**Retrieval.** Here an operation is one action, because it holds the mutex
throughout; `Collection` has what happens when it is cut in the middle. A
`recall` whose collection has reached `GRAPH_THRESHOLD` first builds index and
tail (action `Recall`); what it then selects from is a function of the state
and the question, the operator `Considered`: index and tail, or the full scan
when they lead to nothing or an overview sees no summary; the cold filter and
its fallback; the expansion through keywords. `EveryRecall` says something of
every question in every state. A text stands for itself, its sketch and its
words. Coldness and the time asked about are inputs of a question. Whatever
depends on idf, weights of keywords, the order of a `HashMap` or a tie is any
choice. The operator `Hits` selects of that: `Scores`, the best `CandPoolCap` by
score, then up to `k_max` rounds of `mmr_select`, each of which takes the best score less
the penalty for likeness among those that still fit. Equals come in any order,
so that each of these is a set of outcomes.

**SketchHnsw, Hnsw.** Layers, caps, the beam search, the greedy descent,
selection and pruning are translated loop by loop, with integers for distances;
what the two share is in `LayeredGraph`. The generator of levels has a fixed
seed, so that the levels an index draws are a constant sequence. Nothing is ever
removed from an index: dead records stay and `SketchHnsw` skips them in a
search. In `Hnsw` a vector has two distances, as Cosine has in the code: `dist`
between nodes divides by both norms, `dist_q` by that of the node alone, and one
insertion compares the two with each other.

**Vamana.** `Insert`, `Build` and `Search` are the operations of its one owner;
a search changes the stamps. `Build` folds insertion over the batch, refines
node by node and cuts back, in the order of the code, which is what decides
whether the links stay in step. Vectors are points on a line with squared
distances, so that the medoid is exact; the order of a batch and the seeds drawn
are any. The search is compared with a definition that has no search in it:
`Reachable`, the least set that contains the starts and is closed under links.

**IvfPq.** `TrainAndBuild` appends its rows and trains everything anew: k-means
for the lists, one k-means per part of the vector on what the centroids leave of
the rows, and a code per row. The length of a row is a constant of its own:
`SubDim` is the quotient of it and the number of parts, and the coordinates of
the remainder have no word and no term in the table. Rows are tuples of
integers, and means are rounded down to integers, where the code rounds to an
`f32`; so words are not always rows, and codes are lossy in the model as in the
code. What the generator draws is a constant sequence, of numbers below
`DrawBound`; 0 is not among them, as the seed is fixed and the first 300 000
draws hold none (a 0 would pick the first row even if it is a point already).
The second pick of k-means++ divides what it drew by 2^31 twice
(`ivfpq.rs:122,146`), so that it takes the first rows whose weights together
reach that small share of all, which mostly is the first row that is no centroid
yet, and not one drawn by its distance as the comment says (`126`): `Picked` has
what the code does. An index has at most the 4096 rows that are not sampled.

## Runs

| run | instance | shows |
|---|---|---|
| `maintenance` | `remember`, `forget`, `forget_subject`, `hard_delete`, `consolidate`, `compact`, `checkpoint`; 1 subject, 3 ids, death anywhere | types, ids never given out twice, recall sees one version of a subject, listed files exist, exact recovery up to what `compact` dropped, sources of live summaries kept, disjoint maps, complete subjects; and `Collection` implements `MemoryStore` |
| `keep_wal` | both checkpoints, an imported row, `consolidate`; death anywhere but between rename and manifest | the same with archived logs |
| `uninterrupted` | `recall` added; no death between manifest and truncation, nor inside a group | hits recovered, every archived memory has its summary, one live version, and (fairly) every lock is released |
| `torn` | a death may leave half a line | **violated** `RecoversExactly`, finding 1 |
| `rename_crash` | `checkpoint_keep_wal`, death anywhere | **violated** `RecoversExactly`, finding 2 |
| `hits_twice` | `checkpoint_keep_wal`, deaths only when idle | **violated** `HitsRecovered`, finding 3 |
| `database_jobs` | 2 processes, 2 collections, all four jobs, deaths anywhere | one object per collection, acknowledged rows always in the files, memory never overtaken, no id twice, copies complete, `verify` reports nothing that no checkpoint replaced, an import that returns has added its rows |
| `database_handles` | `KeepHandles` | **violated** `OneWriter`, finding 4 |
| `database_backup` | one collection, backup beside a checkpoint | **violated** `BackupOpens`, finding 5 |
| `retrieval` | every operation on 4 records, 3 texts, 2 words | the index can be walked, live records are in it once, a recall considers visible records only, once each, at least one, a live summary in an overview, after a full scan cold ones only as a last resort; what is selected begins with the best record that fits, keeps the budget, and leaves out only what no longer fits |
| `retrieval_cold` | as `retrieval` | **violated** `ColdFiltered`, finding 6 |
| `indexes` | Vamana: 4 nodes on a line, 2 links each, a generation counter of 2 values. HNSW: 6 nodes of 4 vectors, 3 layers, caps 2 and 4. IVF-PQ: 4 rows of 3 coordinates, of which 2 parts cover 2; 2 lists, 2 words, a shortlist of 2 | Vamana: links well formed through pruning and refinement; a wide search returns what links lead to, the passed-over starts excepted; any search returns something no farther than its starts. HNSW: the graph can be walked; a wide search returns what layer 0 leads to, and the first result is a local minimum. IVF-PQ: lists are a partition; a coded distance is that of the row the code stands for; no word is nearer, and few rows are coded exactly where parts reach; a search returns the nearest rows of the nearest lists by code or, reranked, by themselves, but for those the shortlist may cut |

Bounds. `MaxId` 3 (4 in `uninterrupted`) gives a group of two members and its
summary, or three versions of a subject; `MinCluster` is 2 for that reason.
`MaxLog` stops an operation from starting when the WAL has that many lines;
an operation that has started may go beyond it, so that every chain is
complete. `MaxSeg` 2 gives a segment that replaces another, which is where
cleanup and stale manifests matter; 1 is used where only the log over one
snapshot matters. `MaxDue` 1 leaves one checkpoint overdue. `MaxHits` 2 tells
one touch from two. In `Database`, two objects are enough for a second one of
the same collection or of another process, two segments for a job that meets a
replaced one, and one id for losing a row or, as an import and a `remember` both
want it, for giving it twice. In `Retrieval` the limits of the code are scaled
together with the instance: an index from 2 records on, of caps 1 and 2, one
candidate from the index and one from the tail, so that links are pruned at the
third node and every list overflows; a fourth record can then lie outside what
index and tail lead to, beside a summary and a record that was imported. At most
3 records are considered without a full scan, of which `CandPoolCap` 2 cuts one;
the texts cost 3, 1 and 1 tokens and the budgets are 2 and 4, so that a record
fits alone and not beside another. No text has more words than a record has
keywords, so that a record never leaves by other keywords than it came by
(`collection.rs:772`): that is left to the theorem, which is about any keywords.
`MaxAtOpen` only stops reopening with more
records, where the orders in which the index may be built again multiply.

In `Vamana` 2 links at 4 nodes prune and drop, and a counter up to 2 wraps
within a build, and between two searches as well. In `Hnsw` 6 nodes fill and
prune lists of 2 and 4 links, and the drawn levels put a later node above the
entry twice. In `IvfPq` 2 rows have a word each and 4 share them, the third
coordinate has none, and with a shortlist of 2 and one list probed a search
loses a nearer row to the cut: the disjunct of `SearchExact` that admits this is
needed, and a shortlist that is cut to `top_k` (a mutant) loses rows it does not
admit. How far a code is from its row is not bounded, as the repository states
no bound.

Every bound is a conjunct of a guard, and no property refers to one. Deadlock is
checked in every run but `indexes`: a process that reached a bound can still die
and begin again. The indexes only grow, and their owner has nothing left to do
when they are full.

Fairness. `FairSpec` asks weak fairness of `Step`, the steps of the holder of
the mutex (it is a running thread and waits for nobody), and of `Open`
(somebody opens the collection again after a death; nothing in it waits). New
operations and deaths are not fair.

## What the proofs show

`CollectionProofs.TypeCorrectness`: `TypeOK` is inductive, for any constants.

`CollectionProofs.FilesListed`: what the manifest lists is on disk. The
invariant must say what each place of a checkpoint has done: until the manifest
is written the old segment is still there and the new one exists, after it the
new one is listed, and cleanup keeps what is listed.

`CollectionProofs.IdsUnique`: no id is issued twice. It needs where an issued
id is remembered at each moment: in a Remember line of the WAL, or below the
`next_id` of the manifest, and in memory below `next_id`; and in `open`, that
every line still to be read counts too. It is proved where no line is torn
and, if `checkpoint_keep_wal` is used, no death falls between the rename of the
WAL and the manifest that lists it (`NoLostFile`): the lines of that file would be
lost, and their ids with them.

`CollectionProofs.RecoveryExact` is about `open`. Its invariant `Traced` follows
one id at a time: a trace is what each line of the log makes of the id's status
(in `docs`, in the archive, in neither), beginning with the row that the listed
segment holds. It ends in `Known`, what memory holds, or held when the process
died; in a replay, memory is where the trace stands. An id is touched by its own
lines only, so that nothing is computed by induction over the log: each step of
the system adds one line to the end of a trace, or empties the log when the
segment holds `Known`. The log is the listed files and `wal.jsonl`, one after
the other (`Joins`), and a file that is renamed and not listed yet counts as
well: so `checkpoint_keep_wal`, which moves all lines to another file, leaves
the log as it is, and `open` passes from one file to the next without passing a
line. Between the manifest and the new WAL, and from then on where the WAL is
kept, the whole log is replayed over a segment that already holds its result.
For that, `Settled` says where the log leads from each status that the row may
come to have later: if the log holds its Remember line, to the result again (a
row may for a while be in both maps), and otherwise nowhere else. From it follow
also `MapsAlwaysDisjoint` and, with what each line does to the index,
`IndexComplete`. They are proved under `Sound`:

- no torn line, and no death between the rename of the WAL by
  `checkpoint_keep_wal` and the manifest that lists it (`NoLostFile`): both break
  exact recovery in the code (findings 1 and 2);
- imports go with neither `hard_delete` nor `compact` (`NoReimport`). This is
  needed: an archived row is imported, deleted, and imported again under its id
  as a row of `docs`, for `import_row` refuses only an id that is there
  (`collection.rs:901`). After a checkpoint that dies before the new WAL, the
  first of the two lines puts the old row into the archive beside the new one.

`HitsAlwaysRecovered` follows the hits of an id in the same way. A Touch line is
not idempotent, so that it needs, instead of `NoReimport`, that no death falls
between the manifest and the new WAL (`NoOverlap`), as the run has it: a Touch
that is replayed over the segment that counts it counts twice (hazard at
`collection.rs:198`). For the same reason it is proved without
`checkpoint_keep_wal`, whose files are replayed so at every opening (finding 3).

`CollectionProofs.StoreImplemented`: `Collection` implements `MemoryStore`.
A step is of one of four kinds for what recovery would rebuild: it is `Quiet`,
`Applies` one line to one id, `Takes` what `compact` removes, or `Returns` some of
that, when `open` ends. Each kind is a step of the store or a stutter under the
mapping that `Collection` gives, for which `ShownAssumption` says that no row is
the value that stands for none. From the same kinds follow:

- `SourcesAlwaysKept`, where imported summaries name no sources
  (`ImportsNeedNothing`; `import_row` does not look for them). What `compact`
  takes is not needed by a live summary, and what returns of it needs nothing,
  for it takes no summary;
- `OneVersionAlwaysRecalled`, where live rows that are imported have no subject
  (`NoLiveImports`, see the hazard at `collection.rs:901`). A row that returns may be live only in
  the archive, which recall does not see, and `remember` closes all that
  `subjects` has, which is complete;
- `OneAlwaysLive`, the same for both maps, where `compact` is not called: an
  archived version that it took, and that a later `remember` could not see to
  close, comes back live with a death;
- `ArchivedAlwaysSummarised`, with no death within a group, and without imports,
  `hard_delete` and `compact` (`Undisturbed`), as in the run `uninterrupted`.

`DatabaseProofs`: `OneWriterAlways`, `AckedAlwaysKept` and
`MemoryAlwaysCurrent`, all from one invariant of three parts, under
`KeepHandles = FALSE`: types (`Typed`); every object is in the map of its
process, which then has the lock (`Owned`); and, for each place of a
checkpoint, what the files of its collection hold (`Durable`). Two objects of
one collection would be in one process, by the lock, and in one map under one
name; the files change only through the one object, whose rows are the
acknowledged ones. Without the assumption the first theorem is false, which is
run `database_handles`.

`IdsAlwaysUnique` needs the same invariant: an id that `remember` takes, and one
that `import_row` finds free, is compared with the rows of the object, and these
are the acknowledged ones only because no other object has added to them.
`TypeAlwaysOK` adds the job to the types (`JobTyped`): what it has left to read,
and the collection it is reading, have a directory, for directories are never
removed, and of the one it copies there is a copy begun.

For the jobs of `DatabaseProofs` there is besides what a job has in its hands while others run. The files
of a collection only move on (`Grows`): rows are added, and a segment that goes
was replaced by a listed one that holds more. The invariant `Fits` relates a job
to them and to `since`, the rows that were there when it began. What it has yet
to read holds them (`SourceOK`): in the listed segment once the job has saved the
collection, for a backup in every segment that is left. What it has copied holds
them and nothing that was never acknowledged (`CopyOK`), or the job has reported
the collection. What it reports missing was replaced by a later segment
(`Reported`). Of an import, every id whose line was passed has been given
(`Imported`). From it follow `CopiesAlwaysComplete`, `VerifyAlwaysHonest` and
`ImportsAlwaysComplete`, for any number of processes, collections, rows and
segments, again under `KeepHandles = FALSE`. A backup may still not open (finding 5): `CopyComplete` is
about those that do.

`SearchProofs` has what the operators compute that indexes and selection are
built from, and the other proofs only cite it. The prover cannot use the
induction theorems of its library, so that each of these is an induction by the
least counterexample: over a natural number (`Induct`), or over the number of
nodes a walk may still come to. A recursive function is a `CHOOSE` of a function
with some equation, and that there is one has to be proved, or nothing is known
of it: `FoldExists` (the folds of sequences), `FamilyExists` (any family of
functions that each depend on an earlier one), `WalkExists` (a walk that some
measure bounds), `SumExists` (a sum over a set, in whatever order). Then
`SortedIs` and `InOrderIs` say that the ranks of `Before` make a sorted list of
the same elements; `GreedyIs`, that the greedy walk ends where no link is
closer; `BeamIs`, that the beam finds something, at most `l` of them and none
twice, that links lead to; `WideBeamIs`, that one of at least as many places as
there are nodes finds exactly `Reachable`; `LocalBeamIs`, that no link of the
first result is closer than it.

`RetrievalProofs`: `HitsAlwaysVisibleOnce` and `OverviewAlwaysSeesSummary` need no
invariant: whatever index, tail and postings hold, the filters of `recall` see
to it, in the full scan, the cold fallback and the expansion alike. That holds
for every state and not only for the reachable ones, which is why the lazy
deletion from the index cannot hurt a recall. The others are about what the
index holds, with the inductive invariant `Inv`: the types (`State`); every known
id is below `next_id`; and, once there is an index, that it is `Kept`: well
built, with one node at most per id, with no id that was not issued, and with
every live record that has a token and did not come by an import or as a
summary. The first recall that builds the index folds over the live records in
any order, so that `Kept` is an invariant of this fold as well, with `due`, the
set that is still to be reached, growing. From `Inv` follow

- `TypesKept`, `IndexAlwaysSound` (links on their layer, within their caps, none
  twice; the entry on the top layer) and `LiveAlwaysFindable`;
- `ColdAlwaysLastResort`, for which the search of the index must be known to
  return only records that were visible: `BeamIs`, through the descent;
- `BudgetAlwaysUsed`. The hits are what is left of at most `k_max` rounds, each of
  which may be any of several, and the invariant of a round is `Picked`: what is
  spent is the sum of the costs of the hits, whatever order `FoldSeq` adds them
  in, and is within the budget, and the first hit is a best one that fits. A
  round that takes nothing leaves nothing that fits. It needs that a text has
  finitely many words (`RetrievalAssumption`), or likeness would not be a number.

`VectorIndexes` has its theorems at its end. A step of the program is a step of
one of its indexes, or leaves it as it is, so that the invariants of `Vamana`,
`Hnsw` and `IvfPq`, proved in modules of their own and cited through the
instances, become invariants of the whole (`VamanaKept`, `HnswKept`, `IvfKept`);
`IndexConstants`, which TLC evaluates, gives their assumptions.

- Vamana (`VamanaProofs.Inv`): the graph is `Sound`, that is, links lead to other
  nodes, none twice, and entry, seeds and last are nodes; it is `Bounded`, with
  `R` links at most at each node; and stamps are not ahead of the generation,
  those of a wrap apart (`StampsOK`). Refinement adds links back that it cuts only
  at the end of the build, so that within it only `Sound` holds and `Bounded`
  comes back with `Trim`. Hence `LinksAlwaysSound`; `SearchNeverWorse`; and
  `SearchAlwaysReaches`, which relates the search to `Reachable`. The last needs
  that a search begins with nothing visited unless it is `Stale` (`BeginIs`), and
  the exact set of nodes that are visited before the beam begins and are not in
  it (`InTurn`, `TurnIs`): these are never results.
- Hnsw (`HnswProofs.Built`): the layers of a node are as many as its level
  says, links are on their layer and within its cap, and the entry is on the
  top one. Hence `AlwaysWalkable` and `SearchAlwaysSound`, for any two measures of
  distance, that of an insertion and that of a search.
- IvfPq (`IvfPqProofs.Fitted`): each row is in the list of its nearest centroid,
  and its code names, part by part, a nearest word to what this centroid leaves
  of it. `Decoded` is the row a code stands for. `AdcAlwaysExact` then is an
  identity between the sum over all coordinates of the decoded row and the sums
  by parts that the table holds, a coordinate of the remainder adding to the
  distance of the centroid alone (`PlaceIs`, `L2Splits`, `DecodedIs`,
  `ScoredIs`). That codes are exact where parts reach is part of `Fitted` while
  there are no more rows than words, for which k-means must be followed: its
  seeds cover the rows, because each pick takes a row that is no point yet
  (`PickedIs`, `SeededIs`); and when each row is a point it is still one after
  the points move, because the rows nearest to it are all equal to it and their
  mean is (`MovedIs`, `KmeansIs`), a distance being zero for equal vectors alone.
  For `SearchAlwaysExact` the rows found are those of the probed lists, each
  once (`FirstsAre`, `AllHits`); what is left of them by the shortlist are as
  many as there are places, and none of them that so many others come before
  (`CutIs`, `MarkedIs`); and what is left by `top_k` are the nearest of those, by
  code or by themselves (`SelectedIs`, `RankedIs`). No divisibility is assumed.

The assumptions of the constants are named (`ConstantsAssumption`,
`ShownAssumption`, `DatabaseAssumption`, `CapsAssumption`, `IndexAssumption`,
`SelectionAssumption`, `RetrievalAssumption`, and `IndexConstants`, which
gathers those of the three vector indexes) and TLC evaluates them in every run
of their modules.

Only model-checked: `LockReleased`, a liveness property that needs fairness,
which is out of reach of the prover.

## Where code and documents disagree

1. `wal.rs:59-62` says only the last line of a WAL can be torn. `open_append`
   keeps the torn line and continues it; the recovery after the next one stops
   there, and what was acknowledged in between is lost.
2. `collection.rs:836-837`: `checkpoint_keep_wal` renames the WAL before the
   manifest lists it; a death in between loses the log.
3. `docs/ENGR-1.md:60`: a touch is one hit. The archived WAL is replayed over a
   snapshot that already has its hits.
4. `lock.rs:3-5`: the lock is to keep two processes out of one directory.
   Collections outlive the `Db` that holds it.
5. `db.rs:91-94`: a backup blocks writers. It holds no lock while it copies.
6. `db/tests/memory_ops.rs:39`: cold records are filtered by default. With an
   index only the classified ones are (`collection.rs:487-494`), and the
   expansion adds others.

Further disagreements were met and have no run of their own. A torn line is to be
skipped "instead of failing the whole open" (`wal.rs:59-62`), but one that ends
within a character of several bytes is no UTF-8, and `line?` (`71`) makes `open`
fail. `consolidate` is to make a summary and then archive the members
(`README.md:81`), but it archives them first (`collection.rs:770-787`), and a death
in between leaves them without one: `ArchivedHasSummary` is checked and proved
where no death falls inside a group, and is false elsewhere. Between
the removal of records by `compact` and its checkpoint a death, or a `remember`
in between, brings them back (`1024-1030`, visible in the exemptions `purged`
and `unsettled`); an import may give a subject a second live version
(`896-943`), and one that gives a deleted id to a row of the other map leaves both
rows when the log is replayed over its own checkpoint (`NoReimport`, below
`Sound`). In retrieval: `import_row` and `consolidate` do not insert into an
index that exists (`bypassed` in `Findable`), so that outside an overview a
fresh summary may not be considered, where `db/tests/memory_ops.rs:88` says that it
is recallable; the index is built from live records, so that a version closed
before is not found by an `as_of` question that the index answers
(`README.md:80`); many equal sketches may prune one another out of reach; and
`open` counts the records of the snapshot into document frequencies that the
manifest already has (`267-270`), so that they grow at each open.

In `Vamana`: refinement takes the link back from a node it drops
(`vamana.rs:294-299`), which may be the only link of that node, so that a built
index can hold a vector no search returns (one point, then a batch of three
equal ones, with 2 links a node); `examples/debug_graph.rs:56` counts such nodes.
Entries and seeds other than the closest are never results (`106-108`,
`PassedOver`), however near. `VisitedStamps` takes unvisited nodes for visited
ones in the last search before its counter wraps again (`index/mod.rs:77-80`,
`Stale`). For `Metric::Dot` the search orders by `metric.raw`, which is the dot
product, and the pruning by its negation (`62-71`, `90`): it looks for the least
similar vectors.

In `IvfPq`: the comment of `adc_table_for` (`ivfpq.rs:91-92`) says that base and
table add up to the distance of the query from the coded row, and `PQ::new`
(`33-35`) does not look whether the parts cover a row: with 10 coordinates and 4
parts the last two are never coded, and a search without reranking does not see
them beyond the centroid, however few rows there are (`AdcExact` speaks of
`Decoded`, which has the centroid there). Reranking under `Metric::Dot` sorts the dot product upwards
(`ivfpq.rs:396-399`), which puts the least similar first. `train_and_build` of
an empty index leaves centroids of one coordinate that a later search slices
beyond their end (`98`, `124`). The `ncentroids` of `IvfPq::new` is not used
(`290-301`). In `Hnsw`: the exponential in `next_level` (`hnsw.rs:56`) undoes the
logarithm, so that high levels are far more frequent than the levels of HNSW;
`prune_links` (`142-154`) can leave a node without a link to it, which a search
then does not find. In `recall`: the texts that `expand_summaries` adds to a hit
(`collection.rs:568-582`) are not counted in the budget that the hits keep.

## Not modelled, and the plan

Not modelled, because they have no control of their own or are floating point:
SIMD and GPU kernels, scalar quantization, tokenizer, encoder, sparse vectors
and sketches, HTTP and language bindings. Of the modelled parts these are left
out: `restore_from`, `Db::compact` and `checkpoint_all_keep_wal`, which are loops
over what `Collection` has or use a directory nobody else uses; times, and with
them the lookback of `as_of` to versions closed at different times; document
frequencies; sampling of large inputs in `IvfPq`; metrics other than L2 in
`Vamana` and `IvfPq`; and that a job ends, which needs that checkpoints beside
it end and writers pause.

Planned, in this order:

1. A failing write that does not end the process, in `Collection`: it leaves
   bytes in the buffer (`wal.rs:43`) that the next append writes before its own.
2. Times of versions in `Retrieval`, for the lookback of `as_of`.
