--------------------------- MODULE DatabaseProofs ---------------------------
(***************************************************************************)
(* For any number of processes and collections: when handles are dropped   *)
(* before the Db they came from, no directory ever has two writers, and    *)
(* every acknowledged row is always in the files.                          *)
(***************************************************************************)
EXTENDS Database, FiniteSetTheorems, TLAPS

(* The types that the invariants below need: all but those of the job.     *)
Typed ==
    /\ lock \in Procs \cup {Absent}
    /\ dbs \in [Procs -> {"closed", "opening", "open", "closing"}]
    /\ cols \in [Procs -> [Cols -> Objs \cup {Absent}]]
    /\ handles \in [Procs -> SUBSET Objs]
    /\ objs \in [Objs -> Object \cup {Absent}]
    /\ disk \in [Cols -> Dir \cup {Absent}]
    /\ acked \in [Cols -> SUBSET Row]

(* Who has the Db open has the lock; an object belongs to a Db that is     *)
(* open, is the one in its map, and is in no map twice.                    *)
Owned ==
    /\ \A p \in Procs : dbs[p] # "closed" => lock = p
    /\ \A p \in Procs : dbs[p] \notin {"opening", "open"} => InMap(p) = {} /\ handles[p] = {}
    /\ \A p \in Procs : handles[p] \subseteq InMap(p)
    /\ \A p \in Procs, c \in Cols : cols[p][c] # Absent
          => objs[cols[p][c]] # Absent /\ objs[cols[p][c]].proc = p /\ objs[cols[p][c]].col = c
    /\ \A o \in Live : cols[objs[o].proc][objs[o].col] = o

(* A collection that has a directory holds in its files what was           *)
(* acknowledged, and so does the memory of its object; seg_seq says how    *)
(* far a checkpoint is.                                                    *)
Durable ==
    /\ \A c \in Cols : disk[c] = Absent => acked[c] = {}
    /\ \A c \in Cols : disk[c] # Absent => Readable(disk[c]) /\ Recovered(disk[c]) = acked[c]
    /\ \A o \in Live :
         LET d == disk[objs[o].col] IN
         /\ d # Absent
         /\ objs[o].rows = acked[objs[o].col]
         /\ objs[o].seg_seq = IF objs[o].pc = "manifest" THEN d.listed + 1 ELSE d.listed
         /\ objs[o].pc # "idle" => /\ objs[o].seg_seq # 0
                                   /\ d.segs[objs[o].seg_seq] = objs[o].rows

LEMMA InitOwned == Init => Typed /\ Owned /\ Durable
<1> SUFFICES ASSUME Init PROVE Typed /\ Owned /\ Durable
  OBVIOUS
<1> USE DEF Init
<1>1. Typed
  BY DEF Typed
<1>2. Live = {} /\ \A p \in Procs : InMap(p) = {}
  BY DEF Live, InMap
<1>3. Owned
  BY <1>2 DEF Owned
<1>4. Durable
  BY <1>2 DEF Durable
<1> QED
  BY <1>1, <1>3, <1>4

Inv == Typed /\ Owned /\ Durable

(* What the jobs read and remember disturbs nothing.                       *)
LEMMA Quiet ==
  ASSUME Inv, UNCHANGED <<lock, dbs, cols, handles, objs, disk, acked>>
  PROVE  Inv'
<1>1. Typed'
  BY DEF Inv, Typed
<1>2. Live' = Live /\ \A p \in Procs : InMap(p)' = InMap(p)
  BY DEF Live, InMap
<1>3. Owned'
  BY <1>2 DEF Inv, Owned
<1>4. Durable'
  BY <1>2 DEF Inv, Durable, Readable, Recovered, Listed
<1> QED
  BY <1>1, <1>3, <1>4 DEF Inv

(* An object that is live, and what the type of its fields says of it.     *)
LEMMA LiveTyped ==
  ASSUME Typed, NEW o \in Live
  PROVE  /\ o \in Objs /\ objs[o] \in Object
         /\ objs[o].proc \in Procs /\ objs[o].col \in Cols
         /\ objs[o].seg_seq \in 0 .. MaxSeg /\ objs[o].rows \in SUBSET Row
BY DEF Typed, Live, Object

(* A process has the lock while it has an object in memory.                *)
LEMMA ObjectUnderLock ==
  ASSUME Inv, NEW o \in Live
  PROVE  lock = objs[o].proc
<1>1. /\ o = cols[objs[o].proc][objs[o].col] /\ o # Absent
      /\ objs[o].proc \in Procs /\ objs[o].col \in Cols
  BY LiveTyped, DatabaseAssumption DEF Inv, Owned, Live
<1>2. InMap(objs[o].proc) # {}
  BY <1>1 DEF InMap
<1> QED
  BY <1>1, <1>2 DEF Inv, Owned

LEMMA LockSteps ==
  ASSUME Inv, NEW p \in Procs, AcquireLock(p) \/ FinishOpen(p) \/ Unlock(p)
  PROVE  Inv'
<1> USE DatabaseAssumption DEF AcquireLock, FinishOpen, Unlock
<1>1. Typed'
  BY DEF Inv, Typed
<1>2. UNCHANGED <<cols, handles, objs, disk, acked>>
  OBVIOUS
<1>3. Owned'
  <2>1. \A q \in Procs : dbs'[q] # "closed" => lock' = q
    BY DEF Inv, Typed, Owned
  <2>2. \A q \in Procs : InMap(q)' = InMap(q)
    BY <1>2 DEF InMap
  <2>3. \A q \in Procs : dbs'[q] \notin {"opening", "open"}
                            => dbs[q] \notin {"opening", "open"}
    BY DEF Inv, Typed
  <2>4. Live' = Live
    BY <1>2 DEF Live
  <2> QED
    BY <1>2, <2>1, <2>2, <2>3, <2>4 DEF Inv, Owned
<1>4. Durable'
  BY <1>2 DEF Inv, Durable, Live, Readable, Recovered, Listed
<1> QED
  BY <1>1, <1>3, <1>4 DEF Inv

LEMMA TakeHandleStep ==
  ASSUME Inv, NEW p \in Procs, NEW o \in Objs, TakeHandle(p, o)
  PROVE  Inv'
<1> USE DEF TakeHandle
<1>1. Typed'
  BY DEF Inv, Typed
<1>2. UNCHANGED <<lock, dbs, cols, objs, disk, acked>>
  OBVIOUS
<1>3. \A q \in Procs : InMap(q)' = InMap(q)
  BY <1>2 DEF InMap
<1>4. Live' = Live
  BY <1>2 DEF Live
<1>5. \A q \in Procs : handles'[q] = IF q = p THEN handles[q] \cup {o} ELSE handles[q]
  BY DEF Inv, Typed
<1>6. Owned'
  <2>1. \A q \in Procs : handles'[q] \subseteq InMap(q)'
    BY <1>3, <1>5 DEF Inv, Owned
  <2>2. \A q \in Procs : dbs'[q] \notin {"opening", "open"} => InMap(q)' = {} /\ handles'[q] = {}
    BY <1>2, <1>3, <1>5 DEF Inv, Owned
  <2> QED
    BY <1>2, <1>4, <2>1, <2>2 DEF Inv, Owned
<1>7. Durable'
  BY <1>2 DEF Inv, Durable, Live, Readable, Recovered, Listed
<1> QED
  BY <1>1, <1>6, <1>7 DEF Inv

LEMMA DropHandleStep ==
  ASSUME Inv, NEW p \in Procs, NEW o \in Objs, DropHandle(p, o)
  PROVE  Inv'
<1> USE DEF DropHandle
<1>1. UNCHANGED <<lock, dbs, cols, disk, acked>>
  OBVIOUS
<1>2. o \in InMap(p)
  BY DEF Inv, Owned
<1>3. objs' = objs
  BY <1>2 DEF Dropped, Inv, Typed
<1>4. Typed'
  BY <1>3 DEF Inv, Typed
<1>5. \A q \in Procs : InMap(q)' = InMap(q)
  BY <1>1 DEF InMap
<1>6. Live' = Live
  BY <1>3 DEF Live
<1>7. \A q \in Procs : handles'[q] \subseteq handles[q]
  BY DEF Inv, Typed
<1>8. Owned'
  <2>1. \A q \in Procs : handles'[q] \subseteq InMap(q)'
    BY <1>5, <1>7 DEF Inv, Owned
  <2>2. \A q \in Procs : dbs'[q] \notin {"opening", "open"} => InMap(q)' = {} /\ handles'[q] = {}
    BY <1>1, <1>5, <1>7 DEF Inv, Owned
  <2> HIDE DEF DropHandle
  <2> QED
    BY <1>1, <1>3, <1>6, <2>1, <2>2 DEF Inv, Owned
<1>9. Durable'
  BY <1>1, <1>3 DEF Inv, Durable, Live, Readable, Recovered, Listed
<1> QED
  BY <1>4, <1>8, <1>9 DEF Inv

(* The objects of p leave memory with its map: by DropMap and Die.         *)
LEMMA MapDropped ==
  ASSUME Inv, NEW p \in Procs,
         cols' = [cols EXCEPT ![p] = [c \in Cols |-> Absent]],
         handles' \in [Procs -> SUBSET Objs], handles'[p] = {},
         \A q \in Procs \ {p} : handles'[q] = handles[q],
         objs' = Without(p),
         dbs' \in [Procs -> {"closed", "opening", "open", "closing"}],
         \A q \in Procs \ {p} : dbs'[q] = dbs[q],
         lock' \in Procs \cup {Absent},
         \A q \in Procs : dbs'[q] # "closed" => lock' = q,
         UNCHANGED <<disk, acked>>
  PROVE  Inv'
<1> USE DatabaseAssumption
<1>1. Typed'
  BY DEF Inv, Typed, Without
<1>2. \A q \in Procs : InMap(q)' = IF q = p THEN {} ELSE InMap(q)
  BY DEF Inv, Typed, InMap
<1>3. \A o \in Objs : objs'[o] = IF objs[o] # Absent /\ objs[o].proc = p THEN Absent ELSE objs[o]
  BY DEF Without
<1>4. Live' = {o \in Live : objs[o].proc # p}
  BY <1>3 DEF Live
<1>5. Owned'
  <2>2. \A q \in Procs : dbs'[q] \notin {"opening", "open"} => InMap(q)' = {} /\ handles'[q] = {}
    BY <1>2 DEF Inv, Owned
  <2>3. \A q \in Procs : handles'[q] \subseteq InMap(q)'
    BY <1>2 DEF Inv, Owned
  <2>4. \A q \in Procs, c \in Cols : cols'[q][c] = IF q = p THEN Absent ELSE cols[q][c]
    BY DEF Inv, Typed
  <2>5. ASSUME NEW q \in Procs, NEW c \in Cols, cols'[q][c] # Absent
        PROVE  /\ objs'[cols'[q][c]] # Absent
               /\ objs'[cols'[q][c]].proc = q /\ objs'[cols'[q][c]].col = c
    <3>1. q # p /\ cols'[q][c] = cols[q][c] /\ cols[q][c] \in Objs
      BY <2>4, <2>5 DEF Inv, Typed
    <3> QED
      BY <1>3, <2>5, <3>1 DEF Inv, Owned
  <2>6. ASSUME NEW o \in Live'
        PROVE  cols'[objs'[o].proc][objs'[o].col] = o
    <3>1. o \in Live /\ objs'[o] = objs[o] /\ objs[o].proc # p
      BY <1>3, <1>4, <2>6 DEF Live
    <3>2. objs[o].proc \in Procs /\ objs[o].col \in Cols
      BY <3>1, LiveTyped DEF Inv
    <3> QED
      BY <2>4, <3>1, <3>2 DEF Inv, Owned
  <2> QED
    BY <2>2, <2>3, <2>5, <2>6 DEF Owned
<1>6. Durable'
  <2>1. \A o \in Live' : o \in Live /\ objs'[o] = objs[o]
    BY <1>3, <1>4 DEF Live
  <2> QED
    BY <2>1 DEF Inv, Durable, Readable, Recovered, Listed
<1> QED
  BY <1>1, <1>5, <1>6 DEF Inv

LEMMA DropMapStep ==
  ASSUME KeepHandles = FALSE, Inv, NEW p \in Procs, DropMap(p)
  PROVE  Inv'
<1> USE DEF DropMap
<1>1. handles[p] = {}
  OBVIOUS
<1>2. \A o \in Objs : objs[o] # Absent /\ objs[o].proc = p <=> o \in InMap(p)
  <2>1. ASSUME NEW o \in Objs, objs[o] # Absent, objs[o].proc = p
        PROVE  o \in InMap(p)
    <3>1. o \in Live
      BY <2>1 DEF Live
    <3>2. cols[p][objs[o].col] = o /\ objs[o].col \in Cols
      BY <2>1, <3>1, LiveTyped DEF Inv, Owned
    <3> QED
      BY <3>2, DatabaseAssumption DEF InMap
  <2>2. ASSUME NEW o \in InMap(p)
        PROVE  objs[o] # Absent /\ objs[o].proc = p
    BY <2>2 DEF InMap, Inv, Owned
  <2> QED
    BY <2>1, <2>2
<1>3. objs' = Without(p)
  BY <1>1, <1>2 DEF Dropped, Without
<1>4. /\ dbs' \in [Procs -> {"closed", "opening", "open", "closing"}]
      /\ \A q \in Procs \ {p} : dbs'[q] = dbs[q]
  BY DEF Inv, Typed
<1>5. handles' \in [Procs -> SUBSET Objs] /\ handles'[p] = {}
  BY <1>1 DEF Inv, Typed
<1>6. lock' \in Procs \cup {Absent} /\ \A q \in Procs : dbs'[q] # "closed" => lock' = q
  BY DEF Inv, Typed, Owned
<1>7. /\ \A q \in Procs \ {p} : handles'[q] = handles[q]
      /\ cols' = [cols EXCEPT ![p] = [c \in Cols |-> Absent]]
      /\ UNCHANGED <<disk, acked>>
  OBVIOUS
<1> HIDE DEF DropMap
<1> QED
  BY <1>3, <1>4, <1>5, <1>6, <1>7, MapDropped

LEMMA DieStep ==
  ASSUME Inv, NEW p \in Procs, Die(p)
  PROVE  Inv'
<1> USE DEF Die
<1>1. /\ dbs' \in [Procs -> {"closed", "opening", "open", "closing"}]
      /\ dbs'[p] = "closed"
      /\ \A q \in Procs \ {p} : dbs'[q] = dbs[q]
  BY DEF Inv, Typed
<1>2. /\ handles' \in [Procs -> SUBSET Objs] /\ handles'[p] = {}
      /\ \A q \in Procs \ {p} : handles'[q] = handles[q]
  BY DEF Inv, Typed
<1>3. lock' \in Procs \cup {Absent} /\ \A q \in Procs : dbs'[q] # "closed" => lock' = q
  BY <1>1, DatabaseAssumption DEF Inv, Typed, Owned
<1> QED
  BY <1>1, <1>2, <1>3, MapDropped

(* The object that open_collection makes is the only one of its directory: *)
(* its process has the lock, and had none for that name.                   *)
LEMMA OpenCollectionStep ==
  ASSUME Inv, NEW p \in Procs, NEW c \in Cols, NEW o \in Objs, OpenCollection(p, c, o)
  PROVE  Inv'
<1> DEFINE d   == IF disk[c] = Absent THEN NoDir ELSE disk[c]
           new == [proc |-> p, col |-> c, rows |-> Recovered(d), seg_seq |-> d.listed,
                   pc |-> "idle", for_job |-> FALSE]
<1> USE DatabaseAssumption
<1>1. /\ cols[p][c] = Absent /\ o \notin Live /\ Readable(d)
      /\ dbs[p] \in {"opening", "open"}
      /\ cols' = [cols EXCEPT ![p][c] = o]
      /\ objs' = [objs EXCEPT ![o] = new]
      /\ disk' = [disk EXCEPT ![c] = d]
      /\ UNCHANGED <<lock, dbs, handles, acked>>
  BY DEF OpenCollection
<1>2. NoDir \in Dir /\ d \in Dir
  <2>1. NoDir \in Dir
    BY DEF NoDir, Dir
  <2> QED
    BY <2>1 DEF Inv, Typed
<1>3. Recovered(d) = acked[c] /\ Recovered(d) \in SUBSET Row
  <2>1. CASE disk[c] = Absent
    BY <2>1 DEF Inv, Durable, Typed, NoDir, Recovered, Listed
  <2>2. CASE disk[c] # Absent
    BY <2>2 DEF Inv, Durable, Typed
  <2> QED
    BY <2>1, <2>2
<1>4. d.listed \in 0 .. MaxSeg
  BY <1>2 DEF Dir
<1>5. new \in Object
  BY <1>3, <1>4 DEF Object
<1> HIDE DEF d
<1>6. /\ \A q \in Procs, k \in Cols : cols'[q][k] = IF q = p /\ k = c THEN o ELSE cols[q][k]
      /\ \A q \in Objs : objs'[q] = IF q = o THEN new ELSE objs[q]
      /\ \A k \in Cols : disk'[k] = IF k = c THEN d ELSE disk[k]
  BY <1>1 DEF Inv, Typed
<1>7. new # Absent /\ new.proc = p /\ new.col = c /\ new.rows = acked[c]
      /\ new.seg_seq = d.listed /\ new.pc = "idle"
  BY <1>3, <1>5
<1>8. Typed'
  <2>1. cols' \in [Procs -> [Cols -> Objs \cup {Absent}]]
    BY <1>1 DEF Inv, Typed
  <2>2. objs' \in [Objs -> Object \cup {Absent}] /\ disk' \in [Cols -> Dir \cup {Absent}]
    BY <1>1, <1>2, <1>5 DEF Inv, Typed
  <2> QED
    BY <1>1, <2>1, <2>2 DEF Inv, Typed
<1> HIDE DEF new
<1>9. Live' = Live \cup {o}
  BY <1>6, <1>7 DEF Live
<1>10. Owned'
  <2>1. lock = p
    BY <1>1 DEF Inv, Owned, Typed
  <2>2. \A q \in Procs : InMap(q)' = IF q = p THEN InMap(q) \cup {o} ELSE InMap(q)
    BY <1>1, <1>6 DEF InMap
  <2>3. /\ \A q \in Procs : dbs'[q] # "closed" => lock' = q
        /\ \A q \in Procs : dbs'[q] \notin {"opening", "open"} => InMap(q)' = {} /\ handles'[q] = {}
        /\ \A q \in Procs : handles'[q] \subseteq InMap(q)'
    BY <1>1, <2>2 DEF Inv, Owned
  <2>4. ASSUME NEW q \in Procs, NEW k \in Cols, cols'[q][k] # Absent
        PROVE  /\ objs'[cols'[q][k]] # Absent
               /\ objs'[cols'[q][k]].proc = q /\ objs'[cols'[q][k]].col = k
    <3>1. CASE q = p /\ k = c
      BY <1>6, <1>7, <3>1
    <3>2. CASE ~(q = p /\ k = c)
      <4>1. /\ cols'[q][k] = cols[q][k] /\ cols[q][k] \in Objs
            /\ objs[cols[q][k]] # Absent /\ objs[cols[q][k]].proc = q /\ objs[cols[q][k]].col = k
        BY <1>6, <2>4, <3>2 DEF Inv, Owned, Typed
      <4>2. cols[q][k] # o
        BY <1>1, <4>1 DEF Live
      <4> QED
        BY <1>6, <4>1, <4>2
    <3> QED
      BY <3>1, <3>2
  <2>5. ASSUME NEW q \in Live'
        PROVE  cols'[objs'[q].proc][objs'[q].col] = q
    <3>1. CASE q = o
      BY <1>6, <1>7, <3>1
    <3>2. CASE q # o
      <4>1. /\ q \in Live /\ objs'[q] = objs[q] /\ objs[q].proc \in Procs /\ objs[q].col \in Cols
            /\ cols[objs[q].proc][objs[q].col] = q
        <5>1. q \in Live
          BY <1>9, <2>5, <3>2
        <5> QED
          BY <1>6, <3>2, <5>1, LiveTyped DEF Inv, Owned
      <4>2. ~(objs[q].proc = p /\ objs[q].col = c)
        BY <1>1, <4>1 DEF Live
      <4> QED
        BY <1>6, <4>1, <4>2
    <3> QED
      BY <3>1, <3>2
  <2> QED
    BY <2>3, <2>4, <2>5 DEF Owned
<1>11. Durable'
  <2>1. d # Absent /\ (disk[c] # Absent => d = disk[c])
    BY <1>2 DEF d
  <2>2. \A k \in Cols : disk'[k] = Absent => acked'[k] = {}
    BY <1>1, <1>6, <2>1 DEF Inv, Durable
  <2>3. \A k \in Cols : disk'[k] # Absent => Readable(disk'[k]) /\ Recovered(disk'[k]) = acked'[k]
    BY <1>1, <1>3, <1>6 DEF Inv, Durable
  <2>4. ASSUME NEW q \in Live'
        PROVE  LET dq == disk'[objs'[q].col] IN
               /\ dq # Absent
               /\ objs'[q].rows = acked'[objs'[q].col]
               /\ objs'[q].seg_seq = IF objs'[q].pc = "manifest" THEN dq.listed + 1 ELSE dq.listed
               /\ objs'[q].pc # "idle" => /\ objs'[q].seg_seq # 0
                                          /\ dq.segs[objs'[q].seg_seq] = objs'[q].rows
    <3>1. CASE q = o
      BY <1>1, <1>6, <1>7, <2>1, <3>1
    <3>2. CASE q # o
      <4>1. q \in Live
        BY <1>9, <2>4, <3>2
      <4>2. objs'[q] = objs[q] /\ objs[q].col \in Cols /\ disk[objs[q].col] # Absent
        BY <1>6, <3>2, <4>1, LiveTyped DEF Inv, Durable
      <4>3. disk'[objs[q].col] = disk[objs[q].col]
        BY <1>6, <2>1, <4>2
      <4> QED
        BY <1>1, <4>1, <4>2, <4>3 DEF Inv, Durable
    <3> QED
      BY <3>1, <3>2
  <2> QED
    BY <2>2, <2>3, <2>4 DEF Durable, Readable, Recovered, Listed
<1> QED
  BY <1>8, <1>10, <1>11 DEF Inv

(* A step of one object on its own directory.                              *)
LEMMA ObjectStep ==
  ASSUME Inv, NEW o \in Live, NEW new \in Object, NEW d \in Dir, NEW rows \in SUBSET Row,
         new.proc = objs[o].proc, new.col = objs[o].col, new.rows = rows,
         new.seg_seq = IF new.pc = "manifest" THEN d.listed + 1 ELSE d.listed,
         new.pc # "idle" => new.seg_seq # 0 /\ d.segs[new.seg_seq] = rows,
         Readable(d), Recovered(d) = rows,
         objs' = [objs EXCEPT ![o] = new],
         disk' = [disk EXCEPT ![objs[o].col] = d],
         acked' = [acked EXCEPT ![objs[o].col] = rows],
         UNCHANGED <<lock, dbs, cols, handles>>
  PROVE  Inv'
<1> USE DatabaseAssumption
<1>1. o \in Objs /\ objs[o] # Absent /\ objs[o].proc \in Procs /\ objs[o].col \in Cols
  BY LiveTyped DEF Inv, Live
<1>2. /\ \A q \in Objs : objs'[q] = IF q = o THEN new ELSE objs[q]
      /\ \A k \in Cols : disk'[k] = IF k = objs[o].col THEN d ELSE disk[k]
      /\ \A k \in Cols : acked'[k] = IF k = objs[o].col THEN rows ELSE acked[k]
  BY <1>1 DEF Inv, Typed
<1>3. new # Absent /\ d # Absent
  OBVIOUS
<1>4. Typed'
  BY DEF Inv, Typed
<1>5. Live' = Live
  BY <1>1, <1>2, <1>3 DEF Live
<1>6. \A q \in Procs : InMap(q)' = InMap(q)
  BY DEF InMap
<1>7. \A q \in Live : q \in Objs /\ objs'[q].proc = objs[q].proc /\ objs'[q].col = objs[q].col
  BY <1>2, LiveTyped DEF Inv
<1>8. Owned'
  <2>1. ASSUME NEW q \in Procs, NEW k \in Cols, cols'[q][k] # Absent
        PROVE  /\ objs'[cols'[q][k]] # Absent
               /\ objs'[cols'[q][k]].proc = q /\ objs'[cols'[q][k]].col = k
    <3>1. /\ cols'[q][k] = cols[q][k] /\ cols[q][k] \in Objs
          /\ objs[cols[q][k]] # Absent /\ objs[cols[q][k]].proc = q /\ objs[cols[q][k]].col = k
      BY <2>1 DEF Inv, Owned, Typed
    <3>2. cols[q][k] \in Live
      BY <3>1 DEF Live
    <3> QED
      BY <1>2, <1>3, <1>7, <3>1, <3>2
  <2>2. \A q \in Live' : cols'[objs'[q].proc][objs'[q].col] = q
    BY <1>5, <1>7 DEF Inv, Owned
  <2>3. /\ \A q \in Procs : dbs'[q] # "closed" => lock' = q
        /\ \A q \in Procs : dbs'[q] \notin {"opening", "open"} => InMap(q)' = {} /\ handles'[q] = {}
        /\ \A q \in Procs : handles'[q] \subseteq InMap(q)'
    BY <1>6 DEF Inv, Owned
  <2> QED
    BY <2>1, <2>2, <2>3 DEF Owned
<1>9. Durable'
  <2>1. \A k \in Cols : disk'[k] = Absent => acked'[k] = {}
    BY <1>2, <1>3 DEF Inv, Durable
  <2>2. \A k \in Cols : disk'[k] # Absent => Readable(disk'[k]) /\ Recovered(disk'[k]) = acked'[k]
    BY <1>2 DEF Inv, Durable
  <2>3. ASSUME NEW q \in Live'
        PROVE  LET dq == disk'[objs'[q].col] IN
               /\ dq # Absent
               /\ objs'[q].rows = acked'[objs'[q].col]
               /\ objs'[q].seg_seq = IF objs'[q].pc = "manifest" THEN dq.listed + 1 ELSE dq.listed
               /\ objs'[q].pc # "idle" => /\ objs'[q].seg_seq # 0
                                          /\ dq.segs[objs'[q].seg_seq] = objs'[q].rows
    <3>1. CASE q = o
      BY <1>1, <1>2, <1>3, <3>1
    <3>2. CASE q # o
      <4>1. q \in Live /\ q \in Objs /\ objs[q].col \in Cols /\ objs[q].proc \in Procs
        BY <1>5, <2>3, LiveTyped DEF Inv
      <4>2. objs[q].col # objs[o].col
        <5>1. objs[q].proc = objs[o].proc
          BY <4>1, ObjectUnderLock
        <5> QED
          BY <3>2, <4>1, <5>1 DEF Inv, Owned
      <4> QED
        BY <1>2, <3>2, <4>1, <4>2 DEF Inv, Durable
    <3> QED
      BY <3>1, <3>2
  <2> QED
    BY <2>1, <2>2, <2>3 DEF Durable, Readable, Recovered, Listed
<1> QED
  BY <1>4, <1>8, <1>9 DEF Inv

(* A row that is added, by remember or by an import.                       *)
LEMMA AddRowStep ==
  ASSUME Inv, NEW o \in Live, NEW r \in Row, objs[o].pc = "idle", AddRow(o, r)
  PROVE  Inv'
<1> DEFINE c   == objs[o].col
           new == [objs[o] EXCEPT !.rows = @ \cup {r}]
           d   == [disk[c] EXCEPT !.wal = @ \cup {r}]
<1> USE DatabaseAssumption
<1>2. /\ objs[o] \in Object /\ objs[o].rows \in SUBSET Row
      /\ c \in Cols /\ disk[c] \in Dir /\ Readable(disk[c]) /\ Recovered(disk[c]) = acked[c]
      /\ objs[o].rows = acked[c] /\ objs[o].seg_seq = disk[c].listed
  BY LiveTyped DEF Inv, Durable, Typed
<1>4. /\ objs' = [objs EXCEPT ![o] = new] /\ disk' = [disk EXCEPT ![c] = d]
      /\ acked' = [acked EXCEPT ![c] = acked[c] \cup {r}]
      /\ UNCHANGED <<lock, dbs, cols, handles>>
  BY <1>2 DEF AddRow
<1>5. new \in Object /\ d \in Dir /\ acked[c] \cup {r} \in SUBSET Row
  BY <1>2 DEF Object, Dir
<1>6. /\ new.proc = objs[o].proc /\ new.col = objs[o].col /\ new.rows = acked[c] \cup {r}
      /\ new.pc = "idle" /\ new.seg_seq = d.listed
  BY <1>2 DEF Object, Dir
<1>7. Readable(d) /\ Recovered(d) = acked[c] \cup {r}
  BY <1>2 DEF Readable, Recovered, Listed, Dir
<1> HIDE DEF new, d
<1> QED
  BY <1>4, <1>5, <1>6, <1>7, ObjectStep

LEMMA RememberStep ==
  ASSUME Inv, NEW p \in Procs, NEW o \in Objs, Remember(p, o)
  PROVE  Inv'
<1>1. o \in Live /\ objs[o].pc = "idle"
  BY DEF Remember, Inv, Typed, Owned, InMap, Live
<1>2. PICK id \in NextId(o) : AddRow(o, [id |-> id, by |-> p])
  BY DEF Remember
<1>3. [id |-> id, by |-> p] \in Row
  BY DEF NextId, Row
<1> QED
  BY <1>1, <1>2, <1>3, AddRowStep

(* The object a line is imported into, and what that does to it.           *)
LEMMA ImportedInto ==
  ASSUME Inv, NEW c \in Cols, NEW r \in Row, ImportLine(c, r), job.proc \in Procs
  PROVE  LET o == cols[job.proc][c] IN
         /\ o \in Live /\ objs[o].pc = "idle"
         /\ \/ UNCHANGED <<lock, dbs, cols, handles, objs, disk, acked>>
            \/ r.id \notin IdsOf(objs[o].rows) /\ AddRow(o, r)
<1> DEFINE o == cols[job.proc][c]
<1>1. o # Absent /\ o \in Objs /\ objs[o] # Absent
  BY DEF ImportLine, ImportRow, Inv, Typed, Owned
<1> QED
  BY <1>1 DEF ImportLine, ImportRow, Live

LEMMA ImportLineStep ==
  ASSUME Inv, NEW c \in Cols, NEW r \in Row, ImportLine(c, r), job.proc \in Procs
  PROVE  Inv'
BY ImportedInto, AddRowStep, Quiet

(* The steps of a checkpoint.                                              *)
LEMMA WriteSegmentStep ==
  ASSUME Inv, NEW o \in Live, NEW b \in BOOLEAN, WriteSegment(o, b),
         UNCHANGED <<lock, dbs, cols, handles, acked>>
  PROVE  Inv'
<1> DEFINE c   == objs[o].col
           n   == objs[o].seg_seq + 1
           new == [objs[o] EXCEPT !.seg_seq = @ + 1, !.pc = "manifest", !.for_job = b]
           d   == [disk[c] EXCEPT !.segs[n] = objs[o].rows]
<1> USE DatabaseAssumption
<1>1. /\ objs[o] \in Object /\ objs[o].pc = "idle" /\ objs[o].rows \in SUBSET Row
      /\ c \in Cols /\ disk[c] \in Dir /\ Readable(disk[c]) /\ Recovered(disk[c]) = acked[c]
      /\ objs[o].rows = acked[c] /\ objs[o].seg_seq = disk[c].listed
      /\ disk[c].listed \in 0 .. MaxSeg /\ disk[c].listed < MaxSeg /\ n \in SegNos
  BY LiveTyped DEF WriteSegment, Saving, Inv, Durable, Typed, Dir, SegNos
<1>2. /\ objs' = [objs EXCEPT ![o] = new] /\ disk' = [disk EXCEPT ![c] = d]
      /\ acked' = [acked EXCEPT ![c] = acked[c]]
  <2>1. objs' = [objs EXCEPT ![o] = new]
    BY DEF WriteSegment
  <2>2. disk' = [disk EXCEPT ![c] = d]
    BY DEF WriteSegment
  <2>3. acked \in [Cols -> SUBSET Row]
    BY DEF Inv, Typed
  <2> HIDE DEF c, new, d
  <2>4. acked' = [acked EXCEPT ![c] = acked[c]]
    BY <1>1, <2>3
  <2> QED
    BY <2>1, <2>2, <2>4
<1>3. new \in Object /\ d \in Dir /\ acked[c] \in SUBSET Row
  <2>1. n \in 0 .. MaxSeg
    BY <1>1 DEF SegNos
  <2>2. new \in Object
    BY <1>1, <2>1 DEF Object
  <2>3. d \in Dir
    <3>1. disk[c].segs \in [SegNos -> {Absent} \cup SUBSET Row]
      BY <1>1 DEF Dir
    <3>2. [disk[c].segs EXCEPT ![n] = objs[o].rows] \in [SegNos -> {Absent} \cup SUBSET Row]
      BY <1>1, <3>1
    <3> QED
      BY <1>1, <3>2 DEF Dir
  <2> QED
    BY <1>1, <2>2, <2>3 DEF Inv, Typed
<1>4. /\ new.proc = objs[o].proc /\ new.col = objs[o].col /\ new.rows = acked[c]
      /\ new.pc = "manifest" /\ new.seg_seq = d.listed + 1 /\ new.seg_seq # 0
      /\ d.segs[new.seg_seq] = acked[c]
  BY <1>1 DEF Object, Dir
<1>5. Readable(d) /\ Recovered(d) = acked[c]
  <2>1. /\ d.listed = disk[c].listed /\ d.wal = disk[c].wal
        /\ d.segs = [disk[c].segs EXCEPT ![n] = objs[o].rows]
    BY <1>1 DEF Dir
  <2>2. n # disk[c].listed /\ disk[c].segs \in [SegNos -> {Absent} \cup SUBSET Row]
    BY <1>1 DEF Dir
  <2> HIDE DEF n, d
  <2>3. d.segs[disk[c].listed] = disk[c].segs[disk[c].listed] \/ disk[c].listed = 0
    <3>1. disk[c].listed \in SegNos \/ disk[c].listed = 0
      BY <1>1 DEF SegNos
    <3> QED
      BY <3>1, <2>1, <2>2
  <2>4. Listed(d) = Listed(disk[c])
    BY <2>1, <2>3 DEF Listed
  <2> QED
    BY <1>1, <2>1, <2>4 DEF Readable, Recovered
<1> HIDE DEF new, d
<1> QED
  BY <1>1, <1>2, <1>3, <1>4, <1>5, ObjectStep

LEMMA WriteManifestStep ==
  ASSUME Inv, NEW o \in Objs, WriteManifest(o)
  PROVE  Inv'
<1> DEFINE c   == objs[o].col
           new == [objs[o] EXCEPT !.pc = "cleanup"]
           d   == [disk[c] EXCEPT !.listed = objs[o].seg_seq]
<1> USE DatabaseAssumption
<1>1. o \in Live /\ objs[o].pc = "manifest"
  BY DEF WriteManifest
<1>2. /\ objs[o] \in Object /\ objs[o].rows \in SUBSET Row
      /\ c \in Cols /\ disk[c] \in Dir /\ Readable(disk[c]) /\ Recovered(disk[c]) = acked[c]
      /\ objs[o].rows = acked[c] /\ objs[o].seg_seq = disk[c].listed + 1
      /\ disk[c].segs[objs[o].seg_seq] = acked[c] /\ objs[o].seg_seq \in 0 .. MaxSeg
      /\ disk[c].listed \in 0 .. MaxSeg
  BY <1>1, LiveTyped DEF Inv, Durable, Typed, Dir
<1>3. /\ objs' = [objs EXCEPT ![o] = new] /\ disk' = [disk EXCEPT ![c] = d]
      /\ acked' = [acked EXCEPT ![c] = acked[c]]
      /\ UNCHANGED <<lock, dbs, cols, handles>>
  BY <1>1, <1>2 DEF WriteManifest, Inv, Typed
<1>4. new \in Object /\ d \in Dir /\ acked[c] \in SUBSET Row
  BY <1>2 DEF Object, Dir, Inv, Typed
<1>5. /\ new.proc = objs[o].proc /\ new.col = objs[o].col /\ new.rows = acked[c]
      /\ new.pc = "cleanup" /\ new.seg_seq = d.listed /\ new.seg_seq # 0
      /\ d.segs[new.seg_seq] = acked[c]
  BY <1>2 DEF Object, Dir
<1>6. Readable(d) /\ Recovered(d) = acked[c]
  <2>1. Listed(d) = acked[c]
    BY <1>2 DEF Listed, Dir
  <2>2. d.wal = disk[c].wal /\ disk[c].wal \subseteq acked[c]
    BY <1>2 DEF Recovered, Dir
  <2> QED
    BY <1>4, <2>1, <2>2 DEF Readable, Recovered
<1> HIDE DEF new, d
<1> QED
  BY <1>1, <1>3, <1>4, <1>5, <1>6, ObjectStep

LEMMA CleanupStep ==
  ASSUME Inv, NEW o \in Objs, Cleanup(o)
  PROVE  Inv'
<1> DEFINE c   == objs[o].col
           new == [objs[o] EXCEPT !.pc = "truncate"]
           d   == [disk[c] EXCEPT !.segs = [n \in SegNos |-> IF n = objs[o].seg_seq
                                                              THEN disk[c].segs[n] ELSE Absent]]
<1> USE DatabaseAssumption
<1>1. o \in Live /\ objs[o].pc = "cleanup"
  BY DEF Cleanup
<1>2. /\ objs[o] \in Object /\ objs[o].rows \in SUBSET Row
      /\ c \in Cols /\ disk[c] \in Dir /\ Readable(disk[c]) /\ Recovered(disk[c]) = acked[c]
      /\ objs[o].rows = acked[c] /\ objs[o].seg_seq = disk[c].listed /\ disk[c].listed # 0
      /\ disk[c].segs[objs[o].seg_seq] = acked[c] /\ disk[c].listed \in 0 .. MaxSeg
  BY <1>1, LiveTyped DEF Inv, Durable, Typed, Dir
<1>3. disk[c].listed \in SegNos
  BY <1>2 DEF SegNos
<1>4. /\ objs' = [objs EXCEPT ![o] = new] /\ disk' = [disk EXCEPT ![c] = d]
      /\ acked' = [acked EXCEPT ![c] = acked[c]]
      /\ UNCHANGED <<lock, dbs, cols, handles>>
  BY <1>1, <1>2 DEF Cleanup, Inv, Typed
<1>5. new \in Object /\ d \in Dir /\ acked[c] \in SUBSET Row
  BY <1>2 DEF Object, Dir, Inv, Typed
<1>6. /\ new.proc = objs[o].proc /\ new.col = objs[o].col /\ new.rows = acked[c]
      /\ new.pc = "truncate" /\ new.seg_seq = d.listed /\ new.seg_seq # 0
      /\ d.segs[new.seg_seq] = acked[c]
  BY <1>2, <1>3 DEF Object, Dir
<1>7. Readable(d) /\ Recovered(d) = acked[c]
  BY <1>2, <1>3 DEF Readable, Recovered, Listed, Dir, SegNos
<1> HIDE DEF new, d
<1> QED
  BY <1>1, <1>4, <1>5, <1>6, <1>7, ObjectStep

LEMMA TruncateStep ==
  ASSUME Inv, NEW o \in Objs, Truncate(o)
  PROVE  Inv'
<1> DEFINE c   == objs[o].col
           new == [objs[o] EXCEPT !.pc = "idle", !.for_job = FALSE]
           d   == [disk[c] EXCEPT !.wal = {}]
<1> USE DatabaseAssumption
<1>1. o \in Live /\ objs[o].pc = "truncate"
  BY DEF Truncate
<1>2. /\ objs[o] \in Object /\ objs[o].rows \in SUBSET Row
      /\ c \in Cols /\ disk[c] \in Dir /\ Readable(disk[c])
      /\ objs[o].rows = acked[c] /\ objs[o].seg_seq = disk[c].listed /\ disk[c].listed # 0
      /\ disk[c].segs[objs[o].seg_seq] = acked[c] /\ disk[c].listed \in 0 .. MaxSeg
  BY <1>1, LiveTyped DEF Inv, Durable, Typed, Dir
<1>3. /\ objs' = [objs EXCEPT ![o] = new] /\ disk' = [disk EXCEPT ![c] = d]
      /\ acked' = [acked EXCEPT ![c] = acked[c]]
      /\ UNCHANGED <<lock, dbs, cols, handles>>
  BY <1>1, <1>2 DEF Truncate, Inv, Typed
<1>4. new \in Object /\ d \in Dir /\ acked[c] \in SUBSET Row
  BY <1>2 DEF Object, Dir, Inv, Typed
<1>5. /\ new.proc = objs[o].proc /\ new.col = objs[o].col /\ new.rows = acked[c]
      /\ new.pc = "idle" /\ new.seg_seq = d.listed
  BY <1>2 DEF Object, Dir
<1>6. Readable(d) /\ Recovered(d) = acked[c]
  BY <1>2 DEF Readable, Recovered, Listed, Dir
<1> HIDE DEF new, d
<1> QED
  BY <1>1, <1>3, <1>4, <1>5, <1>6, ObjectStep

(* What is known of the running job: its type, and that the collections it *)
(* has yet to read have a directory.                                       *)
HasDir(c) == c \in Cols /\ disk[c] # Absent
JobTyped ==
    /\ job \in Job \cup {Absent}
    /\ job # Absent => /\ \A c \in job.left : HasDir(c)
                       /\ job.at \in {"copy", "save", "rows"} => HasDir(job.col)
                       /\ job.at = "copy" => job.dirs[job.col] # Absent

(* A collection in a map has a directory, and keeps it.                    *)
LEMMA NamesHaveDirs ==
  ASSUME Inv, NEW p \in Procs
  PROVE  Names(p) \in SUBSET Cols /\ \A c \in Names(p) : HasDir(c)
<1> SUFFICES ASSUME NEW c \in Names(p) PROVE HasDir(c)
  BY DEF Names
<1>1. c \in Cols /\ cols[p][c] \in Objs /\ objs[cols[p][c]] # Absent /\ objs[cols[p][c]].col = c
  BY DEF Names, Inv, Typed, Owned
<1>2. cols[p][c] \in Live
  BY <1>1 DEF Live
<1> QED
  BY <1>1, <1>2 DEF Inv, Durable, HasDir

LEMMA DirsStay ==
  ASSUME Inv, [Next]_vars, NEW c \in Cols, disk[c] # Absent, job # Absent => job.proc \in Procs
  PROVE  disk'[c] # Absent
<1> USE DatabaseAssumption
<1>1. CASE disk' = disk
  BY <1>1
<1>2. ASSUME NEW o \in Live PROVE disk[objs[o].col] \in Dir /\ objs[o].rows \in SUBSET Row
                               /\ objs[o].col \in Cols /\ objs[o].seg_seq \in 0 .. MaxSeg
  BY LiveTyped DEF Inv, Durable, Typed
<1>3. ASSUME NEW o \in Live, NEW d \in Dir, disk' = [disk EXCEPT ![objs[o].col] = d]
      PROVE  disk'[c] # Absent
  BY <1>2, <1>3 DEF Inv, Typed
<1>4. ASSUME NEW o \in Live, NEW r \in Row, AddRow(o, r) PROVE disk'[c] # Absent
  BY <1>2, <1>3, <1>4 DEF AddRow, Dir
<1>5. ASSUME NEW o \in Live, NEW b \in BOOLEAN, WriteSegment(o, b) PROVE disk'[c] # Absent
  <2> DEFINE d == [disk[objs[o].col] EXCEPT !.segs[objs[o].seg_seq + 1] = objs[o].rows]
  <2>1. d \in Dir
    <3>1. disk[objs[o].col].segs \in [SegNos -> {Absent} \cup SUBSET Row]
      BY <1>2 DEF Dir
    <3>2. [disk[objs[o].col].segs EXCEPT ![objs[o].seg_seq + 1] = objs[o].rows]
             \in [SegNos -> {Absent} \cup SUBSET Row]
      BY <1>2, <3>1
    <3> QED
      BY <1>2, <3>2 DEF Dir
  <2> QED
    BY <1>3, <1>5, <2>1 DEF WriteSegment
<1>6. ASSUME NEW o \in Objs, WriteManifest(o) PROVE disk'[c] # Absent
  BY <1>2, <1>3, <1>6 DEF WriteManifest, Dir
<1>7. ASSUME NEW o \in Objs, Cleanup(o) PROVE disk'[c] # Absent
  BY <1>2, <1>3, <1>7 DEF Cleanup, Dir
<1>8. ASSUME NEW o \in Objs, Truncate(o) PROVE disk'[c] # Absent
  BY <1>2, <1>3, <1>8 DEF Truncate, Dir
<1>9. ASSUME NEW p \in Procs, OpenAndClose(p) PROVE disk'[c] # Absent
  <2>1. ASSUME NEW k \in Cols, NEW o \in Objs, OpenCollection(p, k, o) PROVE disk'[c] # Absent
    BY <2>1 DEF OpenCollection, Inv, Typed
  <2> QED
    BY <1>9, <2>1 DEF OpenAndClose, AcquireLock, FinishOpen, DropMap, Unlock, Die,
                      TakeHandle, DropHandle
<1>10. CASE Operation
  <2>1. ASSUME NEW p \in Procs, NEW o \in Objs, Remember(p, o) PROVE disk'[c] # Absent
    <3>1. o \in Live
      BY <2>1 DEF Remember, Inv, Typed, Owned, InMap, Live
    <3>2. PICK id \in NextId(o) : AddRow(o, [id |-> id, by |-> p])
      BY <2>1 DEF Remember
    <3>3. [id |-> id, by |-> p] \in Row
      BY DEF NextId, Row
    <3> QED
      BY <1>4, <3>1, <3>2, <3>3
  <2>2. ASSUME NEW p \in Procs, NEW o \in Objs, Checkpoint(p, o) PROVE disk'[c] # Absent
    BY <1>5, <2>2 DEF Checkpoint, WriteSegment, Saving
  <2> QED
    BY <1>6, <1>7, <1>8, <1>10, <2>1, <2>2 DEF Operation
<1>11. CASE JobStep
  <2>1. ASSUME NEW o \in Objs, SaveForJob(o) PROVE disk'[c] # Absent
    BY <1>5, <2>1 DEF SaveForJob, WriteSegment, Saving
  <2>2. ASSUME NEW k \in Cols, NEW r \in Row, ImportLine(k, r) PROVE disk'[c] # Absent
    <3>1. job.proc \in Procs
      BY <2>2 DEF ImportLine
    <3> QED
      BY <1>1, <1>4, <2>2, <3>1, ImportedInto
  <2>3. ASSUME \/ \E p \in Procs, kind \in Jobs \ {"import"} : StartJob(p, kind)
               \/ \E p \in Procs, f \in Files : StartImport(p, f)
        PROVE  disk' = disk
    BY <2>3 DEF StartJob, StartImport, Begun, AllJobs
  <2> QED
    BY <1>1, <1>11, <2>1, <2>2, <2>3 DEF JobStep, NextCollection, CopyFile, BadLine, AllSaved,
       ReadManifest, ReadRows, DoneWith, FinishJob
<1> QED
  BY <1>1, <1>9, <1>10, <1>11 DEF Next, vars

(* The steps of a job keep it one.                                         *)
LEMMA NewJobTyped ==
  ASSUME Typed, NEW p \in Procs, NEW kind \in AllJobs
  PROVE  NewJob(p, kind) \in Job
BY DEF NewJob, Job, Names, Typed, Missing

LEMMA SnapshotTyped ==
  ASSUME Typed, NEW c \in Cols, disk[c] # Absent, Readable(disk[c])
  PROVE  Listed(disk[c]) \in SUBSET Row
BY DatabaseAssumption DEF Typed, Dir, Readable, Listed, SegNos

LEMMA StartTyped ==
  ASSUME Inv, NEW p \in Procs,
         \/ \E kind \in Jobs \ {"import"} : StartJob(p, kind)
         \/ \E f \in Files : StartImport(p, f)
  PROVE  JobTyped'
<1> USE DatabaseAssumption
<1>1. \A kind \in AllJobs : /\ NewJob(p, kind) \in Job /\ NewJob(p, kind).at = "next"
                           /\ NewJob(p, kind).left = Names(p)
  BY NewJobTyped DEF Inv, NewJob
<1>2. Names(p) \in SUBSET Cols /\ \A c \in Names(p) : HasDir(c)
  BY NamesHaveDirs
<1> DEFINE Starts(j) == j \in Job /\ j.at \in {"checkpoint_all", "next"} /\ j.left \subseteq Names(p)
<1>3. ASSUME NEW kind \in Jobs \ {"import"}, StartJob(p, kind)
      PROVE  Starts(job') /\ disk' = disk
  <2>1. CASE kind = "backup"
    <3>1. job' = [NewJob(p, kind) EXCEPT !.at = "checkpoint_all", !.unsaved = Names(p)]
          /\ disk' = disk
      BY <1>3, <2>1 DEF StartJob, Begun
    <3>2. NewJob(p, kind) \in Job /\ NewJob(p, kind).left = Names(p)
      BY <1>1, <2>1 DEF AllJobs
    <3> QED
      BY <1>2, <3>1, <3>2 DEF Job
  <2>2. CASE kind = "export"
    BY <1>1, <1>3, <2>2 DEF StartJob, Begun, AllJobs
  <2>3. CASE kind = "verify"
    <3> DEFINE snapshots == [c \in Cols |-> IF disk[c] = Absent THEN {} ELSE Listed(disk[c])]
    <3>1. snapshots \in [Cols -> SUBSET Row]
      BY SnapshotTyped DEF Inv, Durable
    <3>2. job' = [NewJob(p, kind) EXCEPT !.since = snapshots] /\ disk' = disk
      BY <1>3, <2>3 DEF StartJob, Begun
    <3> HIDE DEF snapshots
    <3> QED
      BY <1>1, <2>3, <3>1, <3>2 DEF Job, AllJobs
  <2> QED
    BY <1>3, <2>1, <2>2, <2>3 DEF AllJobs
<1>4. ASSUME NEW f \in Files, StartImport(p, f) PROVE Starts(job') /\ disk' = disk
  <2>1. NoDir \in Dir
    BY DEF NoDir, Dir
  <2>2. AsExport(f) \in [Cols -> Dir \cup {Absent}]
    <3>1. \A c \in Cols : InFile(f, c) \in SUBSET Row
      BY DEF InFile
    <3>2. \A rows \in SUBSET Row : [NoDir EXCEPT !.wal = rows] \in Dir
      BY <2>1 DEF Dir
    <3> QED
      BY <3>1, <3>2 DEF AsExport
  <2>3. f \in SUBSET (Cols \X Row)
    OBVIOUS
  <2>4. /\ job' = [NewJob(p, "import") EXCEPT !.left = {}, !.rest = f, !.dirs = AsExport(f)]
        /\ disk' = disk
    BY <1>4 DEF StartImport, Begun
  <2> QED
    BY <1>1, <2>2, <2>3, <2>4 DEF Job, AllJobs
<1> QED
  BY <1>2, <1>3, <1>4 DEF JobTyped, HasDir

LEMMA JobStepTyped ==
  ASSUME Inv, JobTyped, job # Absent, disk' = disk,
         \/ \E c \in Cols : NextCollection(c)
         \/ \E n \in 0 .. MaxSeg : CopyFile(n)
         \/ BadLine \/ AllSaved \/ ReadManifest \/ ReadRows \/ DoneWith \/ FinishJob
  PROVE  JobTyped'
<1> USE DatabaseAssumption
<1>1. job \in Job /\ \A c \in job.left : HasDir(c)
  BY DEF JobTyped
<1>2. NoDir \in Dir /\ \A c \in Cols : HasDir(c)' <=> HasDir(c)
  BY DEF NoDir, Dir, HasDir
<1>3. ASSUME HasDir(job.col)
      PROVE  /\ disk[job.col] \in Dir /\ disk[job.col].listed \in 0 .. MaxSeg
             /\ disk[job.col].segs \in [SegNos -> {Absent} \cup SUBSET Row]
  BY <1>3 DEF HasDir, Inv, Typed, Dir
<1>4. ASSUME NEW c \in Cols, NextCollection(c) PROVE JobTyped'
  <2>1. disk[c] \in Dir /\ FilesOf(disk[c]) \in SUBSET (0 .. MaxSeg) /\ HasDir(c)
    <3>1. HasDir(c)
      BY <1>1, <1>4 DEF NextCollection
    <3>2. {n \in SegNos : disk[c].segs[n] # Absent} \subseteq 0 .. MaxSeg /\ 0 \in 0 .. MaxSeg
      BY DEF SegNos
    <3>3. FilesOf(disk[c]) \subseteq 0 .. MaxSeg
      BY <3>2 DEF FilesOf
    <3>4. disk[c] \in Dir
      BY <3>1 DEF HasDir, Inv, Typed
    <3> QED
      BY <3>1, <3>3, <3>4
  <2>2. /\ [job.dirs EXCEPT ![c] = NoDir] \in [Cols -> Dir \cup {Absent}]
        /\ job.dirs \in [Cols -> Dir \cup {Absent}]
    BY <1>1, <1>2 DEF Job
  <2>3. CASE job.kind = "backup"
    <3>1. job' = [job EXCEPT !.at = "copy", !.col = c, !.files = FilesOf(disk[c]),
                             !.dirs = [job.dirs EXCEPT ![c] = NoDir]]
      BY <1>1, <1>4, <2>3 DEF NextCollection, Job
    <3>2. job' \in Job /\ job'.left = job.left /\ job'.col = c /\ job'.dirs[c] = NoDir
      BY <1>1, <2>1, <2>2, <3>1 DEF Job
    <3> QED
      BY <1>1, <1>2, <2>1, <3>2 DEF JobTyped, Job
  <2>4. CASE job.kind # "backup"
    <3>1. /\ job' \in Job /\ job'.left = job.left /\ job'.at = "save" /\ job'.col = c
      BY <1>1, <1>4, <2>4 DEF NextCollection, Job
    <3> QED
      BY <1>1, <1>2, <2>1, <3>1 DEF JobTyped, Job
  <2> QED
    BY <2>3, <2>4
<1>5. ASSUME NEW n \in 0 .. MaxSeg, CopyFile(n) PROVE JobTyped'
  <2> DEFINE d    == disk[job.col]
             rest == [job EXCEPT !.files = @ \ {n}]
             old  == job.dirs[job.col]
  <2>1. /\ HasDir(job.col) /\ job.at = "copy" /\ job.col \in Cols /\ n \in job.files
        /\ old \in Dir /\ d \in Dir /\ d.listed \in 0 .. MaxSeg
        /\ d.segs \in [SegNos -> {Absent} \cup SUBSET Row]
    BY <1>1, <1>3, <1>5 DEF CopyFile, JobTyped, Job, HasDir
  <2>2. /\ rest \in Job /\ rest.left = job.left /\ rest.at = "copy" /\ rest.col = job.col
        /\ rest.dirs = job.dirs
    BY <1>1, <2>1 DEF Job
  <2>3. ASSUME NEW new \in Dir, job' = [rest EXCEPT !.dirs[job.col] = new]
        PROVE  JobTyped'
    <3>1. [job.dirs EXCEPT ![job.col] = new] \in [Cols -> Dir \cup {Absent}]
      BY <1>1 DEF Job
    <3>2. job' = [rest EXCEPT !.dirs = [job.dirs EXCEPT ![job.col] = new]]
      BY <2>2, <2>3
    <3>3. /\ job' \in Job /\ job'.left = job.left /\ job'.at = "copy" /\ job'.col = job.col
          /\ job'.dirs = [job.dirs EXCEPT ![job.col] = new]
      BY <2>2, <3>1, <3>2 DEF Job
    <3>4. job'.dirs[job'.col] = new
      BY <1>1, <2>1, <3>3 DEF Job
    <3> QED
      BY <1>1, <1>2, <2>1, <3>3, <3>4 DEF JobTyped, HasDir
  <2>4. CASE n = 0
    <3>1. job' = [rest EXCEPT !.dirs[job.col].listed = d.listed]
      BY <1>5, <2>4 DEF CopyFile
    <3>2. [old EXCEPT !.listed = d.listed] \in Dir
      BY <2>1 DEF Dir
    <3>3. job' = [rest EXCEPT !.dirs[job.col] = [old EXCEPT !.listed = d.listed]]
      BY <2>2, <3>1
    <3> QED
      BY <2>3, <3>2, <3>3
  <2>5. CASE n # 0 /\ d.segs[n] = Absent
    BY <1>5, <2>5 DEF CopyFile, JobTyped
  <2>6. CASE n # 0 /\ d.segs[n] # Absent
    <3>0. n \in SegNos
      BY <2>6 DEF SegNos
    <3>1. job' = [rest EXCEPT !.dirs[job.col].segs[n] = d.segs[n]]
      BY <1>5, <2>6 DEF CopyFile
    <3>2. [old.segs EXCEPT ![n] = d.segs[n]] \in [SegNos -> {Absent} \cup SUBSET Row]
      BY <2>1, <3>0 DEF Dir
    <3>3. [old EXCEPT !.segs = [old.segs EXCEPT ![n] = d.segs[n]]] \in Dir
      BY <2>1, <3>2 DEF Dir
    <3>4. job' = [rest EXCEPT !.dirs[job.col] = [old EXCEPT !.segs = [old.segs EXCEPT ![n] = d.segs[n]]]]
      BY <2>2, <3>1
    <3> QED
      BY <2>3, <3>3, <3>4
  <2> QED
    BY <2>4, <2>5, <2>6
<1>6. CASE BadLine \/ FinishJob
  BY <1>6 DEF BadLine, FinishJob, JobTyped
<1>7. CASE AllSaved
  <2>1. Names(job.proc) \in SUBSET Cols /\ \A c \in Names(job.proc) : HasDir(c)
    BY <1>1, NamesHaveDirs DEF Job
  <2>2. job' \in Job /\ job'.at = "next" /\ job'.left = Names(job.proc)
    BY <1>1, <1>7, <2>1 DEF AllSaved, Job
  <2> QED
    BY <1>2, <2>1, <2>2 DEF JobTyped
<1>8. CASE ReadManifest
  <2>1. HasDir(job.col)
    BY <1>8 DEF ReadManifest, JobTyped
  <2>2. job' \in Job /\ job'.at = "rows" /\ job'.left = job.left /\ job'.col = job.col
    BY <1>1, <1>3, <1>8, <2>1 DEF ReadManifest, Job
  <2> QED
    BY <1>1, <1>2, <2>1, <2>2 DEF JobTyped, HasDir
<1>9. CASE ReadRows
  <2>1. HasDir(job.col) /\ job.col \in Cols /\ job.at = "rows"
    BY <1>9 DEF ReadRows, JobTyped, HasDir
  <2>2. PICK n \in job.files :
          LET rows == Listed([disk[job.col] EXCEPT !.listed = n]) IN
          job' = IF rows # Absent
                 THEN [job EXCEPT !.files = {}, !.dirs[job.col] = [NoDir EXCEPT !.wal = rows]]
                 ELSE IF job.kind = "export" THEN Absent
                 ELSE [job EXCEPT !.files = {}, !.errors = @ \cup {<<job.col, n>>}]
    BY <1>9 DEF ReadRows
  <2> DEFINE rows == Listed([disk[job.col] EXCEPT !.listed = n])
  <2>3. n \in 0 .. MaxSeg /\ rows = IF n = 0 THEN {} ELSE disk[job.col].segs[n]
    BY <1>1, <1>3, <2>1 DEF Listed, Job, Dir
  <2>4. rows \in SUBSET Row \/ rows = Absent
    BY <1>3, <2>1, <2>3 DEF SegNos
  <2>5. rows = Absent => n \in SegNos
    BY <2>3 DEF SegNos
  <2> HIDE DEF rows
  <2>6. CASE rows # Absent
    <3>1. [NoDir EXCEPT !.wal = rows] \in Dir
      BY <1>2, <2>4, <2>6 DEF Dir
    <3>2. [job.dirs EXCEPT ![job.col] = [NoDir EXCEPT !.wal = rows]] \in [Cols -> Dir \cup {Absent}]
      BY <1>1, <3>1 DEF Job
    <3>3. job' = [job EXCEPT !.files = {}, !.dirs = [job.dirs EXCEPT ![job.col] = [NoDir EXCEPT !.wal = rows]]]
      BY <1>1, <2>2, <2>6 DEF rows, Job
    <3>4. job' \in Job /\ job'.at = "rows" /\ job'.left = job.left /\ job'.col = job.col
      BY <1>1, <2>1, <3>2, <3>3 DEF Job
    <3> QED
      BY <1>1, <1>2, <2>1, <3>4 DEF JobTyped, HasDir
  <2>7. CASE rows = Absent /\ job.kind # "export"
    <3>1. job' = [job EXCEPT !.files = {}, !.errors = @ \cup {<<job.col, n>>}]
      BY <2>2, <2>7 DEF rows
    <3>2. job.errors \cup {<<job.col, n>>} \in Missing
      BY <1>1, <2>1, <2>5, <2>7 DEF Job, Missing
    <3>3. job' = [job EXCEPT !.files = {}, !.errors = job.errors \cup {<<job.col, n>>}]
      BY <3>1
    <3>4. job' \in Job /\ job'.at = "rows" /\ job'.left = job.left /\ job'.col = job.col
      BY <1>1, <2>1, <3>2, <3>3 DEF Job
    <3> QED
      BY <1>1, <1>2, <2>1, <3>4 DEF JobTyped, HasDir
  <2>8. CASE rows = Absent /\ job.kind = "export"
    BY <2>2, <2>8 DEF rows, JobTyped
  <2> QED
    BY <2>6, <2>7, <2>8
<1>10. CASE DoneWith
  <2>1. job' \in Job /\ job'.at = "next" /\ job'.left \subseteq job.left
    BY <1>1, <1>10 DEF DoneWith, Job
  <2> QED
    BY <1>1, <1>2, <2>1 DEF JobTyped, HasDir
<1> QED
  BY <1>4, <1>5, <1>6, <1>7, <1>8, <1>9, <1>10

(* What other steps leave of a job is one too.                             *)
LEMMA JobLeft ==
  ASSUME JobTyped, \A c \in Cols : disk[c] # Absent => disk'[c] # Absent,
         \/ job' \in {job, Absent}
         \/ /\ job # Absent
            /\ \/ \E S \in SUBSET Cols : job' = [job EXCEPT !.unsaved = S]
               \/ \E S \in SUBSET (Cols \X Row) : job' = [job EXCEPT !.rest = S]
  PROVE  JobTyped'
<1>1. job' = Absent \/ /\ job # Absent /\ job' \in Job /\ job'.left = job.left
                       /\ job'.at = job.at /\ job'.col = job.col /\ job'.dirs = job.dirs
  BY DEF JobTyped, Job
<1> QED
  BY <1>1 DEF JobTyped, HasDir

LEMMA StepJobTyped ==
  ASSUME Inv, JobTyped, [Next]_vars
  PROVE  JobTyped'
<1> USE DatabaseAssumption
<1>0. job # Absent => job \in Job /\ job.proc \in Procs
  BY DEF JobTyped, Job
<1>1. \A c \in Cols : disk[c] # Absent => disk'[c] # Absent
  BY <1>0, DirsStay
<1>2. CASE job' \in {job, Absent}
  BY <1>1, <1>2, JobLeft
<1>3. ASSUME NEW p \in Procs, OpenAndClose(p) PROVE job' \in {job, Absent}
  BY <1>3 DEF OpenAndClose, AcquireLock, FinishOpen, DropMap, Unlock, Die, OpenCollection,
              TakeHandle, DropHandle
<1>4. CASE Operation
  <2>1. ASSUME NEW o \in Objs, Truncate(o), job # Absent PROVE JobTyped'
    <3>1. job.unsaved \ {objs[o].col} \in SUBSET Cols
      BY <1>0, <2>1 DEF Job
    <3>2. job' = job \/ job' = [job EXCEPT !.unsaved = job.unsaved \ {objs[o].col}]
      BY <2>1 DEF Truncate
    <3> QED
      BY <1>1, <2>1, <3>1, <3>2, JobLeft
  <2>2. ASSUME NEW o \in Objs, Truncate(o), job = Absent PROVE job' = job
    BY <2>2 DEF Truncate
  <2> QED
    BY <1>2, <1>4, <2>1, <2>2 DEF Operation, Remember, Checkpoint, WriteManifest, Cleanup
<1>5. CASE JobStep
  <2>1. ASSUME NEW c \in Cols, NEW r \in Row, ImportLine(c, r) PROVE JobTyped'
    <3>1. job.rest \ {<<c, r>>} \in SUBSET (Cols \X Row) /\ job # Absent
      BY <1>0, <2>1 DEF ImportLine, Job
    <3>2. job' = [job EXCEPT !.rest = job.rest \ {<<c, r>>}]
      BY <2>1 DEF ImportLine
    <3> QED
      BY <1>1, <3>1, <3>2, JobLeft
  <2>2. ASSUME NEW o \in Objs, SaveForJob(o) PROVE job' = job
    BY <2>2 DEF SaveForJob
  <2>3. CASE \/ \E p \in Procs, kind \in Jobs \ {"import"} : StartJob(p, kind)
             \/ \E p \in Procs, f \in Files : StartImport(p, f)
    BY <2>3, StartTyped
  <2>4. CASE \/ \E c \in Cols : NextCollection(c)
             \/ \E n \in 0 .. MaxSeg : CopyFile(n)
             \/ BadLine \/ AllSaved \/ ReadManifest \/ ReadRows \/ DoneWith \/ FinishJob
    <3>1. disk' = disk /\ job # Absent
      BY <2>4 DEF NextCollection, CopyFile, BadLine, AllSaved, ReadManifest, ReadRows,
                  DoneWith, FinishJob, Returning
    <3> QED
      BY <2>4, <3>1, JobStepTyped
  <2> QED
    BY <1>2, <1>5, <2>1, <2>2, <2>3, <2>4 DEF JobStep
<1> QED
  BY <1>2, <1>3, <1>4, <1>5 DEF Next, vars

LEMMA StepInv ==
  ASSUME KeepHandles = FALSE, Inv, JobTyped, [Next]_vars
  PROVE  Inv'
<1>1. ASSUME NEW p \in Procs, OpenAndClose(p) PROVE Inv'
  <2>1. CASE AcquireLock(p) \/ FinishOpen(p) \/ Unlock(p)
    BY <2>1, LockSteps
  <2>2. CASE DropMap(p)
    BY <2>2, DropMapStep
  <2>3. CASE Die(p)
    BY <2>3, DieStep
  <2>4. CASE \E c \in Cols, o \in Objs : OpenCollection(p, c, o)
    BY <2>4, OpenCollectionStep
  <2>5. CASE \E o \in Objs : TakeHandle(p, o) \/ DropHandle(p, o)
    BY <2>5, TakeHandleStep, DropHandleStep
  <2> QED
    BY <1>1, <2>1, <2>2, <2>3, <2>4, <2>5 DEF OpenAndClose
<1>2. CASE Operation
  <2>1. CASE \E p \in Procs, o \in Objs : Remember(p, o)
    BY <2>1, RememberStep
  <2>2. ASSUME NEW p \in Procs, NEW o \in Objs, Checkpoint(p, o) PROVE Inv'
    <3>1. o \in Live
      BY <2>2 DEF Checkpoint, Inv, Typed, Owned, InMap, Live
    <3> QED
      BY <2>2, <3>1, WriteSegmentStep DEF Checkpoint
  <2>3. CASE \E o \in Objs : WriteManifest(o) \/ Cleanup(o) \/ Truncate(o)
    BY <2>3, WriteManifestStep, CleanupStep, TruncateStep
  <2> QED
    BY <1>2, <2>1, <2>2, <2>3 DEF Operation
<1>3. CASE JobStep
  <2>1. ASSUME NEW o \in Objs, SaveForJob(o) PROVE Inv'
    <3>1. o \in Live
      BY <2>1 DEF SaveForJob, WriteSegment, Saving
    <3> QED
      BY <2>1, <3>1, WriteSegmentStep DEF SaveForJob
  <2>2. ASSUME NEW c \in Cols, NEW r \in Row, ImportLine(c, r) PROVE Inv'
    <3>1. job.proc \in Procs
      BY <2>2 DEF ImportLine, JobTyped, Job
    <3> QED
      BY <2>2, <3>1, ImportLineStep
  <2>3. CASE \/ \E p \in Procs, kind \in Jobs \ {"import"} : StartJob(p, kind)
             \/ \E p \in Procs, f \in Files : StartImport(p, f)
    <3>1. UNCHANGED <<lock, dbs, cols, handles, objs, disk, acked>>
      BY <2>3, DatabaseAssumption DEF StartJob, StartImport, Begun, AllJobs
    <3> QED
      BY <3>1, Quiet
  <2>4. CASE \/ \E c \in Cols : NextCollection(c)
             \/ \E n \in 0 .. MaxSeg : CopyFile(n)
             \/ BadLine \/ AllSaved \/ ReadManifest \/ ReadRows \/ DoneWith \/ FinishJob
    BY <2>4, Quiet DEF NextCollection, CopyFile, BadLine, AllSaved,
                       ReadManifest, ReadRows, DoneWith, FinishJob
  <2> QED
    BY <1>3, <2>1, <2>2, <2>3, <2>4 DEF JobStep
<1>4. CASE UNCHANGED vars
  BY <1>4, Quiet DEF vars
<1> QED
  BY <1>1, <1>2, <1>3, <1>4 DEF Next

(* A row that is added has an id that no row of its collection has.        *)
LEMMA AddedUnique ==
  ASSUME Inv, UniqueIds, NEW o \in Live, NEW r \in Row, AddRow(o, r),
         r.id \notin IdsOf(objs[o].rows)
  PROVE  UniqueIds'
<1>1. objs[o].col \in Cols /\ objs[o].rows = acked[objs[o].col]
  BY LiveTyped DEF Inv, Durable
<1>2. \A c \in Cols : acked'[c] = IF c = objs[o].col THEN acked[c] \cup {r} ELSE acked[c]
  BY <1>1 DEF AddRow, Inv, Typed
<1>3. \A t \in acked[objs[o].col] : t.id # r.id
  BY <1>1 DEF IdsOf
<1>4. ASSUME NEW c \in Cols, NEW t \in acked'[c], NEW u \in acked'[c], t.id = u.id
      PROVE  t = u
  <2>1. CASE c = objs[o].col /\ t = r
    BY <1>2, <1>3, <1>4, <2>1
  <2>3. CASE c = objs[o].col /\ u = r
    BY <1>2, <1>3, <1>4, <2>3
  <2>2. CASE t \in acked[c] /\ u \in acked[c]
    BY <1>4, <2>2 DEF UniqueIds
  <2> QED
    BY <1>2, <1>4, <2>1, <2>2, <2>3
<1> QED
  BY <1>4 DEF UniqueIds

LEMMA StepUnique ==
  ASSUME Inv, JobTyped, UniqueIds, [Next]_vars
  PROVE  UniqueIds'
<1>1. CASE acked' = acked
  BY <1>1 DEF UniqueIds
<1>2. ASSUME NEW p \in Procs, NEW o \in Objs, Remember(p, o) PROVE UniqueIds'
  <2>1. o \in Live
    BY <1>2 DEF Remember, Inv, Typed, Owned, InMap, Live
  <2>2. PICK id \in NextId(o) : AddRow(o, [id |-> id, by |-> p])
    BY <1>2 DEF Remember
  <2>3. [id |-> id, by |-> p] \in Row
    BY DEF NextId, Row
  <2>4. id \notin IdsOf(objs[o].rows)
    BY DEF NextId, Ids
  <2> QED
    BY <2>1, <2>2, <2>3, <2>4, AddedUnique
<1>3. ASSUME NEW c \in Cols, NEW r \in Row, ImportLine(c, r) PROVE UniqueIds'
  <2>1. job.proc \in Procs
    BY <1>3 DEF ImportLine, JobTyped, Job
  <2> QED
    BY <1>1, <1>3, <2>1, ImportedInto, AddedUnique
<1>4. ASSUME NEW p \in Procs, OpenAndClose(p) PROVE acked' = acked
  BY <1>4 DEF OpenAndClose, AcquireLock, FinishOpen, DropMap, Unlock, Die, OpenCollection,
              TakeHandle, DropHandle
<1>5. CASE Operation
  BY <1>1, <1>2, <1>5 DEF Operation, Checkpoint, WriteManifest, Cleanup, Truncate
<1>6. CASE JobStep
  <2>1. ASSUME \/ \E p \in Procs, kind \in Jobs \ {"import"} : StartJob(p, kind)
               \/ \E p \in Procs, f \in Files : StartImport(p, f)
        PROVE  acked' = acked
    BY <2>1, DatabaseAssumption DEF StartJob, StartImport, Begun, AllJobs
  <2> QED
    BY <1>1, <1>3, <1>6, <2>1 DEF JobStep, SaveForJob, NextCollection, CopyFile, BadLine,
         AllSaved, ReadManifest, ReadRows, DoneWith, FinishJob
<1> QED
  BY <1>1, <1>4, <1>5, <1>6 DEF Next, vars

IInv == Inv /\ JobTyped /\ UniqueIds

(* The inductive invariant, with what types a job.                         *)
THEOREM InvAlways == ASSUME KeepHandles = FALSE PROVE Spec => []IInv
<1>1. Init => IInv
  BY InitOwned DEF Inv, IInv, Init, JobTyped, UniqueIds
<1>2. IInv /\ [Next]_vars => IInv'
  BY StepInv, StepJobTyped, StepUnique DEF IInv
<1> QED
  BY <1>1, <1>2, PTL DEF Spec

(* Every variable keeps its type.                                          *)
THEOREM TypeAlwaysOK == ASSUME KeepHandles = FALSE PROVE Spec => []TypeOK
<1>1. IInv => TypeOK
  BY DEF IInv, Inv, Typed, JobTyped, TypeOK
<1> QED
  BY <1>1, InvAlways, PTL

(* No id is given twice in a collection, by remember after a reopening or  *)
(* by an import beside it.                                                 *)
THEOREM IdsAlwaysUnique == ASSUME KeepHandles = FALSE PROVE Spec => []UniqueIds
<1>1. IInv => UniqueIds
  BY DEF IInv
<1> QED
  BY <1>1, InvAlways, PTL

(* When every handle is dropped before the Db it came from, no collection  *)
(* is ever open twice, in one process or in two.                           *)
THEOREM OneWriterAlways == ASSUME KeepHandles = FALSE PROVE Spec => []OneWriter
<1>1. IInv => OneWriter
  <2> SUFFICES ASSUME IInv, NEW o \in Live, NEW q \in Live, objs[o].col = objs[q].col
               PROVE  o = q
    BY DEF OneWriter
  <2>1. objs[o].proc = objs[q].proc
    BY ObjectUnderLock DEF IInv
  <2> QED
    BY <2>1 DEF IInv, Inv, Owned
<1> QED
  BY <1>1, InvAlways, PTL

(* What remember acknowledged is in the files, at every step of every      *)
(* checkpoint, through any deaths and reopenings of any processes.         *)
THEOREM AckedAlwaysKept == ASSUME KeepHandles = FALSE PROVE Spec => []AckedKept
<1>1. IInv => AckedKept
  BY DEF IInv, Inv, Durable, AckedKept
<1> QED
  BY <1>1, InvAlways, PTL

(* Every object answers from what the files say.                           *)
THEOREM MemoryAlwaysCurrent == ASSUME KeepHandles = FALSE PROVE Spec => []MemoryCurrent
<1>1. IInv => MemoryCurrent
  BY LiveTyped DEF IInv, Inv, Durable, MemoryCurrent
<1> QED
  BY <1>1, InvAlways, PTL

-----------------------------------------------------------------------------
(* What a job returns. Backup, export and verify read the files of a       *)
(* collection one at a time while checkpoints and other jobs change them,  *)
(* and an import adds rows between those of others: for any number of      *)
(* processes, collections and rows, what the job gathered is related at    *)
(* every step to what the files hold and to what was there at its start.   *)

(* A segment holds rows that were acknowledged.                            *)
SegsAcked ==
    \A c \in Cols : disk[c] # Absent =>
        \A n \in SegNos : disk[c].segs[n] # Absent => disk[c].segs[n] \subseteq acked[c]

(* Before the WAL is truncated the listed segment is the only one.         *)
CleanedUp ==
    \A o \in Live : objs[o].pc = "truncate" =>
        \A n \in SegNos \ {objs[o].seg_seq} : disk[objs[o].col].segs[n] = Absent

(* An open Db has every collection of the directory in its map, and a job  *)
(* runs on an open Db.                                                     *)
MapFull ==
    \A p \in Procs : dbs[p] = "open" =>
        \A c \in Cols : disk[c] # Absent => cols[p][c] # Absent
JobOpen == job # Absent => dbs[job.proc] = "open"

Around == SegsAcked /\ CleanedUp /\ MapFull /\ JobOpen

(* What was there when job j began is in the listed segment of c; in every *)
(* segment of c; in segment n, whose number the manifest once had, if that *)
(* is still there.                                                         *)
Saved(j, c) == disk[c] # Absent => j.since[c] \subseteq Listed(disk[c])
Clean(j, c) ==
    disk[c] # Absent => \A n \in SegNos :
        disk[c].segs[n] # Absent => j.since[c] \subseteq disk[c].segs[n]
Chosen(j, c, n) ==
    /\ disk[c] # Absent /\ n <= disk[c].listed
    /\ n = 0 => j.since[c] = {}
    /\ n # 0 /\ disk[c].segs[n] # Absent => j.since[c] \subseteq disk[c].segs[n]

(* What the job has yet to read.                                           *)
SourceOK(j) ==
    \A c \in Cols :
        /\ j.since[c] \subseteq acked[c]
        /\ j.kind = "verify" => Saved(j, c)
        /\ j.kind = "backup" /\ c \notin j.unsaved => Saved(j, c) /\ Clean(j, c)
        /\ j.kind = "export" /\ j.at = "save" /\ j.col = c /\ c \notin j.unsaved => Saved(j, c)
        /\ j.at = "rows" /\ j.col = c => \A n \in j.files : Chosen(j, c, n)

(* How far it is.                                                          *)
AtOK(j) ==
    /\ j.kind = "backup" => /\ j.at \in {"checkpoint_all", "next", "copy"}
                            /\ j.at # "checkpoint_all" => j.unsaved = {}
    /\ j.kind \in {"export", "verify"} => j.at \in {"next", "save", "rows"}
    /\ j.kind = "import" => j.at = "next" /\ j.left = {}
    /\ j.at = "rows" /\ j.files = {}
          => j.dirs[j.col] # Absent \/ \E n \in SegNos : <<j.col, n>> \in j.errors

(* What it has gathered of a collection.                                   *)
Gathered(j, c) ==
    /\ j.dirs[c].wal \subseteq acked[c]
    /\ \A n \in SegNos : j.dirs[c].segs[n] # Absent
          => j.since[c] \subseteq j.dirs[c].segs[n] /\ j.dirs[c].segs[n] \subseteq acked[c]
    /\ j.dirs[c].listed = 0
          => \/ j.since[c] \subseteq j.dirs[c].wal
             \/ j.at = "copy" /\ j.col = c /\ 0 \in j.files
CopyOK(j) ==
    j.kind # "import" => \A c \in Cols :
        IF j.dirs[c] = Absent
        THEN \/ j.since[c] = {} \/ c \in j.left \/ j.at = "checkpoint_all"
             \/ \E n \in SegNos : <<c, n>> \in j.errors
        ELSE Gathered(j, c)
Reported(j) == \A e \in j.errors : disk[e[1]] # Absent /\ disk[e[1]].listed > e[2]
Imported(j) ==
    j.kind = "import" => \A c \in Cols : j.dirs[c] # Absent =>
        \A r \in j.dirs[c].wal : <<c, r>> \in j.rest \/ r.id \in IdsOf(acked[c])

Fits(j) == SourceOK(j) /\ AtOK(j) /\ CopyOK(j) /\ Reported(j) /\ Imported(j)
JobInv == job # Absent => Fits(job)

-----------------------------------------------------------------------------
(* What steps do to the files.                                             *)

(* A step of the object o, and nothing beside it.                          *)
Works(o) ==
    /\ \/ objs[o].pc = "idle" /\ \E r \in Row : AddRow(o, r)
       \/ \E b \in BOOLEAN : WriteSegment(o, b) /\ UNCHANGED acked
       \/ WriteManifest(o) \/ Cleanup(o) \/ Truncate(o)
    /\ UNCHANGED <<dbs, cols>>

(* Every step is one of opening and closing, of one object, or of none.    *)
LEMMA Kinds ==
  ASSUME Inv, JobTyped, [Next]_vars
  PROVE  \/ \E p \in Procs : OpenAndClose(p)
         \/ \E o \in Live : Works(o)
         \/ UNCHANGED <<dbs, cols, objs, disk, acked>>
<1> USE DatabaseAssumption
<1>1. CASE Operation
  <2>1. ASSUME NEW p \in Procs, NEW o \in Objs, Remember(p, o) PROVE o \in Live /\ Works(o)
    <3>1. o \in Live
      BY <2>1 DEF Remember, Inv, Typed, Owned, InMap, Live
    <3>2. PICK id \in NextId(o) : AddRow(o, [id |-> id, by |-> p])
      BY <2>1 DEF Remember
    <3>3. [id |-> id, by |-> p] \in Row
      BY DEF NextId, Row
    <3> QED
      BY <2>1, <3>1, <3>2, <3>3 DEF Works, Remember, AddRow
  <2>2. ASSUME NEW p \in Procs, NEW o \in Objs, Checkpoint(p, o) PROVE o \in Live /\ Works(o)
    BY <2>2 DEF Checkpoint, WriteSegment, Saving, Works
  <2>3. ASSUME NEW o \in Objs, WriteManifest(o) \/ Cleanup(o) \/ Truncate(o)
        PROVE  o \in Live /\ Works(o)
    BY <2>3 DEF WriteManifest, Cleanup, Truncate, Works
  <2> QED
    BY <1>1, <2>1, <2>2, <2>3 DEF Operation
<1>2. CASE JobStep
  <2>1. ASSUME NEW o \in Objs, SaveForJob(o) PROVE o \in Live /\ Works(o)
    BY <2>1 DEF SaveForJob, WriteSegment, Saving, Works
  <2>2. ASSUME NEW c \in Cols, NEW r \in Row, ImportLine(c, r)
        PROVE  (\E o \in Live : Works(o)) \/ UNCHANGED <<dbs, cols, objs, disk, acked>>
    <3>1. job.proc \in Procs
      BY <2>2 DEF ImportLine, JobTyped, Job
    <3> DEFINE o == cols[job.proc][c]
    <3>2. /\ o \in Live /\ objs[o].pc = "idle"
          /\ \/ UNCHANGED <<lock, dbs, cols, handles, objs, disk, acked>>
             \/ AddRow(o, r)
      BY <2>2, <3>1, ImportedInto
    <3>3. AddRow(o, r) => UNCHANGED <<dbs, cols>>
      BY DEF AddRow
    <3> HIDE DEF o
    <3> QED
      BY <3>2, <3>3 DEF Works
  <2>3. ASSUME \/ \E p \in Procs, kind \in Jobs \ {"import"} : StartJob(p, kind)
               \/ \E p \in Procs, f \in Files : StartImport(p, f)
        PROVE  UNCHANGED <<dbs, cols, objs, disk, acked>>
    BY <2>3 DEF StartJob, StartImport, Begun, AllJobs
  <2> QED
    BY <1>2, <2>1, <2>2, <2>3 DEF JobStep, NextCollection, CopyFile, BadLine, AllSaved,
       ReadManifest, ReadRows, DoneWith, FinishJob
<1> QED
  BY <1>1, <1>2 DEF Next, vars

(* The files of a collection only move on: manifest.json never lists an    *)
(* earlier segment, the listed one never loses a row, and no segment that  *)
(* was listed once is written again.                                       *)
MovesOn(old, new, rows) ==
    /\ new # Absent
    /\ old.listed <= new.listed /\ Listed(old) \subseteq Listed(new)
    /\ \A n \in SegNos : \/ new.segs[n] = old.segs[n] \/ new.segs[n] = Absent
                         \/ n > old.listed /\ new.segs[n] = rows
Grows(c) ==
    /\ acked[c] \subseteq acked'[c]
    /\ disk[c] = Absent => disk'[c] \in {Absent, NoDir}
    /\ disk[c] # Absent => MovesOn(disk[c], disk'[c], acked[c])

LEMMA WorksGrows ==
  ASSUME Inv, NEW o \in Live, Works(o)
  PROVE  /\ \A c \in Cols : Grows(c)
         /\ \A c \in Cols \ {objs[o].col} : disk'[c] = disk[c]
         /\ disk[objs[o].col] # Absent
<1> USE DatabaseAssumption
<1> DEFINE c == objs[o].col
<1>1. /\ objs[o] \in Object /\ objs[o].rows \in SUBSET Row
      /\ c \in Cols /\ disk[c] \in Dir /\ disk[c] # Absent
      /\ disk[c].listed \in 0 .. MaxSeg /\ objs[o].seg_seq \in 0 .. MaxSeg
      /\ disk[c].segs \in [SegNos -> {Absent} \cup SUBSET Row]
      /\ Readable(disk[c]) /\ Recovered(disk[c]) = acked[c] /\ objs[o].rows = acked[c]
  BY LiveTyped DEF Inv, Durable, Typed, Dir
<1>2. /\ objs[o].seg_seq = IF objs[o].pc = "manifest" THEN disk[c].listed + 1 ELSE disk[c].listed
      /\ objs[o].pc # "idle" => objs[o].seg_seq # 0 /\ disk[c].segs[objs[o].seg_seq] = acked[c]
  BY <1>1 DEF Inv, Durable
<1>3. ASSUME NEW d \in Dir, disk' = [disk EXCEPT ![c] = d], MovesOn(disk[c], d, acked[c]),
             \A k \in Cols : acked[k] \subseteq acked'[k]
      PROVE  (\A k \in Cols : Grows(k)) /\ \A k \in Cols \ {c} : disk'[k] = disk[k]
  <2>2. \A k \in Cols : disk'[k] = IF k = c THEN d ELSE disk[k]
    BY <1>1, <1>3 DEF Inv, Typed
  <2>3. \A k \in Cols : disk[k] # Absent => MovesOn(disk[k], disk[k], acked[k])
    BY DEF MovesOn, Inv, Typed, Dir
  <2> QED
    BY <1>1, <1>3, <2>2, <2>3 DEF Grows
<1>4. ASSUME NEW r \in Row, AddRow(o, r)
      PROVE  (\A k \in Cols : Grows(k)) /\ \A k \in Cols \ {c} : disk'[k] = disk[k]
  <2> DEFINE d == [disk[c] EXCEPT !.wal = @ \cup {r}]
  <2>1. d \in Dir /\ disk' = [disk EXCEPT ![c] = d]
    BY <1>1, <1>4 DEF AddRow, Dir
  <2>2. MovesOn(disk[c], d, acked[c])
    <3>1. d.listed = disk[c].listed /\ d.segs = disk[c].segs
      BY <1>1 DEF Dir
    <3>2. d # Absent
      BY <2>1
    <3> HIDE DEF d
    <3> QED
      BY <1>1, <3>1, <3>2 DEF MovesOn, Listed
  <2>3. \A k \in Cols : acked[k] \subseteq acked'[k]
    BY <1>1, <1>4 DEF AddRow, Inv, Typed
  <2> HIDE DEF d
  <2> QED
    BY <1>1, <1>3, <2>1, <2>2, <2>3
<1>5. ASSUME NEW b \in BOOLEAN, WriteSegment(o, b), UNCHANGED acked
      PROVE  (\A k \in Cols : Grows(k)) /\ \A k \in Cols \ {c} : disk'[k] = disk[k]
  <2> DEFINE n    == objs[o].seg_seq + 1
             segs == [disk[c].segs EXCEPT ![n] = objs[o].rows]
             d    == [disk[c] EXCEPT !.segs = segs]
  <2>1. n \in SegNos /\ n = disk[c].listed + 1
    <3>1. objs[o].pc = "idle" /\ objs[o].seg_seq < MaxSeg
      BY <1>5 DEF WriteSegment, Saving
    <3>2. objs[o].seg_seq = disk[c].listed
      BY <1>2, <3>1
    <3> QED
      BY <1>1, <3>1, <3>2 DEF SegNos
  <2>2. segs \in [SegNos -> {Absent} \cup SUBSET Row]
    BY <1>1
  <2>3. d \in Dir /\ disk' = [disk EXCEPT ![c] = d]
    BY <1>1, <1>5, <2>2 DEF WriteSegment, Dir
  <2>4. d.listed = disk[c].listed /\ d.segs = segs
    BY <1>1 DEF Dir
  <2>5. Listed(d) = Listed(disk[c])
    BY <1>1, <2>1, <2>4 DEF Listed, SegNos
  <2>6. MovesOn(disk[c], d, acked[c])
    <3>1. \A k \in SegNos : segs[k] = disk[c].segs[k] \/ (k > disk[c].listed /\ segs[k] = acked[c])
      <4>1. \A k \in SegNos : segs[k] = IF k = n THEN acked[c] ELSE disk[c].segs[k]
        BY <1>1
      <4>2. n > disk[c].listed
        BY <1>1, <2>1
      <4> QED
        BY <4>1, <4>2
    <3>2. d # Absent
      BY <1>1, <2>3
    <3>3. disk[c].listed <= d.listed
      BY <1>1, <2>4 DEF Dir
    <3>4. Listed(disk[c]) \subseteq Listed(d)
      BY <2>5
    <3>5. \A k \in SegNos : d.segs[k] = disk[c].segs[k] \/ (k > disk[c].listed /\ d.segs[k] = acked[c])
      BY <2>4, <3>1
    <3> HIDE DEF d, segs, n
    <3> QED
      BY <3>2, <3>3, <3>4, <3>5 DEF MovesOn
  <2> HIDE DEF d
  <2> QED
    BY <1>3, <1>5, <2>3, <2>6
<1>6. CASE WriteManifest(o)
  <2> DEFINE d == [disk[c] EXCEPT !.listed = objs[o].seg_seq]
  <2>1. d \in Dir /\ disk' = [disk EXCEPT ![c] = d] /\ acked' = acked
    BY <1>1, <1>6 DEF WriteManifest, Dir
  <2>2. objs[o].pc = "manifest"
    BY <1>6 DEF WriteManifest
  <2>3. d.listed = disk[c].listed + 1 /\ d.segs = disk[c].segs /\ Listed(d) = acked[c]
    BY <1>1, <1>2, <2>2 DEF Dir, Listed
  <2>4. Listed(disk[c]) \subseteq acked[c]
    BY <1>1 DEF Recovered
  <2>5. MovesOn(disk[c], d, acked[c])
    <3>1. d # Absent /\ disk[c].listed <= d.listed
      BY <1>1, <2>1, <2>3
    <3>2. Listed(disk[c]) \subseteq Listed(d)
      BY <2>3, <2>4
    <3>3. \A k \in SegNos : d.segs[k] = disk[c].segs[k]
      BY <2>3
    <3> HIDE DEF d
    <3> QED
      BY <3>1, <3>2, <3>3 DEF MovesOn
  <2>6. \A k \in Cols : acked[k] \subseteq acked'[k]
    BY <2>1
  <2> HIDE DEF d
  <2> QED
    BY <1>1, <1>3, <2>1, <2>5, <2>6
<1>7. CASE Cleanup(o)
  <2> DEFINE segs == [n \in SegNos |-> IF n = objs[o].seg_seq THEN disk[c].segs[n] ELSE Absent]
             d    == [disk[c] EXCEPT !.segs = segs]
  <2>1. d \in Dir /\ disk' = [disk EXCEPT ![c] = d] /\ acked' = acked
    BY <1>1, <1>7 DEF Cleanup, Dir
  <2>2. objs[o].seg_seq = disk[c].listed /\ disk[c].listed \in SegNos
    BY <1>1, <1>2, <1>7 DEF Cleanup, SegNos
  <2>3. d.listed = disk[c].listed /\ d.segs = segs
    BY <1>1 DEF Dir
  <2>4. Listed(d) = Listed(disk[c])
    BY <2>2, <2>3 DEF Listed
  <2>5. MovesOn(disk[c], d, acked[c])
    <3>1. d # Absent
      BY <1>1, <2>1
    <3>2. disk[c].listed <= d.listed
      BY <1>1, <2>3
    <3>3. Listed(disk[c]) \subseteq Listed(d)
      BY <2>4
    <3>4. \A k \in SegNos : d.segs[k] = disk[c].segs[k] \/ d.segs[k] = Absent
      BY <2>3
    <3> HIDE DEF d, segs
    <3> QED
      BY <3>1, <3>2, <3>3, <3>4 DEF MovesOn
  <2>6. \A k \in Cols : acked[k] \subseteq acked'[k]
    BY <2>1
  <2> HIDE DEF d
  <2> QED
    BY <1>1, <1>3, <2>1, <2>5, <2>6
<1>8. CASE Truncate(o)
  <2> DEFINE d == [disk[c] EXCEPT !.wal = {}]
  <2>1. d \in Dir /\ disk' = [disk EXCEPT ![c] = d] /\ acked' = acked
    BY <1>1, <1>8 DEF Truncate, Dir
  <2>2. MovesOn(disk[c], d, acked[c])
    BY <1>1 DEF MovesOn, Listed, Dir
  <2>3. \A k \in Cols : acked[k] \subseteq acked'[k]
    BY <2>1
  <2> HIDE DEF d
  <2> QED
    BY <1>1, <1>3, <2>1, <2>2, <2>3
<1> QED
  BY <1>1, <1>4, <1>5, <1>6, <1>7, <1>8 DEF Works

LEMMA StepGrows ==
  ASSUME Inv, JobTyped, [Next]_vars
  PROVE  \A c \in Cols : Grows(c)
<1>1. ASSUME NEW c \in Cols, acked'[c] = acked[c],
             disk'[c] = disk[c] \/ (disk[c] = Absent /\ disk'[c] = NoDir)
      PROVE  Grows(c)
  BY <1>1 DEF Grows, MovesOn, Inv, Typed, Dir
<1>2. CASE UNCHANGED <<dbs, cols, objs, disk, acked>>
  <2>1. \A c \in Cols : acked'[c] = acked[c] /\ disk'[c] = disk[c]
    BY <1>2
  <2> QED
    BY <1>1, <2>1
<1>3. ASSUME NEW p \in Procs, OpenAndClose(p) PROVE \A c \in Cols : Grows(c)
  <2>1. acked' = acked
    BY <1>3 DEF OpenAndClose, AcquireLock, FinishOpen, DropMap, Unlock, Die, OpenCollection,
                TakeHandle, DropHandle
  <2>2. CASE disk' = disk
    <3>1. \A c \in Cols : acked'[c] = acked[c] /\ disk'[c] = disk[c]
      BY <2>1, <2>2
    <3> QED
      BY <1>1, <3>1
  <2>3. ASSUME NEW k \in Cols, NEW o \in Objs, OpenCollection(p, k, o)
        PROVE  \A c \in Cols : Grows(c)
    <3>1. \A c \in Cols : disk'[c] = disk[c] \/ (disk[c] = Absent /\ disk'[c] = NoDir)
      <4>1. disk' = [disk EXCEPT ![k] = IF disk[k] = Absent THEN NoDir ELSE disk[k]]
        BY <2>3 DEF OpenCollection
      <4> QED
        BY <4>1 DEF Inv, Typed
    <3>2. \A c \in Cols : acked'[c] = acked[c]
      BY <2>1
    <3> QED
      BY <1>1, <3>1, <3>2
  <2> QED
    BY <1>3, <2>2, <2>3 DEF OpenAndClose, AcquireLock, FinishOpen, DropMap, Unlock, Die,
                            TakeHandle, DropHandle
<1> QED
  BY <1>2, <1>3, Kinds, WorksGrows

-----------------------------------------------------------------------------
(* Around is kept.                                                         *)

LEMMA StepSegsAcked ==
  ASSUME Inv, JobTyped, SegsAcked, [Next]_vars
  PROVE  SegsAcked'
<1> SUFFICES ASSUME NEW c \in Cols, disk'[c] # Absent,
                    NEW n \in SegNos, disk'[c].segs[n] # Absent
             PROVE  disk'[c].segs[n] \subseteq acked'[c]
  BY DEF SegsAcked
<1>1. Grows(c)
  BY StepGrows
<1>2. CASE disk[c] = Absent
  BY <1>1, <1>2 DEF Grows, NoDir
<1>3. CASE disk[c] # Absent
  BY <1>1, <1>3 DEF Grows, MovesOn, SegsAcked
<1> QED
  BY <1>2, <1>3

LEMMA OtherObjects ==
  ASSUME Inv, NEW o \in Live, NEW q \in Live, o # q
  PROVE  objs[o].col # objs[q].col
<1>1. objs[o].proc = objs[q].proc
  BY ObjectUnderLock
<1> QED
  BY <1>1 DEF Inv, Owned

LEMMA WorksCleanedUp ==
  ASSUME Inv, CleanedUp, NEW o \in Live, Works(o)
  PROVE  CleanedUp'
<1> USE DatabaseAssumption
<1> DEFINE c == objs[o].col
<1>1. /\ o \in Objs /\ objs \in [Objs -> Object \cup {Absent}] /\ objs[o] \in Object
      /\ c \in Cols /\ disk[c] \in Dir /\ disk \in [Cols -> Dir \cup {Absent}]
  BY LiveTyped DEF Inv, Typed, Durable
<1>2. ASSUME NEW new \in Object, objs' = [objs EXCEPT ![o] = new], new.col = c,
             new.pc = "truncate" => /\ new.seg_seq = objs[o].seg_seq
                                    /\ \A n \in SegNos \ {new.seg_seq} : disk'[c].segs[n] = Absent
      PROVE  CleanedUp'
  <2> SUFFICES ASSUME NEW q \in Live', objs'[q].pc = "truncate",
                      NEW n \in SegNos \ {objs'[q].seg_seq}
               PROVE  disk'[objs'[q].col].segs[n] = Absent
    BY DEF CleanedUp
  <2>1. CASE q = o
    BY <1>1, <1>2, <2>1
  <2>2. CASE q # o
    <3>1. q \in Live /\ objs'[q] = objs[q]
      BY <1>1, <1>2, <2>2 DEF Live
    <3>2. objs[q].col \in Cols /\ objs[q].col # c
      BY <2>2, <3>1, LiveTyped, OtherObjects DEF Inv
    <3>3. disk'[objs[q].col] = disk[objs[q].col]
      BY <3>2, WorksGrows
    <3> QED
      BY <3>1, <3>3 DEF CleanedUp
  <2> QED
    BY <2>1, <2>2
<1>3. ASSUME objs[o].pc = "idle", NEW r \in Row, AddRow(o, r) PROVE CleanedUp'
  <2> DEFINE new == [objs[o] EXCEPT !.rows = @ \cup {r}]
  <2>1. new \in Object /\ new.col = c /\ new.pc = "idle" /\ objs' = [objs EXCEPT ![o] = new]
    BY <1>1, <1>3 DEF AddRow, Object
  <2> HIDE DEF new
  <2> QED
    BY <1>2, <2>1
<1>4. ASSUME NEW b \in BOOLEAN, WriteSegment(o, b) PROVE CleanedUp'
  <2> DEFINE new == [objs[o] EXCEPT !.seg_seq = @ + 1, !.pc = "manifest", !.for_job = b]
  <2>1. objs[o].seg_seq \in 0 .. MaxSeg /\ objs[o].seg_seq + 1 \in 0 .. MaxSeg
    BY <1>1, <1>4 DEF WriteSegment, Saving, Object
  <2>2. new \in Object /\ new.col = c /\ new.pc = "manifest"
    BY <1>1, <2>1 DEF Object
  <2>3. objs' = [objs EXCEPT ![o] = new]
    BY <1>1, <1>4 DEF WriteSegment
  <2> HIDE DEF new
  <2> QED
    BY <1>2, <2>2, <2>3
<1>5. CASE WriteManifest(o)
  <2> DEFINE new == [objs[o] EXCEPT !.pc = "cleanup"]
  <2>1. new \in Object /\ new.col = c /\ new.pc = "cleanup" /\ objs' = [objs EXCEPT ![o] = new]
    BY <1>1, <1>5 DEF WriteManifest, Object
  <2> HIDE DEF new
  <2> QED
    BY <1>2, <2>1
<1>6. CASE Cleanup(o)
  <2> DEFINE new  == [objs[o] EXCEPT !.pc = "truncate"]
             segs == [n \in SegNos |-> IF n = objs[o].seg_seq THEN disk[c].segs[n] ELSE Absent]
  <2>1. /\ new \in Object /\ new.col = c /\ objs' = [objs EXCEPT ![o] = new]
        /\ new.seg_seq = objs[o].seg_seq
    BY <1>1, <1>6 DEF Cleanup, Object
  <2>2. disk' = [disk EXCEPT ![c].segs = segs]
    BY <1>1, <1>6 DEF Cleanup
  <2>3. disk'[c].segs = segs
    BY <1>1, <2>2 DEF Dir
  <2>4. \A n \in SegNos \ {new.seg_seq} : disk'[c].segs[n] = Absent
    BY <2>1, <2>3
  <2> HIDE DEF new
  <2> QED
    BY <1>2, <2>1, <2>4
<1>7. CASE Truncate(o)
  <2> DEFINE new == [objs[o] EXCEPT !.pc = "idle", !.for_job = FALSE]
  <2>1. new \in Object /\ new.col = c /\ new.pc = "idle" /\ objs' = [objs EXCEPT ![o] = new]
    BY <1>1, <1>7 DEF Truncate, Object
  <2> HIDE DEF new
  <2> QED
    BY <1>2, <2>1
<1> QED
  BY <1>3, <1>4, <1>5, <1>6, <1>7 DEF Works

(* Opening and closing makes objects that are idle and takes others away.  *)
LEMMA OpenCleanedUp ==
  ASSUME Inv, CleanedUp, NEW p \in Procs, OpenAndClose(p)
  PROVE  CleanedUp'
<1> USE DatabaseAssumption
<1>1. ASSUME disk' = disk, \A o \in Live' : o \in Live /\ objs'[o] = objs[o] PROVE CleanedUp'
  BY <1>1 DEF CleanedUp
<1>2. ASSUME NEW c \in Cols, NEW o \in Objs, OpenCollection(p, c, o) PROVE CleanedUp'
  <2> DEFINE d   == IF disk[c] = Absent THEN NoDir ELSE disk[c]
             new == [proc |-> p, col |-> c, rows |-> Recovered(d), seg_seq |-> d.listed,
                     pc |-> "idle", for_job |-> FALSE]
  <2>1. objs' = [objs EXCEPT ![o] = new] /\ disk' = [disk EXCEPT ![c] = d] /\ o \notin Live
    BY <1>2 DEF OpenCollection
  <2>2. objs'[o].pc = "idle" /\ \A q \in Objs \ {o} : objs'[q] = objs[q]
    BY <2>1 DEF Inv, Typed
  <2>3. ASSUME NEW q \in Live', objs'[q].pc = "truncate"
        PROVE  \A n \in SegNos \ {objs'[q].seg_seq} : disk'[objs'[q].col].segs[n] = Absent
    <3>1. q # o /\ q \in Live /\ objs'[q] = objs[q]
      BY <2>2, <2>3 DEF Live
    <3>2. objs[q].col \in Cols /\ disk[objs[q].col] # Absent
      BY <3>1, LiveTyped DEF Inv, Durable
    <3>3. disk'[objs[q].col] = disk[objs[q].col]
      BY <2>1, <3>2 DEF Inv, Typed
    <3> QED
      BY <2>3, <3>1, <3>3 DEF CleanedUp
  <2> QED
    BY <2>3 DEF CleanedUp
<1>3. CASE AcquireLock(p) \/ FinishOpen(p) \/ Unlock(p) \/ \E o \in Objs : TakeHandle(p, o)
  <2>1. disk' = disk /\ objs' = objs
    BY <1>3 DEF AcquireLock, FinishOpen, Unlock, TakeHandle
  <2>2. \A o \in Live' : o \in Live /\ objs'[o] = objs[o]
    BY <2>1 DEF Live
  <2> QED
    BY <1>1, <2>1, <2>2
<1>4. CASE DropMap(p) \/ \E o \in Objs : DropHandle(p, o)
  <2>1. disk' = disk /\ \E gone \in SUBSET Objs : objs' = Dropped(gone)
    <3>1. InMap(p) \subseteq Objs
      BY DEF InMap, Inv, Typed
    <3> QED
      BY <1>4, <3>1 DEF DropMap, DropHandle
  <2>2. \A o \in Live' : o \in Live /\ objs'[o] = objs[o]
    BY <2>1 DEF Live, Dropped
  <2> QED
    BY <1>1, <2>1, <2>2
<1>5. CASE Die(p)
  <2>1. disk' = disk /\ objs' = Without(p)
    BY <1>5 DEF Die
  <2>2. \A o \in Live' : o \in Live /\ objs'[o] = objs[o]
    BY <2>1 DEF Live, Without
  <2> QED
    BY <1>1, <2>1, <2>2
<1> QED
  BY <1>2, <1>3, <1>4, <1>5 DEF OpenAndClose

LEMMA StepMapFull ==
  ASSUME Inv, JobTyped, MapFull, [Next]_vars
  PROVE  MapFull'
<1> USE DatabaseAssumption
<1>1. ASSUME UNCHANGED <<dbs, cols>>, \A c \in Cols : disk'[c] # Absent => disk[c] # Absent
      PROVE  MapFull'
  BY <1>1 DEF MapFull
<1>2. ASSUME NEW o \in Live, Works(o) PROVE MapFull'
  <2>1. UNCHANGED <<dbs, cols>>
    BY <1>2 DEF Works
  <2>2. \A c \in Cols : disk'[c] # Absent => disk[c] # Absent
    BY <1>2, WorksGrows
  <2> QED
    BY <1>1, <2>1, <2>2
<1>3. ASSUME NEW p \in Procs, OpenAndClose(p) PROVE MapFull'
  <2>1. CASE \E c \in Cols, o \in Objs : OpenCollection(p, c, o)
    <3>1. PICK c \in Cols, o \in Objs : OpenCollection(p, c, o)
      BY <2>1
    <3>2. /\ cols' = [cols EXCEPT ![p][c] = o] /\ dbs' = dbs /\ o # Absent
          /\ \A k \in Cols \ {c} : disk'[k] = disk[k]
      BY <3>1 DEF OpenCollection, Inv, Typed
    <3>3. dbs[p] # "closed" /\ \A q \in Procs : dbs[q] = "open" => q = p
      BY <3>1 DEF OpenCollection, Inv, Owned
    <3>4. \A k \in Cols : cols'[p][k] = IF k = c THEN o ELSE cols[p][k]
      BY <3>2 DEF Inv, Typed
    <3> QED
      BY <3>2, <3>3, <3>4 DEF MapFull
  <2>2. CASE FinishOpen(p)
    BY <2>2 DEF FinishOpen, MapFull, Inv, Typed
  <2>3. CASE AcquireLock(p) \/ Unlock(p)
    BY <2>3 DEF AcquireLock, Unlock, MapFull, Inv, Typed
  <2>4. CASE DropMap(p) \/ Die(p)
    <3>1. /\ disk' = disk /\ dbs'[p] # "open"
          /\ \A q \in Procs \ {p} : dbs'[q] = dbs[q] /\ cols'[q] = cols[q]
      BY <2>4 DEF DropMap, Die, Inv, Typed
    <3> QED
      BY <3>1 DEF MapFull
  <2>5. CASE \E o \in Objs : TakeHandle(p, o) \/ DropHandle(p, o)
    BY <2>5 DEF TakeHandle, DropHandle, MapFull
  <2> QED
    BY <1>3, <2>1, <2>2, <2>3, <2>4, <2>5 DEF OpenAndClose
<1> QED
  BY <1>1, <1>2, <1>3, Kinds

LEMMA StepJobOpen ==
  ASSUME Inv, JobTyped, JobOpen, [Next]_vars
  PROVE  JobOpen'
<1> USE DatabaseAssumption
<1>1. job # Absent => job \in Job /\ job.proc \in Procs /\ dbs[job.proc] = "open"
  BY DEF JobTyped, Job, JobOpen
<1>2. CASE dbs' = dbs /\ (job' = Absent \/ (job # Absent /\ job'.proc = job.proc))
  BY <1>1, <1>2 DEF JobOpen
<1>3. ASSUME NEW p \in Procs, OpenAndClose(p) PROVE JobOpen'
  <2>1. CASE AcquireLock(p) \/ FinishOpen(p) \/ DropMap(p) \/ Unlock(p)
    BY <1>1, <2>1 DEF AcquireLock, FinishOpen, DropMap, Unlock, JobOpen, Inv, Typed
  <2>2. CASE Die(p)
    <3>1. CASE job # Absent /\ job.proc = p
      BY <2>2, <3>1 DEF Die, JobOpen
    <3>2. CASE ~(job # Absent /\ job.proc = p)
      <4>1. job' = job /\ \A q \in Procs \ {p} : dbs'[q] = dbs[q]
        BY <2>2, <3>2 DEF Die, Inv, Typed
      <4> QED
        BY <1>1, <3>2, <4>1 DEF JobOpen
    <3> QED
      BY <3>1, <3>2
  <2>3. CASE \/ \E c \in Cols, o \in Objs : OpenCollection(p, c, o)
             \/ \E o \in Objs : TakeHandle(p, o) \/ DropHandle(p, o)
    BY <1>1, <2>3 DEF OpenCollection, TakeHandle, DropHandle, JobOpen
  <2> QED
    BY <1>3, <2>1, <2>2, <2>3 DEF OpenAndClose
<1>4. CASE Operation
  <2>1. dbs' = dbs
    BY <1>4 DEF Operation, Remember, AddRow, Checkpoint, WriteManifest, Cleanup, Truncate
  <2>2. CASE job' = job
    BY <2>1, <2>2 DEF JobOpen
  <2>3. ASSUME NEW o \in Objs, Truncate(o), job # Absent PROVE job'.proc = job.proc
    BY <1>1, <2>3 DEF Truncate, Job
  <2>4. ASSUME NEW o \in Objs, Truncate(o), job = Absent PROVE job' = job
    BY <2>4 DEF Truncate
  <2> QED
    BY <1>2, <1>4, <2>1, <2>2, <2>3, <2>4
       DEF Operation, Remember, Checkpoint, WriteManifest, Cleanup
<1>5. CASE JobStep
  <2>1. ASSUME NEW p \in Procs, \/ \E kind \in Jobs \ {"import"} : StartJob(p, kind)
                                \/ \E f \in Files : StartImport(p, f)
        PROVE  JobOpen'
    <3>1. ASSUME NEW j, Begun(j) PROVE job' = j /\ dbs'[j.proc] = "open"
      BY <3>1 DEF Begun
    <3> QED
      BY <2>1, <3>1 DEF StartJob, StartImport, AllJobs, JobOpen
  <2>2. CASE ~\/ \E p \in Procs, kind \in Jobs \ {"import"} : StartJob(p, kind)
              \/ \E p \in Procs, f \in Files : StartImport(p, f)
    <3>1. ASSUME NEW c \in Cols, NEW r \in Row, ImportLine(c, r)
          PROVE  dbs' = dbs /\ job # Absent /\ job'.proc = job.proc
      BY <1>1, <3>1 DEF ImportLine, ImportRow, AddRow, Job
    <3>2. ASSUME NEW o \in Objs, SaveForJob(o) PROVE dbs' = dbs /\ job' = job
      BY <3>2 DEF SaveForJob
    <3>3. CASE \/ \E c \in Cols : NextCollection(c)
               \/ \E n \in 0 .. MaxSeg : CopyFile(n)
               \/ AllSaved \/ ReadManifest \/ ReadRows \/ DoneWith
      <4>1. dbs' = dbs /\ job # Absent
        BY <3>3 DEF NextCollection, CopyFile, AllSaved, ReadManifest, ReadRows, DoneWith
      <4>2. job' = Absent \/ job'.proc = job.proc
        <5>1. ASSUME NEW c \in Cols, NextCollection(c) PROVE job'.proc = job.proc
          BY <1>1, <5>1 DEF NextCollection, Job
        <5>2. ASSUME NEW n \in 0 .. MaxSeg, CopyFile(n) PROVE job' = Absent \/ job'.proc = job.proc
          BY <1>1, <5>2 DEF CopyFile, Job
        <5>3. CASE AllSaved \/ ReadManifest \/ DoneWith
          BY <1>1, <5>3 DEF AllSaved, ReadManifest, DoneWith, Job
        <5>4. CASE ReadRows
          BY <1>1, <5>4 DEF ReadRows, Job
        <5> QED
          BY <3>3, <5>1, <5>2, <5>3, <5>4
      <4> QED
        BY <1>2, <4>1, <4>2
    <3>4. CASE BadLine \/ FinishJob
      BY <3>4 DEF BadLine, FinishJob, JobOpen
    <3> QED
      BY <1>1, <1>2, <1>5, <2>2, <3>1, <3>2, <3>3, <3>4 DEF JobStep
  <2> QED
    BY <2>1, <2>2
<1> QED
  BY <1>1, <1>2, <1>3, <1>4, <1>5 DEF Next, vars

LEMMA StepAround ==
  ASSUME Inv, JobTyped, Around, [Next]_vars
  PROVE  Around'
<1>1. CleanedUp'
  <2>1. CASE UNCHANGED <<dbs, cols, objs, disk, acked>>
    BY <2>1 DEF Around, CleanedUp, Live
  <2> QED
    BY <2>1, Kinds, WorksCleanedUp, OpenCleanedUp DEF Around
<1> QED
  BY <1>1, StepSegsAcked, StepMapFull, StepJobOpen DEF Around

-----------------------------------------------------------------------------
(* What the job has, while others work.                                    *)

LEMMA SavedFrame ==
  ASSUME Inv, Inv', NEW j \in Job, NEW c \in Cols, Grows(c), j.since[c] \subseteq acked[c]
  PROVE  /\ Saved(j, c) => Saved(j, c)'
         /\ Clean(j, c) => Clean(j, c)'
         /\ \A n \in 0 .. MaxSeg : Chosen(j, c, n) => Chosen(j, c, n)'
<1> USE DatabaseAssumption
<1>1. CASE disk[c] = Absent
  <2>1. acked[c] = {} /\ j.since[c] = {}
    BY <1>1 DEF Inv, Durable
  <2> QED
    BY <1>1, <2>1 DEF Saved, Clean, Chosen
<1>2. CASE disk[c] # Absent
  <2>1. /\ disk'[c] # Absent
        /\ disk[c].listed <= disk'[c].listed /\ Listed(disk[c]) \subseteq Listed(disk'[c])
        /\ \A n \in SegNos : \/ disk'[c].segs[n] = disk[c].segs[n] \/ disk'[c].segs[n] = Absent
                             \/ n > disk[c].listed /\ disk'[c].segs[n] = acked[c]
    BY <1>2 DEF Grows, MovesOn
  <2>2. Saved(j, c) => Saved(j, c)'
    BY <1>2, <2>1 DEF Saved
  <2>3. Clean(j, c) => Clean(j, c)'
    BY <1>2, <2>1 DEF Clean
  <2>4. ASSUME NEW n \in 0 .. MaxSeg, Chosen(j, c, n) PROVE Chosen(j, c, n)'
    <3>1. n <= disk[c].listed /\ (n # 0 => n \in SegNos) /\ disk[c].listed \in Nat
      BY <1>2, <2>4 DEF Chosen, SegNos, Inv, Typed, Dir
    <3>2. disk'[c].listed \in Nat
      BY <2>1 DEF Inv, Typed, Dir
    <3>3. n <= disk'[c].listed
      BY <2>1, <3>1, <3>2
    <3>4. n # 0 => disk'[c].segs[n] = disk[c].segs[n] \/ disk'[c].segs[n] = Absent
      BY <2>1, <3>1
    <3> QED
      BY <1>2, <2>1, <2>4, <3>3, <3>4 DEF Chosen
  <2> QED
    BY <2>2, <2>3, <2>4
<1> QED
  BY <1>1, <1>2

(* The parts of a job that are about others' files and rows.               *)
LEMMA PartsFrame ==
  ASSUME Inv, Inv', NEW j \in Job, \A c \in Cols : Grows(c)
  PROVE  /\ SourceOK(j) => SourceOK(j)'
         /\ CopyOK(j) => CopyOK(j)'
         /\ Reported(j) => Reported(j)'
         /\ Imported(j) => Imported(j)'
<1> USE DatabaseAssumption
<1>1. \A c \in Cols : acked[c] \subseteq acked'[c]
  BY DEF Grows
<1>2. ASSUME SourceOK(j) PROVE SourceOK(j)'
  <2> SUFFICES ASSUME NEW c \in Cols
               PROVE  /\ j.since[c] \subseteq acked'[c]
                      /\ j.kind = "verify" => Saved(j, c)'
                      /\ j.kind = "backup" /\ c \notin j.unsaved => Saved(j, c)' /\ Clean(j, c)'
                      /\ j.kind = "export" /\ j.at = "save" /\ j.col = c /\ c \notin j.unsaved
                            => Saved(j, c)'
                      /\ j.at = "rows" /\ j.col = c => \A n \in j.files : Chosen(j, c, n)'
    BY DEF SourceOK
  <2>1. j.since[c] \subseteq acked[c] /\ j.files \subseteq 0 .. MaxSeg
    BY <1>2 DEF SourceOK, Job
  <2>2. /\ Saved(j, c) => Saved(j, c)'
        /\ Clean(j, c) => Clean(j, c)'
        /\ \A n \in 0 .. MaxSeg : Chosen(j, c, n) => Chosen(j, c, n)'
    BY <2>1, SavedFrame
  <2> QED
    BY <1>1, <1>2, <2>1, <2>2 DEF SourceOK
<1>3. ASSUME CopyOK(j) PROVE CopyOK(j)'
  <2>1. \A c \in Cols : Gathered(j, c) => Gathered(j, c)'
    BY <1>1 DEF Gathered
  <2> QED
    BY <1>3, <2>1 DEF CopyOK
<1>4. ASSUME Reported(j) PROVE Reported(j)'
  <2> SUFFICES ASSUME NEW e \in j.errors PROVE disk'[e[1]] # Absent /\ disk'[e[1]].listed > e[2]
    BY DEF Reported
  <2>1. e[1] \in Cols /\ e[2] \in SegNos /\ disk[e[1]] # Absent /\ disk[e[1]].listed > e[2]
    BY <1>4 DEF Reported, Job, Missing
  <2>2. disk'[e[1]] # Absent /\ disk[e[1]].listed <= disk'[e[1]].listed
    BY <2>1 DEF Grows, MovesOn
  <2>3. disk[e[1]].listed \in Nat /\ disk'[e[1]].listed \in Nat /\ e[2] \in Nat
    BY <2>1, <2>2 DEF Inv, Typed, Dir, SegNos
  <2> QED
    BY <2>1, <2>2, <2>3
<1>5. ASSUME Imported(j) PROVE Imported(j)'
  BY <1>1, <1>5 DEF Imported, IdsOf
<1> QED
  BY <1>2, <1>3, <1>4, <1>5

-----------------------------------------------------------------------------
(* The steps of the job. Each lemma says that what the step makes of the   *)
(* job fits the files and rows it was made from; PartsFrame carries that   *)
(* over to what the step leaves.                                           *)

LEMMA StartFits ==
  ASSUME Inv, Around, NEW p \in Procs, NEW k, k = job',
         \/ \E kind \in Jobs \ {"import"} : StartJob(p, kind)
         \/ \E f \in Files : StartImport(p, f)
  PROVE  Fits(k)
<1> USE DatabaseAssumption
<1>1. \A c \in Cols : acked[c] \in SUBSET Row /\ (disk[c] = Absent => acked[c] = {})
  BY DEF Inv, Typed, Durable
<1>2. \A c \in Cols : disk[c] # Absent => Listed(disk[c]) \subseteq acked[c]
  BY DEF Inv, Durable, Recovered
<1>3. ASSUME dbs[p] = "open", NEW c \in Cols, c \notin Names(p) PROVE disk[c] = Absent
  BY <1>3 DEF Around, MapFull, Names
<1>4. ASSUME StartJob(p, "backup") PROVE Fits(k)
  <2> DEFINE new == [NewJob(p, "backup") EXCEPT !.at = "checkpoint_all", !.unsaved = Names(p)]
  <2>1. dbs[p] = "open" /\ k = new
    BY <1>4 DEF StartJob, Begun, NewJob
  <2>2. /\ k.kind = "backup" /\ k.at = "checkpoint_all" /\ k.unsaved = Names(p)
        /\ k.dirs = [c \in Cols |-> Absent] /\ k.errors = {} /\ k.since = acked
    BY <2>1 DEF NewJob
  <2> QED
    BY <1>1, <1>3, <2>1, <2>2
       DEF Fits, SourceOK, AtOK, CopyOK, Reported, Imported, Saved, Clean
<1>5. ASSUME StartJob(p, "export") PROVE Fits(k)
  <2>1. dbs[p] = "open" /\ k = NewJob(p, "export")
    BY <1>5 DEF StartJob, Begun, NewJob
  <2>2. /\ k.kind = "export" /\ k.at = "next" /\ k.left = Names(p)
        /\ k.dirs = [c \in Cols |-> Absent] /\ k.errors = {} /\ k.since = acked
    BY <2>1 DEF NewJob
  <2> QED
    BY <1>1, <1>3, <2>1, <2>2 DEF Fits, SourceOK, AtOK, CopyOK, Reported, Imported
<1>6. ASSUME StartJob(p, "verify") PROVE Fits(k)
  <2> DEFINE snapshots == [c \in Cols |-> IF disk[c] = Absent THEN {} ELSE Listed(disk[c])]
  <2>1. dbs[p] = "open" /\ k = [NewJob(p, "verify") EXCEPT !.since = snapshots]
    BY <1>6 DEF StartJob, Begun, NewJob
  <2>2. /\ k.kind = "verify" /\ k.at = "next" /\ k.left = Names(p)
        /\ k.dirs = [c \in Cols |-> Absent] /\ k.errors = {} /\ k.since = snapshots
    BY <2>1 DEF NewJob
  <2> QED
    BY <1>1, <1>2, <1>3, <2>1, <2>2
       DEF Fits, SourceOK, AtOK, CopyOK, Reported, Imported, Saved
<1>7. ASSUME NEW f \in Files, StartImport(p, f) PROVE Fits(k)
  <2>1. k = [NewJob(p, "import") EXCEPT !.left = {}, !.rest = f, !.dirs = AsExport(f)]
    BY <1>7 DEF StartImport, Begun
  <2>2. /\ k.kind = "import" /\ k.at = "next" /\ k.left = {} /\ k.rest = f
        /\ k.dirs = AsExport(f) /\ k.errors = {} /\ k.since = acked
    BY <2>1 DEF NewJob
  <2>3. ASSUME NEW c \in Cols, k.dirs[c] # Absent, NEW r \in k.dirs[c].wal
        PROVE  <<c, r>> \in f
    <3>1. k.dirs[c].wal = InFile(f, c)
      BY <2>2, <2>3 DEF AsExport, NoDir
    <3> QED
      BY <2>3, <3>1 DEF InFile
  <2> QED
    BY <1>1, <2>2, <2>3 DEF Fits, SourceOK, AtOK, CopyOK, Reported, Imported
<1> QED
  BY <1>4, <1>5, <1>6, <1>7 DEF AllJobs

LEMMA AllSavedFits ==
  ASSUME Inv, JobTyped, Around, JobInv, AllSaved, NEW k, k = job'
  PROVE  Fits(k)
<1> USE DatabaseAssumption
<1>1. PICK j \in Job : j = job
  BY DEF AllSaved, JobTyped
<1>2. /\ Fits(j) /\ j.at = "checkpoint_all" /\ j.unsaved = {} /\ j.proc \in Procs
      /\ dbs[j.proc] = "open"
  BY <1>1 DEF AllSaved, JobInv, Around, JobOpen, Job
<1>3. k = [j EXCEPT !.at = "next", !.left = Names(j.proc)]
  BY <1>1 DEF AllSaved
<1>4. /\ k.kind = j.kind /\ k.at = "next" /\ k.unsaved = {} /\ k.left = Names(j.proc)
      /\ k.dirs = j.dirs /\ k.errors = j.errors /\ k.since = j.since /\ k.col = j.col
      /\ k.files = j.files /\ k.rest = j.rest
  BY <1>2, <1>3 DEF Job
<1>5. j.kind = "backup"
  BY <1>2 DEF Fits, AtOK, Job, AllJobs
<1>6. ASSUME NEW c \in Cols, c \notin Names(j.proc) PROVE j.since[c] = {}
  <2>1. disk[c] = Absent
    BY <1>2, <1>6 DEF Around, MapFull, Names
  <2> QED
    BY <1>2, <2>1 DEF Fits, SourceOK, Inv, Durable
<1>7. SourceOK(k)
  BY <1>2, <1>4, <1>5 DEF Fits, SourceOK, Saved, Clean
<1>8. CopyOK(k)
  <2>1. \A c \in Cols : j.dirs[c] # Absent => Gathered(k, c)
    BY <1>2, <1>4, <1>5 DEF Fits, CopyOK, Gathered
  <2> QED
    BY <1>4, <1>6, <2>1 DEF CopyOK
<1> QED
  BY <1>2, <1>4, <1>5, <1>7, <1>8 DEF Fits, AtOK, Reported, Imported

LEMMA NextCollectionFits ==
  ASSUME Inv, JobTyped, Around, JobInv, NEW c \in Cols, NextCollection(c), NEW k, k = job'
  PROVE  Fits(k)
<1> USE DatabaseAssumption
<1>1. PICK j \in Job : j = job
  BY DEF NextCollection, JobTyped
<1>2. Fits(j) /\ j.at = "next" /\ c \in j.left /\ disk[c] # Absent
  BY <1>1 DEF NextCollection, JobInv, JobTyped, HasDir
<1>3. j.dirs \in [Cols -> Dir \cup {Absent}]
  BY DEF Job
<1>4. CASE j.kind = "backup"
  <2>1. k = [j EXCEPT !.at = "copy", !.col = c, !.files = FilesOf(disk[c]), !.dirs[c] = NoDir]
    BY <1>1, <1>4 DEF NextCollection
  <2>2. /\ k.kind = "backup" /\ k.at = "copy" /\ k.unsaved = j.unsaved /\ k.left = j.left
        /\ k.dirs = [j.dirs EXCEPT ![c] = NoDir]
        /\ k.errors = j.errors /\ k.since = j.since /\ k.col = c
        /\ k.files = FilesOf(disk[c])
    BY <1>4, <2>1 DEF Job
  <2>3. \A q \in Cols : k.dirs[q] = IF q = c THEN NoDir ELSE j.dirs[q]
    BY <1>3, <2>2
  <2>4. j.unsaved = {} /\ Saved(j, c)
    BY <1>2, <1>4 DEF Fits, AtOK, SourceOK
  <2>5. SourceOK(k)
    BY <1>2, <1>4, <2>2 DEF Fits, SourceOK, Saved, Clean
  <2>6. Gathered(k, c)
    <3>1. disk[c].listed = 0 => k.since[c] = {}
      BY <1>2, <2>2, <2>4 DEF Saved, Listed
    <3>2. disk[c].listed # 0 => 0 \in k.files
      BY <2>2 DEF FilesOf
    <3> QED
      BY <2>2, <2>3, <3>1, <3>2 DEF Gathered, NoDir
  <2>7. ASSUME NEW q \in Cols \ {c}, k.dirs[q] # Absent PROVE Gathered(k, q)
    BY <1>2, <1>4, <2>2, <2>3, <2>7 DEF Fits, CopyOK, Gathered
  <2>8. ASSUME NEW q \in Cols \ {c}, k.dirs[q] = Absent
        PROVE  k.since[q] = {} \/ q \in k.left \/ \E n \in SegNos : <<q, n>> \in k.errors
    BY <1>2, <1>4, <2>2, <2>3, <2>8 DEF Fits, CopyOK
  <2>9. CopyOK(k) /\ k.dirs[c] = NoDir /\ NoDir # Absent
    <3>1. NoDir \in Dir
      BY DEF NoDir, Dir
    <3> QED
      BY <2>3, <2>6, <2>7, <2>8, <3>1 DEF CopyOK
  <2> QED
    BY <1>2, <2>2, <2>4, <2>5, <2>9 DEF Fits, AtOK, Reported, Imported
<1>5. CASE j.kind # "backup"
  <2>1. k = [j EXCEPT !.at = "save", !.col = c,
                      !.unsaved = IF j.kind = "export" THEN {c} ELSE {}]
    BY <1>1, <1>5 DEF NextCollection
  <2>2. /\ k.kind = j.kind /\ k.at = "save" /\ k.left = j.left
        /\ k.dirs = j.dirs /\ k.errors = j.errors /\ k.since = j.since /\ k.col = c
        /\ (j.kind = "export" => k.unsaved = {c})
    BY <2>1 DEF Job
  <2>3. j.kind \in {"export", "verify"}
    BY <1>2, <1>5 DEF Fits, AtOK, Job, AllJobs
  <2>4. SourceOK(k)
    BY <1>2, <2>2, <2>3 DEF Fits, SourceOK, Saved
  <2>5. \A q \in Cols : j.dirs[q] # Absent => Gathered(k, q)
    BY <1>2, <2>2, <2>3 DEF Fits, CopyOK, Gathered
  <2>6. CopyOK(k)
    BY <1>2, <2>2, <2>3, <2>5 DEF Fits, CopyOK
  <2> QED
    BY <1>2, <2>2, <2>3, <2>4, <2>6 DEF Fits, AtOK, Reported, Imported
<1> QED
  BY <1>4, <1>5

LEMMA CopyFileFits ==
  ASSUME Inv, JobTyped, Around, JobInv, NEW n \in 0 .. MaxSeg, CopyFile(n), NEW k, k = job'
  PROVE  k = Absent \/ Fits(k)
<1> USE DatabaseAssumption
<1>1. PICK j \in Job : j = job
  BY DEF CopyFile, JobTyped
<1> DEFINE c == j.col
<1>2. /\ Fits(j) /\ j.at = "copy" /\ n \in j.files /\ disk[c] # Absent /\ c \in Cols
      /\ j.dirs[c] # Absent
  BY <1>1 DEF CopyFile, JobInv, JobTyped, HasDir
<1>3. /\ j.kind = "backup" /\ j.unsaved = {} /\ Saved(j, c) /\ Clean(j, c)
      /\ j.since[c] \subseteq acked[c]
  <2>1. j.kind = "backup" /\ j.unsaved = {}
    BY <1>2 DEF Fits, AtOK, Job, AllJobs
  <2> QED
    BY <1>2, <2>1 DEF Fits, SourceOK
<1>4. j.dirs \in [Cols -> Dir \cup {Absent}] /\ j.dirs[c] \in Dir /\ disk[c] \in Dir
  BY <1>2 DEF Job, Inv, Typed
<1>5. Gathered(j, c)
  BY <1>2, <1>3 DEF Fits, CopyOK
<1>6. ASSUME NEW new \in Dir,
             Gathered([j EXCEPT !.files = @ \ {n}, !.dirs = [j.dirs EXCEPT ![c] = new]], c),
             k = [j EXCEPT !.files = @ \ {n}, !.dirs = [j.dirs EXCEPT ![c] = new]]
      PROVE  Fits(k)
  <2>1. /\ k.kind = "backup" /\ k.at = "copy" /\ k.unsaved = {} /\ k.left = j.left
        /\ k.dirs = [j.dirs EXCEPT ![c] = new]
        /\ k.errors = j.errors /\ k.since = j.since /\ k.col = c
    BY <1>2, <1>3, <1>6 DEF Job
  <2>2. \A q \in Cols : k.dirs[q] = IF q = c THEN new ELSE j.dirs[q]
    BY <1>4, <2>1
  <2>3. SourceOK(k)
    BY <1>2, <1>3, <2>1 DEF Fits, SourceOK, Saved, Clean
  <2>4. ASSUME NEW q \in Cols \ {c}, k.dirs[q] # Absent PROVE Gathered(k, q)
    BY <1>2, <1>3, <2>1, <2>2, <2>4 DEF Fits, CopyOK, Gathered
  <2>5. ASSUME NEW q \in Cols \ {c}, k.dirs[q] = Absent
        PROVE  k.since[q] = {} \/ q \in k.left \/ \E m \in SegNos : <<q, m>> \in k.errors
    BY <1>2, <1>3, <2>1, <2>2, <2>5 DEF Fits, CopyOK
  <2>6. Gathered(k, c) /\ k.dirs[c] # Absent
    BY <1>2, <1>6, <2>2
  <2>7. CopyOK(k)
    BY <2>4, <2>5, <2>6 DEF CopyOK
  <2> QED
    BY <1>2, <2>1, <2>3, <2>7 DEF Fits, AtOK, Reported, Imported
<1> DEFINE Having(new) == [j EXCEPT !.files = @ \ {n}, !.dirs = [j.dirs EXCEPT ![c] = new]]
<1>7. ASSUME NEW new \in Dir
      PROVE  /\ Having(new).dirs[c] = new /\ Having(new).since = j.since /\ Having(new).at = "copy"
             /\ Having(new).col = c /\ Having(new).files = j.files \ {n}
  BY <1>2, <1>4 DEF Job
<1>8. CASE n = 0
  <2> DEFINE new == [j.dirs[c] EXCEPT !.listed = disk[c].listed]
  <2>1. new \in Dir /\ new.listed = disk[c].listed /\ new.segs = j.dirs[c].segs
        /\ new.wal = j.dirs[c].wal
    BY <1>4 DEF Dir
  <2>2. k = Having(new)
    BY <1>1, <1>2, <1>8 DEF CopyFile, Job
  <2>3. new.listed = 0 => j.since[c] = {}
    BY <1>2, <1>3, <2>1 DEF Saved, Listed
  <2> HIDE DEF new, Having
  <2>4. Gathered(Having(new), c)
    BY <1>5, <1>7, <2>1, <2>3 DEF Gathered
  <2> QED
    BY <1>6, <2>1, <2>2, <2>4 DEF Having
<1>9. CASE n # 0 /\ disk[c].segs[n] = Absent
  BY <1>1, <1>9 DEF CopyFile
<1>10. CASE n # 0 /\ disk[c].segs[n] # Absent
  <2> DEFINE segs == [j.dirs[c].segs EXCEPT ![n] = disk[c].segs[n]]
             new  == [j.dirs[c] EXCEPT !.segs = segs]
  <2>1. n \in SegNos /\ disk[c].segs \in [SegNos -> {Absent} \cup SUBSET Row]
        /\ j.dirs[c].segs \in [SegNos -> {Absent} \cup SUBSET Row]
    BY <1>4, <1>10 DEF SegNos, Dir
  <2>2. segs \in [SegNos -> {Absent} \cup SUBSET Row]
        /\ \A m \in SegNos : segs[m] = IF m = n THEN disk[c].segs[n] ELSE j.dirs[c].segs[m]
    BY <2>1
  <2>3. new \in Dir /\ new.listed = j.dirs[c].listed /\ new.segs = segs
        /\ new.wal = j.dirs[c].wal
    BY <1>4, <2>2 DEF Dir
  <2>4. k = Having(new)
    <3>1. k = [[j EXCEPT !.files = @ \ {n}] EXCEPT !.dirs[c].segs[n] = disk[c].segs[n]]
      BY <1>1, <1>10 DEF CopyFile
    <3>2. [j EXCEPT !.files = @ \ {n}].dirs = j.dirs
      BY DEF Job
    <3> QED
      BY <3>1, <3>2 DEF Job
  <2>5. j.since[c] \subseteq disk[c].segs[n] /\ disk[c].segs[n] \subseteq acked[c]
    BY <1>2, <1>3, <1>10, <2>1 DEF Clean, Around, SegsAcked
  <2> HIDE DEF new, segs, Having
  <2>6. Gathered(Having(new), c)
    BY <1>5, <1>7, <1>10, <2>2, <2>3, <2>5 DEF Gathered
  <2> QED
    BY <1>6, <2>3, <2>4, <2>6 DEF Having
<1> QED
  BY <1>8, <1>9, <1>10

LEMMA ReadManifestFits ==
  ASSUME Inv, JobTyped, Around, JobInv, ReadManifest, NEW k, k = job'
  PROVE  Fits(k)
<1> USE DatabaseAssumption
<1>1. PICK j \in Job : j = job
  BY DEF ReadManifest, JobTyped
<1> DEFINE c == j.col
<1>2. Fits(j) /\ j.at = "save" /\ j.unsaved = {} /\ disk[c] # Absent /\ c \in Cols
  BY <1>1 DEF ReadManifest, JobInv, JobTyped, HasDir
<1>3. j.kind \in {"export", "verify"} /\ Saved(j, c)
  <2>1. j.kind \in {"export", "verify"}
    BY <1>2 DEF Fits, AtOK, Job, AllJobs
  <2> QED
    BY <1>2, <2>1 DEF Fits, SourceOK
<1>4. k = [j EXCEPT !.at = "rows", !.files = {disk[c].listed}]
  BY <1>1 DEF ReadManifest
<1>5. /\ k.kind = j.kind /\ k.at = "rows" /\ k.left = j.left /\ k.files = {disk[c].listed}
      /\ k.dirs = j.dirs /\ k.errors = j.errors /\ k.since = j.since /\ k.col = c
  BY <1>4 DEF Job
<1>6. SourceOK(k)
  <2>1. disk[c].listed \in Nat
    BY <1>2 DEF Inv, Typed, Dir
  <2>2. Chosen(k, c, disk[c].listed)
    BY <1>2, <1>3, <1>5, <2>1 DEF Chosen, Saved, Listed
  <2>3. \A q \in Cols : j.since[q] \subseteq acked[q] /\ (j.kind = "verify" => Saved(k, q))
    BY <1>2, <1>5 DEF Fits, SourceOK, Saved
  <2> QED
    BY <1>3, <1>5, <2>2, <2>3 DEF SourceOK
<1>7. CopyOK(k)
  <2>1. \A q \in Cols : j.dirs[q] # Absent => Gathered(k, q)
    BY <1>2, <1>3, <1>5 DEF Fits, CopyOK, Gathered
  <2> QED
    BY <1>2, <1>3, <1>5, <2>1 DEF Fits, CopyOK
<1> QED
  BY <1>2, <1>3, <1>5, <1>6, <1>7 DEF Fits, AtOK, Reported, Imported

LEMMA ReadRowsFits ==
  ASSUME Inv, JobTyped, Around, JobInv, ReadRows, NEW k, k = job'
  PROVE  k = Absent \/ Fits(k)
<1> USE DatabaseAssumption
<1>1. PICK j \in Job : j = job
  BY DEF ReadRows, JobTyped
<1> DEFINE c == j.col
<1>2. Fits(j) /\ j.at = "rows" /\ disk[c] # Absent /\ c \in Cols
  BY <1>1 DEF ReadRows, JobInv, JobTyped, HasDir
<1>3. j.kind \in {"export", "verify"}
  BY <1>2 DEF Fits, AtOK, Job, AllJobs
<1>4. PICK n \in j.files :
        LET rows == Listed([disk[c] EXCEPT !.listed = n]) IN
        k = IF rows # Absent
            THEN [j EXCEPT !.files = {}, !.dirs[c] = [NoDir EXCEPT !.wal = rows]]
            ELSE IF j.kind = "export" THEN Absent
            ELSE [j EXCEPT !.files = {}, !.errors = @ \cup {<<c, n>>}]
  BY <1>1 DEF ReadRows
<1> DEFINE rows == Listed([disk[c] EXCEPT !.listed = n])
<1>5. /\ disk[c] \in Dir /\ n \in 0 .. MaxSeg /\ disk[c].listed \in 0 .. MaxSeg
      /\ rows = (IF n = 0 THEN {} ELSE disk[c].segs[n])
  BY <1>2 DEF Listed, Job, Dir, Inv, Typed
<1>6. Chosen(j, c, n)
  BY <1>2 DEF Fits, SourceOK
<1>7. \A q \in Cols : /\ j.since[q] \subseteq acked[q]
                      /\ j.kind = "verify" => Saved(j, q)
  BY <1>2 DEF Fits, SourceOK
<1>8. n # 0 => n \in SegNos
  BY <1>5 DEF SegNos
<1> HIDE DEF rows
<1>9. CASE rows # Absent
  <2> DEFINE new == [NoDir EXCEPT !.wal = rows]
  <2>1. k = [j EXCEPT !.files = {}, !.dirs = [j.dirs EXCEPT ![c] = new]]
    BY <1>4, <1>9 DEF rows
  <2>2. /\ k.kind = j.kind /\ k.at = "rows" /\ k.files = {} /\ k.left = j.left
        /\ k.dirs = [j.dirs EXCEPT ![c] = new]
        /\ k.errors = j.errors /\ k.since = j.since /\ k.col = c
    BY <1>2, <2>1 DEF Job
  <2>3. /\ NoDir \in Dir /\ new.wal = rows /\ new.segs = [m \in SegNos |-> Absent]
        /\ new # Absent
    <3>1. NoDir \in Dir
      BY DEF NoDir, Dir
    <3>2. rows \in SUBSET Row
      BY <1>5, <1>8, <1>9 DEF Dir
    <3>3. new \in Dir
      BY <3>1, <3>2 DEF Dir
    <3> QED
      BY <3>1, <3>3 DEF NoDir
  <2>4. j.since[c] \subseteq rows /\ rows \subseteq acked[c]
    BY <1>2, <1>5, <1>6, <1>8, <1>9 DEF Chosen, Around, SegsAcked
  <2> HIDE DEF new
  <2>5. \A q \in Cols : k.dirs[q] = IF q = c THEN new ELSE j.dirs[q]
    BY <2>2 DEF Job
  <2>6. SourceOK(k)
    BY <1>3, <1>7, <2>2 DEF SourceOK, Saved
  <2>7. Gathered(k, c)
    BY <1>2, <2>2, <2>3, <2>4, <2>5 DEF Gathered
  <2>8. ASSUME NEW q \in Cols \ {c}, k.dirs[q] # Absent PROVE Gathered(k, q)
    BY <1>2, <1>3, <2>2, <2>5, <2>8 DEF Fits, CopyOK, Gathered
  <2>9. ASSUME NEW q \in Cols \ {c}, k.dirs[q] = Absent
        PROVE  k.since[q] = {} \/ q \in k.left \/ \E m \in SegNos : <<q, m>> \in k.errors
    BY <1>2, <1>3, <2>2, <2>5, <2>9 DEF Fits, CopyOK
  <2>10. CopyOK(k) /\ k.dirs[c] # Absent
    BY <1>2, <2>3, <2>5, <2>7, <2>8, <2>9 DEF CopyOK
  <2> QED
    BY <1>2, <1>3, <2>2, <2>6, <2>10 DEF Fits, AtOK, Reported, Imported
<1>10. CASE rows = Absent /\ j.kind = "export"
  BY <1>4, <1>10 DEF rows
<1>11. CASE rows = Absent /\ j.kind # "export"
  <2>1. k = [j EXCEPT !.files = {}, !.errors = j.errors \cup {<<c, n>>}]
    BY <1>4, <1>11 DEF rows
  <2>2. /\ k.kind = "verify" /\ k.at = "rows" /\ k.files = {} /\ k.left = j.left
        /\ k.dirs = j.dirs /\ k.since = j.since /\ k.col = c
        /\ k.errors = j.errors \cup {<<c, n>>}
    BY <1>2, <1>3, <1>11, <2>1 DEF Job
  <2>3. n \in SegNos /\ disk[c].segs[n] = Absent /\ disk[c].listed > n
    <3>1. n # 0 /\ disk[c].segs[n] = Absent
      BY <1>5, <1>11
    <3>2. Listed(disk[c]) # Absent
      BY <1>2 DEF Inv, Durable, Readable
    <3>3. n # disk[c].listed
      BY <3>1, <3>2 DEF Listed
    <3>4. n <= disk[c].listed
      BY <1>6 DEF Chosen
    <3> QED
      BY <1>5, <1>8, <3>1, <3>3, <3>4
  <2>4. SourceOK(k)
    BY <1>3, <1>7, <1>11, <2>2 DEF SourceOK, Saved
  <2>5. \A q \in Cols : j.dirs[q] # Absent => Gathered(k, q)
    BY <1>2, <1>3, <2>2 DEF Fits, CopyOK, Gathered
  <2>6. CopyOK(k)
    BY <1>2, <1>3, <2>2, <2>5 DEF Fits, CopyOK
  <2>7. Reported(k)
    BY <1>2, <2>2, <2>3 DEF Fits, Reported
  <2>8. AtOK(k)
    BY <2>2, <2>3 DEF AtOK
  <2> QED
    BY <2>2, <2>4, <2>6, <2>7, <2>8 DEF Fits, Imported
<1> QED
  BY <1>9, <1>10, <1>11

LEMMA DoneWithFits ==
  ASSUME Inv, JobTyped, JobInv, DoneWith, NEW k, k = job'
  PROVE  Fits(k)
<1> USE DatabaseAssumption
<1>1. PICK j \in Job : j = job
  BY DEF DoneWith, JobTyped
<1> DEFINE c == j.col
<1>2. /\ Fits(j) /\ j.at \in {"copy", "rows"} /\ j.files = {} /\ c \in Cols
      /\ j.at = "copy" => j.dirs[c] # Absent
  BY <1>1 DEF DoneWith, JobInv, JobTyped, HasDir
<1>3. /\ j.kind # "import"
      /\ j.kind = "backup" => j.at = "copy" /\ j.unsaved = {}
  BY <1>2 DEF Fits, AtOK
<1>4. k = [j EXCEPT !.at = "next", !.left = @ \ {c}, !.col = Absent]
  BY <1>1 DEF DoneWith
<1>5. /\ k.kind = j.kind /\ k.at = "next" /\ k.left = j.left \ {c} /\ k.unsaved = j.unsaved
      /\ k.dirs = j.dirs /\ k.errors = j.errors /\ k.since = j.since
  BY <1>4 DEF Job
<1>6. SourceOK(k)
  BY <1>2, <1>5 DEF Fits, SourceOK, Saved, Clean
<1>7. CopyOK(k)
  <2>1. \A q \in Cols : j.dirs[q] # Absent => Gathered(k, q)
    BY <1>2, <1>3, <1>5 DEF Fits, CopyOK, Gathered
  <2>2. j.dirs[c] = Absent => \E n \in SegNos : <<c, n>> \in j.errors
    BY <1>2 DEF Fits, AtOK
  <2>3. ASSUME NEW q \in Cols, j.dirs[q] = Absent
        PROVE  k.since[q] = {} \/ q \in k.left \/ \E n \in SegNos : <<q, n>> \in k.errors
    BY <1>2, <1>3, <1>5, <2>2, <2>3 DEF Fits, CopyOK
  <2> QED
    BY <1>5, <2>1, <2>3 DEF CopyOK
<1> QED
  BY <1>2, <1>3, <1>5, <1>6, <1>7 DEF Fits, AtOK, Reported, Imported

(* A checkpoint that the job asked for: the WAL of a collection is only    *)
(* truncated once its rows are all in its one segment.                     *)
LEMMA TruncateFits ==
  ASSUME Inv, JobTyped, Around, JobInv, NEW o \in Objs, Truncate(o), NEW k, k = job', k # Absent
  PROVE  k \in Job /\ Fits(k)
<1> USE DatabaseAssumption
<1>1. job # Absent
  BY DEF Truncate
<1>2. PICK j \in Job : j = job
  BY <1>1 DEF JobTyped
<1> DEFINE c == objs[o].col
<1>3. Fits(j)
  BY <1>1, <1>2 DEF JobInv
<1>4. CASE k = j
  BY <1>3, <1>4
<1>5. CASE k # j
  <2>1. k = [j EXCEPT !.unsaved = @ \ {c}]
    BY <1>1, <1>2, <1>5 DEF Truncate
  <2>2. k \in Job
    BY <2>1 DEF Job
  <2>3. /\ k.kind = j.kind /\ k.at = j.at /\ k.left = j.left /\ k.unsaved = j.unsaved \ {c}
        /\ k.dirs = j.dirs /\ k.errors = j.errors /\ k.since = j.since /\ k.col = j.col
        /\ k.files = j.files /\ k.rest = j.rest
    BY <2>1 DEF Job
  <2>4. /\ o \in Live /\ objs[o].pc = "truncate" /\ c \in Cols /\ disk[c] # Absent
        /\ disk[c] \in Dir
        /\ objs[o].rows = acked[c] /\ objs[o].seg_seq = disk[c].listed
        /\ objs[o].seg_seq # 0 /\ disk[c].segs[objs[o].seg_seq] = acked[c]
    BY LiveTyped DEF Truncate, Inv, Typed, Durable
  <2>5. Listed(disk[c]) = acked[c]
    BY <2>4 DEF Listed
  <2>6. \A n \in SegNos : disk[c].segs[n] # Absent => disk[c].segs[n] = acked[c]
    BY <2>4 DEF Around, CleanedUp
  <2>7. j.since[c] \subseteq acked[c]
    BY <1>3, <2>4 DEF Fits, SourceOK
  <2>8. Saved(k, c) /\ Clean(k, c)
    BY <2>3, <2>5, <2>6, <2>7 DEF Saved, Clean
  <2>9. SourceOK(k)
    BY <1>3, <2>3, <2>8 DEF Fits, SourceOK, Saved, Clean, Chosen
  <2>10. CopyOK(k)
    BY <1>3, <2>3 DEF Fits, CopyOK, Gathered
  <2>11. AtOK(k) /\ Reported(k) /\ Imported(k)
    BY <1>3, <2>3 DEF Fits, AtOK, Reported, Imported
  <2> QED
    BY <2>2, <2>9, <2>10, <2>11 DEF Fits
<1> QED
  BY <1>4, <1>5

(* A line of an import: its row is there then, or one with its id was.     *)
LEMMA ImportLineFits ==
  ASSUME Inv, Inv', JobTyped, JobInv, NEW c \in Cols, NEW r \in Row, ImportLine(c, r),
         \A q \in Cols : Grows(q), NEW k, k = job'
  PROVE  Fits(k)'
<1> USE DatabaseAssumption
<1>1. PICK j \in Job : j = job
  BY DEF ImportLine, JobTyped
<1>2. Fits(j) /\ <<c, r>> \in j.rest /\ j.proc \in Procs
  BY <1>1 DEF ImportLine, JobInv, Job
<1>3. k = [j EXCEPT !.rest = @ \ {<<c, r>>}]
  BY <1>1 DEF ImportLine
<1>4. k \in Job
  BY <1>3 DEF Job
<1>5. /\ k.kind = j.kind /\ k.at = j.at /\ k.left = j.left /\ k.unsaved = j.unsaved
      /\ k.dirs = j.dirs /\ k.errors = j.errors /\ k.since = j.since /\ k.col = j.col
      /\ k.files = j.files /\ k.rest = j.rest \ {<<c, r>>}
  BY <1>3 DEF Job
<1>6. SourceOK(k)
  BY <1>2, <1>5 DEF Fits, SourceOK, Saved, Clean, Chosen
<1>7. CopyOK(k)
  BY <1>2, <1>5 DEF Fits, CopyOK, Gathered
<1>8. AtOK(k) /\ Reported(k)
  BY <1>2, <1>5 DEF Fits, AtOK, Reported
<1>9. r.id \in IdsOf(acked'[c])
  <2> DEFINE o == cols[job.proc][c]
  <2>1. /\ o \in Live /\ objs[o].pc = "idle"
        /\ \/ UNCHANGED <<lock, dbs, cols, handles, objs, disk, acked>>
           \/ r.id \notin IdsOf(objs[o].rows) /\ AddRow(o, r)
    BY <1>1, <1>2, ImportedInto
  <2>2. objs[o].col = c /\ objs[o].rows = acked[c]
    <3>1. job.proc \in Procs /\ o # Absent
      BY <1>1, <1>2, <2>1 DEF Live
    <3>2. objs[o].col = c
      BY <3>1 DEF Inv, Owned
    <3>3. objs[o].rows = acked[objs[o].col]
      BY <2>1 DEF Inv, Durable
    <3> QED
      BY <3>2, <3>3
  <2>3. CASE AddRow(o, r)
    <3>1. acked' = [acked EXCEPT ![c] = @ \cup {r}]
      BY <2>2, <2>3 DEF AddRow
    <3>2. acked \in [Cols -> SUBSET Row]
      BY DEF Inv, Typed
    <3>3. r \in acked'[c]
      BY <3>1, <3>2
    <3> QED
      BY <3>3 DEF IdsOf
  <2>4. CASE UNCHANGED <<lock, dbs, cols, handles, objs, disk, acked>>
    BY <1>1, <2>1, <2>2, <2>4 DEF ImportLine, ImportRow, AddRow, Inv, Typed, IdsOf
  <2> QED
    BY <2>1, <2>3, <2>4
<1>10. Imported(k)'
  <2>1. Imported(j)'
    BY <1>2, PartsFrame DEF Fits
  <2> QED
    BY <1>5, <1>9, <2>1 DEF Imported
<1> QED
  BY <1>4, <1>6, <1>7, <1>8, <1>10, PartsFrame DEF Fits, AtOK

-----------------------------------------------------------------------------
JIInv == IInv /\ Around /\ JobInv

LEMMA FitsNext ==
  ASSUME NEW k, k = job', Fits(k)'
  PROVE  JobInv'
BY DEF JobInv, Fits, SourceOK, AtOK, CopyOK, Gathered, Reported, Imported, Saved, Clean, Chosen

LEMMA StepJobInv ==
  ASSUME IInv, IInv', Around, JobInv, [Next]_vars
  PROVE  JobInv'
<1> USE DatabaseAssumption DEF IInv
<1>1. \A c \in Cols : Grows(c)
  BY StepGrows
<1> SUFFICES ASSUME job' # Absent PROVE JobInv'
  BY DEF JobInv
<1>2. PICK k \in Job : k = job'
  BY DEF JobTyped
<1>0. ASSUME Fits(k)' PROVE JobInv'
  BY <1>0, <1>2, FitsNext
<1>3. ASSUME Fits(k) PROVE JobInv'
  BY <1>0, <1>1, <1>3, PartsFrame DEF Fits, AtOK
<1>4. ASSUME k = job PROVE JobInv'
  <2>1. Fits(k)
    BY <1>2, <1>4 DEF JobInv
  <2> QED
    BY <1>3, <2>1
<1>5. ASSUME NEW p \in Procs, OpenAndClose(p) PROVE k = job
  BY <1>2, <1>5 DEF OpenAndClose, AcquireLock, FinishOpen, DropMap, Unlock, Die, OpenCollection,
              TakeHandle, DropHandle
<1>6. CASE Operation
  <2>1. ASSUME NEW o \in Objs, Truncate(o) PROVE Fits(k)
    BY <1>2, <2>1, TruncateFits
  <2> QED
    BY <1>2, <1>3, <1>4, <1>6, <2>1 DEF Operation, Remember, Checkpoint, WriteManifest, Cleanup
<1>7. CASE JobStep
  <2>1. ASSUME NEW p \in Procs, \/ \E kind \in Jobs \ {"import"} : StartJob(p, kind)
                                \/ \E f \in Files : StartImport(p, f)
        PROVE  Fits(k)
    BY <1>2, <2>1, StartFits
  <2>2. ASSUME NEW c \in Cols, NEW r \in Row, ImportLine(c, r) PROVE Fits(k)'
    BY <1>1, <1>2, <2>2, ImportLineFits
  <2>3. ASSUME NEW o \in Objs, SaveForJob(o) PROVE k = job
    BY <1>2, <2>3 DEF SaveForJob
  <2>4. ASSUME NEW c \in Cols, NextCollection(c) PROVE Fits(k)
    BY <1>2, <2>4, NextCollectionFits
  <2>5. ASSUME NEW n \in 0 .. MaxSeg, CopyFile(n) PROVE Fits(k)
    BY <1>2, <2>5, CopyFileFits
  <2>6. ASSUME AllSaved \/ ReadManifest \/ ReadRows \/ DoneWith PROVE Fits(k)
    BY <1>2, <2>6, AllSavedFits, ReadManifestFits, ReadRowsFits, DoneWithFits
  <2>7. ~BadLine /\ ~FinishJob
    BY <1>2 DEF BadLine, FinishJob
  <2> QED
    BY <1>0, <1>2, <1>3, <1>4, <1>7, <2>1, <2>2, <2>3, <2>4, <2>5, <2>6, <2>7 DEF JobStep
<1> QED
  BY <1>2, <1>4, <1>5, <1>6, <1>7 DEF Next, vars

(* A job is at every step one that fits: what it has gathered and what it  *)
(* has left to do are related as stated to the files and to their history. *)
THEOREM JobsAlwaysFit == ASSUME KeepHandles = FALSE PROVE Spec => []JIInv
<1>1. Init => Around /\ JobInv
  BY DEF Init, Around, SegsAcked, CleanedUp, MapFull, JobOpen, JobInv, Live
<1>2. IInv /\ IInv' /\ Around /\ JobInv /\ [Next]_vars => Around' /\ JobInv'
  BY StepAround, StepJobInv DEF IInv
<1> QED
  BY <1>1, <1>2, InvAlways, PTL DEF Spec, JIInv

(* Whatever checkpoints, deaths and other jobs come between its steps, a   *)
(* backup that opens and an export hold every row that was there when they *)
(* began, and nothing that was never acknowledged; verify has read every   *)
(* row of the snapshots it found, or reports a segment of the collection.  *)
THEOREM CopiesAlwaysComplete == ASSUME KeepHandles = FALSE PROVE Spec => []CopyComplete
<1> USE DatabaseAssumption
<1>1. JIInv => CopyComplete
  <2> SUFFICES ASSUME JIInv, Returning, job.kind # "import", NEW c \in Cols
               PROVE  IF job.dirs[c] = Absent
                      THEN job.since[c] = {} \/ \E n \in SegNos : <<c, n>> \in job.errors
                      ELSE Readable(job.dirs[c])
                           => /\ job.since[c] \subseteq Recovered(job.dirs[c])
                              /\ Recovered(job.dirs[c]) \subseteq acked[c]
    BY DEF CopyComplete
  <2>1. Fits(job) /\ job.at = "next" /\ job.left = {} /\ job \in Job
    BY DEF JIInv, JobInv, Returning, IInv, JobTyped
  <2>2. CASE job.dirs[c] = Absent
    BY <2>1, <2>2 DEF Fits, CopyOK
  <2>3. CASE job.dirs[c] # Absent /\ Readable(job.dirs[c])
    <3>1. Gathered(job, c) /\ job.dirs[c].listed \in 0 .. MaxSeg
      BY <2>1, <2>3 DEF Fits, CopyOK, Job, Dir
    <3>2. CASE job.dirs[c].listed = 0
      <4>1. Recovered(job.dirs[c]) = job.dirs[c].wal
        BY <3>2 DEF Recovered, Listed
      <4>2. job.at # "copy"
        BY <2>1
      <4>3. job.since[c] \subseteq job.dirs[c].wal /\ job.dirs[c].wal \subseteq acked[c]
        BY <3>1, <3>2, <4>2 DEF Gathered
      <4> QED
        BY <2>3, <4>1, <4>3
    <3>3. CASE job.dirs[c].listed # 0
      BY <2>3, <3>1, <3>3 DEF Gathered, Recovered, Listed, Readable, SegNos
    <3> QED
      BY <3>2, <3>3
  <2> QED
    BY <2>2, <2>3
<1> QED
  BY <1>1, JobsAlwaysFit, PTL

(* What verify reports as missing was replaced by a checkpoint after the   *)
(* manifest that names it was read.                                        *)
THEOREM VerifyAlwaysHonest == ASSUME KeepHandles = FALSE PROVE Spec => []VerifyHonest
<1>1. JIInv => VerifyHonest
  BY DEF JIInv, JobInv, Fits, Reported, VerifyHonest
<1> QED
  BY <1>1, JobsAlwaysFit, PTL

(* An import that returns has given every row of its file, or another row  *)
(* that was there first, the id it asked for.                              *)
THEOREM ImportsAlwaysComplete == ASSUME KeepHandles = FALSE PROVE Spec => []ImportComplete
<1>1. JIInv => ImportComplete
  BY DEF JIInv, JobInv, Fits, Imported, ImportComplete, Returning, IdsOf
<1> QED
  BY <1>1, JobsAlwaysFit, PTL

=============================================================================
