----------------------------- MODULE MemoryStore ----------------------------
(***************************************************************************)
(* What a collection promises, without files, logs or maps: one row per    *)
(* id that only an operation on it changes. Closing and opening the        *)
(* collection, or the death of the process, changes nothing, with one      *)
(* exception: rows that compact dropped are `unsettled` until a checkpoint *)
(* has taken place, and a restart before that may bring them back.         *)
(***************************************************************************)
CONSTANTS Ids, Subjects, NoSubject, Absent

VARIABLES rows, unsettled

Row == [subject  : Subjects \cup {NoSubject}, live : BOOLEAN, summary : BOOLEAN,
        sources  : SUBSET Ids,
        archived : BOOLEAN]      \* out of the sight of recall

Init == rows = [i \in Ids |-> Absent] /\ unsettled = {}

(* remember, import_row, and the summary consolidate writes. *)
Put(i) ==
    /\ rows[i] = Absent /\ rows'[i] \in Row
    /\ rows' = [rows EXCEPT ![i] = rows'[i]]
    /\ UNCHANGED unsettled

(* forget, forget_subject, and remember for the versions it supersedes. *)
Close(i) ==
    /\ rows[i] # Absent
    /\ rows' = [rows EXCEPT ![i].live = FALSE]
    /\ UNCHANGED unsettled

(* consolidate: only a live memory that is no summary itself. *)
Shelve(i) ==
    /\ rows[i] # Absent /\ rows[i].live /\ ~rows[i].summary /\ ~rows[i].archived
    /\ rows' = [rows EXCEPT ![i].archived = TRUE]
    /\ UNCHANGED unsettled

(* hard_delete *)
Erase(i) ==
    /\ rows[i] # Absent
    /\ rows' = [rows EXCEPT ![i] = Absent]
    /\ UNCHANGED unsettled

(* compact: dead or archived rows, none of them a summary or the source of *)
(* a live summary.                                                         *)
Expirable(i) ==
    /\ rows[i] # Absent /\ ~rows[i].summary
    /\ rows[i].live => rows[i].archived
    /\ \A j \in Ids : rows[j] # Absent /\ rows[j].live /\ rows[j].summary
                         => i \notin rows[j].sources

Expire(S) ==
    /\ \A i \in S : Expirable(i)
    /\ rows' = [i \in Ids |-> IF i \in S THEN Absent ELSE rows[i]]
    /\ unsettled' = unsettled \cup S

Settle == unsettled' = {} /\ UNCHANGED rows

(* A death and a recovery. *)
Restart ==
    /\ rows' \in [Ids -> Row \cup {Absent}]
    /\ \A i \in Ids \ unsettled : rows'[i] = rows[i]
    /\ unsettled' = {}

Next ==
    \/ \E i \in Ids : Put(i) \/ Close(i) \/ Shelve(i) \/ Erase(i)
    \/ \E S \in SUBSET Ids : Expire(S)
    \/ Settle \/ Restart

Spec == Init /\ [][Next]_<<rows, unsettled>>

=============================================================================
