----------------------------- MODULE MCDatabase -----------------------------
(* Small instances of Database for TLC.                                     *)
EXTENDS Database, TLC

CONSTANTS p1, p2

(* Files with one row for each collection. *)
OneRowEach == {{<<c, [id |-> 1, by |-> p]>> : c \in Cols} : p \in Procs}

(* No operation tells the processes apart. *)
ProcSymmetry == Permutations({p1, p2})
=============================================================================
