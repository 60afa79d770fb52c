---------------------------- MODULE MCCollection ----------------------------
(* Small instances of Collection for TLC.                                   *)
EXTENDS Collection

CONSTANT s1

VersionOps == {"remember", "forget", "forget_subject", "hard_delete", "checkpoint"}
MaintenanceOps == {"remember", "forget", "forget_subject", "hard_delete",
                   "consolidate", "compact", "checkpoint"}
KeepWalOps == {"remember", "forget", "import_row", "consolidate",
               "checkpoint", "checkpoint_keep_wal"}
UninterruptedOps == {"remember", "recall", "forget", "forget_subject", "consolidate",
                     "checkpoint"}
HitOps == {"remember", "recall", "checkpoint", "checkpoint_keep_wal"}

(* Places at which the process may die. *)
Everywhere == Places
ButRenamed == Places \ {"renamed"}
Uninterrupted == Running \ {"archiving", "cleanup", "reset_wal"}
OnlyWhenIdle == {"idle"}

OneRow == {[subject |-> s1, live |-> TRUE, hits |-> 0, summary |-> FALSE, sources |-> {}]}
=============================================================================
