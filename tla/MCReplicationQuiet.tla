------------------------- MODULE MCReplicationQuiet -------------------------
(* Instances of Replication in which recovery has to work. *)
EXTENDS MCReplication

ASSUME QuietInstance == QuietEnv

============================================================================
