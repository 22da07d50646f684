-------------------------- MODULE MCPendingEntry --------------------------
(* PendingEntry on small instances: see the .cfg files.                    *)
EXTENDS PendingEntry
=============================================================================
