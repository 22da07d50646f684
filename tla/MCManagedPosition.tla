------------------------- MODULE MCManagedPosition -------------------------
(* ManagedPosition on small instances: see the .cfg files.                 *)
EXTENDS ManagedPosition
=============================================================================
