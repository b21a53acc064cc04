------------------------- MODULE MCModuleApprovals -------------------------
(* Small instances of ModuleApprovals for TLC.                               *)
EXTENDS ModuleApprovals, TLC


=============================================================================
