---------------------------- MODULE MCModuleProxy ----------------------------
(* Small instances of ModuleProxy. *)
EXTENDS ModuleProxy, TLC

TwoGens == 1..2

ConnSymmetry == Permutations(Conns)
==============================================================================
