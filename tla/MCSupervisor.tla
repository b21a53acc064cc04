---------------------------- MODULE MCSupervisor ----------------------------
(* Small instances of Supervisor. *)
EXTENDS Supervisor

\* Enough names: a new generation always finds a free one.
Few == 1..4
==============================================================================
