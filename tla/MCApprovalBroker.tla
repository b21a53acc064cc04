-------------------------- MODULE MCApprovalBroker --------------------------
(* Small instances of ApprovalBroker for TLC. *)
EXTENDS ApprovalBroker

CONSTANTS r1, r2, r3, r4, r5

Call(risk, source, place) ==
    [plan |-> FALSE, scope |-> "s", owner |-> "s", tool |-> "t", risk |-> risk,
     source |-> source, target |-> "x", place |-> place, review |-> FALSE]

\* r1 and r2 write into one directory outside the workspace, r3 is a module's
\* call, r4 reads, r5 is a plan.
Mixed == [r \in Requests |->
            CASE r \in {r1, r2} -> Call("write_local", "builtin", "outside")
              [] r = r3 -> Call("external", "module", "none")
              [] r = r4 -> Call("read", "builtin", "none")
              [] r = r5 -> [Call("external", "builtin", "none") EXCEPT !.plan = TRUE]]
Pairs == {{r1, r2}, {r3, r4}, {r5}}
=============================================================================
