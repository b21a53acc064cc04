----------------------------- MODULE FireLedger -----------------------------
(***************************************************************************)
(* What the kernel promises a module about the fires of its schedules,     *)
(* without tables, transactions or retries: a fire opens once, at most one *)
(* fire per source (schedule and trigger) is open at a time, a newer fire  *)
(* of the source closes the older one, and a closed fire never reopens.    *)
(***************************************************************************)
EXTENDS Naturals

CONSTANTS
    Fires,      \* every possible fire
    Source(_)   \* the schedule and trigger a fire belongs to

VARIABLES
    open,       \* fires the kernel still tries to deliver
    closed      \* fires it is done with

ledger == <<open, closed>>

Init == open = {} /\ closed = {}

\* A fire is recorded: it supersedes whatever its source has open.
Open(f) ==
    LET older == {g \in open : Source(g) = Source(f)}
    IN  /\ f \notin open \cup closed
        /\ open' = (open \ older) \cup {f}
        /\ closed' = closed \cup older

\* Delivered, failed for good, expired, withdrawn or deleted.
Close(F) ==
    /\ F # {}
    /\ open' = open \ F
    /\ closed' = closed \cup F

Next == (\E f \in Fires : Open(f)) \/ (\E F \in SUBSET open : Close(F))

Spec == Init /\ [][Next]_ledger
=============================================================================
