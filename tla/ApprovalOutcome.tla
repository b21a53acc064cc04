--------------------------- MODULE ApprovalOutcome ---------------------------
(***************************************************************************)
(* What the approval system promises, without channels, timers or REST     *)
(* calls: a question is asked once and decided once, the decision is       *)
(* announced at most once and only after it was made, and the caller goes  *)
(* ahead only on an approved decision or on an earlier permission.  The    *)
(* questions are independent: a step may move any number of them.          *)
(***************************************************************************)
CONSTANTS
    Requests,       \* the gated calls
    NeedsHuman(_)   \* a call that no earlier permission may cover

VARIABLES
    status,     \* "none", "pending" or how the question was decided
    told,       \* the decisions announced to the clients
    verdict     \* what the caller was told

outcome == <<status, told, verdict>>

Decided == {"approved", "denied", "aborted", "timed_out"}
Verdicts == {"approved", "denied", "aborted"}

Init ==
    /\ status = [r \in Requests |-> "none"]
    /\ told = [r \in Requests |-> <<>>]
    /\ verdict = [r \in Requests |-> "none"]

\* A question is put before its caller is answered, and decided once.
StatusStep(r) ==
    \/ status'[r] = status[r]
    \/ status[r] = "none" /\ verdict'[r] = "none" /\ status'[r] = "pending"
    \/ status[r] = "pending" /\ status'[r] \in Decided

\* The decision is announced once, as what it is.
ToldStep(r) ==
    \/ told'[r] = told[r]
    \/ told[r] = <<>> /\ status'[r] \in Decided /\ told'[r] = <<status'[r]>>

\* The caller is answered once; it goes ahead on an approved decision or, when
\* it was never asked about and need not be, on an earlier permission.
VerdictStep(r) ==
    \/ verdict'[r] = verdict[r]
    \/ /\ verdict[r] = "none" /\ verdict'[r] \in Verdicts
       /\ verdict'[r] = "approved" =>
             IF status'[r] = "none" THEN ~NeedsHuman(r) ELSE status'[r] = "approved"

Next == \A r \in Requests : StatusStep(r) /\ ToldStep(r) /\ VerdictStep(r)

Spec == Init /\ [][Next]_outcome
=============================================================================
