--------------------------- MODULE ApprovalBroker ---------------------------
(***************************************************************************)
(* The approval broker (agent24-policy/src/lib.rs) with the approval rows  *)
(* and the standing grants of the store.  A gated tool call either passes  *)
(* on an earlier permission or becomes a row a human decides.  The row is  *)
(* the only arbiter: the caller's own timer, its run's cancellation, the   *)
(* watchdog, the expiry sweep, the REST clients and, after a restart, the  *)
(* restore sweep all race to settle it.                                    *)
(***************************************************************************)
EXTENDS Integers, FiniteSets, Sequences

CONSTANTS
    NULL,
    Requests,       \* gated calls, one approval id each
    Req,            \* what each of them asks, see Request
    Clients,        \* REST calls in flight
    MaxGrants,      \* MAX_GRANTS (1024 in the code)
    HasGuardian,    \* a Guardian is installed
    Loads,          \* the sets of requests that come in together
    MaxTroubles     \* bound: store errors, crashes and callers dropped

Risk == {"read", "write_local", "exec", "external"}
Request == [plan : BOOLEAN,        \* request_plan instead of request
            scope : STRING,        \* session, or run without one
            owner : STRING \cup {NULL},   \* schedule or session of a standing grant
            tool : STRING,
            risk : Risk,
            source : {"builtin", "module"},
            target : STRING \cup {NULL},  \* the call's target or directory
            place : {"none", "inside", "outside", "ask"},  \* classify_write
            review : BOOLEAN]      \* its kind is on the always-review list

Decisions == {"approve", "approve_for_session", "approve_for_target", "deny", "abort"}

\* classify_write places the builtin fs_write only.
ASSUME BrokerAssumption ==
    /\ MaxGrants \in Nat \ {0} /\ HasGuardian \in BOOLEAN
    /\ Loads \subseteq SUBSET Requests /\ MaxTroubles \in Nat
    /\ NULL \notin Decisions
    /\ \A r \in Requests :
          /\ Req[r].risk \in Risk /\ Req[r].plan \in BOOLEAN
          /\ Req[r].place # "none" => Req[r].source = "builtin" /\ Req[r].risk = "write_local"

VARIABLES
    row,        \* the approvals table: status and decision per request
    expired,    \* requests whose expires_at lies in the past
    standing,   \* the standing_grants table
    pc,         \* where each call of `request` is
    verdict,    \* what it returned
    senders,    \* the keys of `pending`: approvals a caller waits for
    chan,       \* the decision in a caller's oneshot channel, or NULL
    watchdog,   \* requests whose watchdog task still sleeps
    cancelled,  \* requests whose run was cancelled
    grants,     \* the session grants held in memory
    rest,       \* each REST client's call of `resolve`
    told,       \* the resolutions announced per approval
    up,         \* the daemon runs
    faults, crashes, drops

store == <<row, expired, standing>>
calls == <<pc, verdict, senders, chan, watchdog, cancelled>>
budget == <<faults, crashes, drops>>
vars == <<store, calls, grants, rest, told, up, budget>>

Status == {"none", "pending", "approved", "denied", "aborted", "timed_out"}
NoRow == [status |-> "none", decision |-> NULL]
Idle == [pc |-> "idle"]
Ended == {"unasked", "done", "dropped", "gone"}

Row == [status : Status, decision : Decisions \cup {NULL}]
Places == {"start", "standing", "session", "guardian", "register", "persist",
           "waiting", "from_row"} \cup Ended
Verdicts == {"none", "approved", "denied", "aborted"}
RestCall == [pc : {"decide", "wake", "resume"}, r : Requests, d : Decisions]

Init ==
    /\ row = [r \in Requests |-> NoRow]
    /\ expired = {} /\ standing = {}
    /\ \E load \in Loads :
          pc = [r \in Requests |-> IF r \in load THEN "start" ELSE "unasked"]
    /\ verdict = [r \in Requests |-> "none"]
    /\ senders = {} /\ watchdog = {} /\ cancelled = {}
    /\ chan = [r \in Requests |-> NULL]
    /\ grants = {} /\ rest = [c \in Clients |-> Idle]
    /\ told = [r \in Requests |-> <<>>]
    /\ up = TRUE
    /\ faults = 0 /\ crashes = 0 /\ drops = 0

Trouble == faults + crashes + drops < MaxTroubles
\* One store error, out of the budget.
Fault == Trouble /\ faults' = faults + 1
NoFault == faults' = faults

-----------------------------------------------------------------------------
(* What a call is offered and what it may be granted.                      *)

PerCall(r) == Req[r].source = "module" /\ Req[r].risk # "read"

\* The target a standing grant for this call would name.
OfferTarget(r) ==
    IF Req[r].owner = NULL \/ Req[r].plan THEN NULL
    ELSE IF Req[r].place = "outside" THEN Req[r].target
    ELSE IF Req[r].risk = "external" /\ ~PerCall(r) THEN Req[r].target
    ELSE NULL

SessionWide(r) == Req[r].risk = "read"

Offered(r) ==
    IF Req[r].plan THEN {"approve", "deny"}
    ELSE {"approve", "deny", "abort"}
         \cup (IF OfferTarget(r) # NULL THEN {"approve_for_target"} ELSE {})
         \cup (IF SessionWide(r) /\ ~PerCall(r) THEN {"approve_for_session"} ELSE {})

SessionGrant(r) == <<Req[r].scope, Req[r].tool>>
StandingGrant(r) == <<Req[r].owner, Req[r].tool, OfferTarget(r)>>

StatusOf(d) ==
    CASE d = "deny"  -> "denied"
      [] d = "abort" -> "aborted"
      [] OTHER       -> "approved"

-----------------------------------------------------------------------------
(* request: the ways past the human.                                       *)

Return(r, v) ==
    /\ pc' = [pc EXCEPT ![r] = "done"]
    /\ verdict' = [verdict EXCEPT ![r] = v]

Goto(r, l) == pc' = [pc EXCEPT ![r] = l] /\ UNCHANGED verdict

\* A write under the confirmed workspace root passes once it is audited.
Enter(r) ==
    /\ up /\ pc[r] = "start"
    /\ \/ Req[r].plan /\ Goto(r, "register") /\ NoFault
       \/ ~Req[r].plan /\ Req[r].place = "inside" /\ Return(r, "approved") /\ NoFault
       \/ ~Req[r].plan /\ Req[r].place = "inside" /\ Goto(r, "standing") /\ Fault
       \/ ~Req[r].plan /\ Req[r].place # "inside" /\ Goto(r, "standing") /\ NoFault
    /\ UNCHANGED <<store, senders, chan, watchdog, cancelled, grants, rest, told, up,
                   crashes, drops>>

Held(r) == ~PerCall(r) /\ OfferTarget(r) # NULL /\ StandingGrant(r) \in standing

\* An unreadable grant table is no grant.
LookupStanding(r) ==
    /\ up /\ pc[r] = "standing"
    /\ \/ Held(r) /\ Return(r, "approved") /\ NoFault
       \/ ~Held(r) /\ Goto(r, "session") /\ NoFault
       \/ OfferTarget(r) # NULL /\ Goto(r, "session") /\ Fault
    /\ UNCHANGED <<store, senders, chan, watchdog, cancelled, grants, rest, told, up,
                   crashes, drops>>

LookupSession(r) ==
    /\ up /\ pc[r] = "session"
    /\ IF SessionWide(r) /\ ~PerCall(r) /\ SessionGrant(r) \in grants
       THEN Return(r, "approved")
       ELSE Goto(r, IF HasGuardian /\ Req[r].place = "none" THEN "guardian" ELSE "register")
    /\ UNCHANGED <<store, senders, chan, watchdog, cancelled, grants, rest, told, up, budget>>

\* A mutant: the Guardian decides for module calls too.
GuardianAnswersAll(r) ==
    /\ up /\ pc[r] = "guardian"
    /\ \E low \in BOOLEAN :
          IF low /\ ~Req[r].review THEN Return(r, "approved") ELSE Goto(r, "register")
    /\ UNCHANGED <<store, senders, chan, watchdog, cancelled, grants, rest, told, up, budget>>

\* `low`: the assessor answers, in time, that the risk is low.  Only then, and
\* once the audit is written, does the call pass; a module call never does.
GuardianAnswers(r) ==
    /\ up /\ pc[r] = "guardian"
    /\ \E low \in BOOLEAN :
          LET auto == low /\ ~Req[r].review /\ ~PerCall(r)
          IN  \/ auto /\ Return(r, "approved") /\ NoFault
              \/ auto /\ Goto(r, "register") /\ Fault
              \/ ~auto /\ Goto(r, "register") /\ NoFault
    /\ UNCHANGED <<store, senders, chan, watchdog, cancelled, grants, rest, told, up,
                   crashes, drops>>

-----------------------------------------------------------------------------
(* run_pending_approval.                                                   *)

\* The sender is registered before the row can be seen.
Register(r) ==
    /\ up /\ pc[r] = "register"
    /\ senders' = senders \cup {r}
    /\ Goto(r, "persist")
    /\ UNCHANGED <<store, chan, watchdog, cancelled, grants, rest, told, up, budget>>

Persist(r) ==
    /\ up /\ pc[r] = "persist"
    /\ \/ /\ NoFault /\ Goto(r, "waiting")
          /\ row' = [row EXCEPT ![r].status = "pending"]
          /\ watchdog' = watchdog \cup {r}
          /\ UNCHANGED senders
       \/ /\ Fault /\ Return(r, "denied")
          /\ senders' = senders \ {r}
          /\ UNCHANGED <<row, watchdog>>
    /\ UNCHANGED <<expired, standing, chan, cancelled, grants, rest, told, up, crashes, drops>>

\* The pending-only UPDATE that ends an approval without a decision.
Settle(R, s) ==
    row' = [r \in Requests |-> IF r \in R THEN [status |-> s, decision |-> NULL] ELSE row[r]]
Announce(R, s) ==
    told' = [r \in Requests |-> IF r \in R THEN Append(told[r], s) ELSE told[r]]
Pending == {r \in Requests : row[r].status = "pending"}

\* `grant`: a full set is cleared first.
Granted(g) ==
    (IF Cardinality(grants) >= MaxGrants THEN {} ELSE grants) \cup {g}

\* A mutant: every approval with a target leaves a grant.
ApplyGrantsWide(r, d) ==
    /\ standing' = IF StatusOf(d) = "approved" THEN standing \cup {StandingGrant(r)} ELSE standing
    /\ UNCHANGED grants /\ NoFault

\* The grants a decision carries; a standing grant may fail to be written.
ApplyGrants(r, d) ==
    \/ /\ d = "approve_for_session"
       /\ grants' = Granted(SessionGrant(r)) /\ UNCHANGED standing /\ NoFault
    \/ /\ d = "approve_for_target"
       /\ standing' = standing \cup {StandingGrant(r)} /\ UNCHANGED grants /\ NoFault
    \/ /\ d = "approve_for_target"
       /\ UNCHANGED <<standing, grants>> /\ Fault
    \/ /\ d \notin {"approve_for_session", "approve_for_target"}
       /\ UNCHANGED <<standing, grants>> /\ NoFault

\* apply_decision, and the drop of the PendingGuard.
ApplyDecision(r, d) ==
    /\ ApplyGrants(r, d)
    /\ Return(r, StatusOf(d))
    /\ senders' = senders \ {r}

TakeDecision(r) ==
    /\ up /\ pc[r] = "waiting" /\ chan[r] # NULL
    /\ ApplyDecision(r, chan[r])
    /\ UNCHANGED <<row, expired, chan, watchdog, cancelled, rest, told, up, crashes, drops>>

\* A mutant: a lost race is a denial.
TimerFiresBlind(r) ==
    /\ up /\ pc[r] = "waiting"
    /\ Settle({r} \cap Pending, "timed_out") /\ Announce({r} \cap Pending, "timed_out")
    /\ Return(r, "denied") /\ senders' = senders \ {r}
    /\ UNCHANGED <<expired, standing, chan, watchdog, cancelled, grants, rest, up, budget>>

\* The caller's own timer.  When another resolution won, the row says which.
TimerFires(r) ==
    /\ up /\ pc[r] = "waiting"
    /\ \/ /\ r \in Pending /\ NoFault
          /\ Settle({r}, "timed_out") /\ Announce({r}, "timed_out")
          /\ Return(r, "denied") /\ senders' = senders \ {r}
       \/ /\ r \notin Pending /\ NoFault
          /\ Goto(r, "from_row") /\ UNCHANGED <<row, told, senders>>
       \/ /\ Fault
          /\ Return(r, "denied") /\ senders' = senders \ {r} /\ UNCHANGED <<row, told>>
    /\ UNCHANGED <<expired, standing, chan, watchdog, cancelled, grants, rest, up,
                   crashes, drops>>

\* verdict_from_row.
VerdictFromRow(r) ==
    /\ up /\ pc[r] = "from_row"
    /\ \/ row[r].status = "approved" /\ ApplyDecision(r, row[r].decision)
       \/ /\ row[r].status # "approved" /\ NoFault
          /\ Return(r, IF row[r].status = "aborted" THEN "aborted" ELSE "denied")
          /\ senders' = senders \ {r} /\ UNCHANGED <<standing, grants>>
       \/ /\ Fault
          /\ Return(r, "denied")
          /\ senders' = senders \ {r} /\ UNCHANGED <<standing, grants>>
    /\ UNCHANGED <<row, expired, chan, watchdog, cancelled, rest, told, up, crashes, drops>>

\* The run's token fires: the caller aborts, whatever the row says.
CancelFires(r) ==
    /\ up /\ pc[r] = "waiting" /\ r \in cancelled
    /\ \/ /\ r \in Pending /\ NoFault
          /\ Settle({r}, "aborted") /\ Announce({r}, "aborted")
       \/ r \notin Pending /\ NoFault /\ UNCHANGED <<row, told>>
       \/ Fault /\ UNCHANGED <<row, told>>
    /\ Return(r, "aborted") /\ senders' = senders \ {r}
    /\ UNCHANGED <<expired, standing, chan, watchdog, cancelled, grants, rest, up,
                   crashes, drops>>

CancelRun(r) ==
    /\ up /\ r \notin cancelled /\ pc[r] \notin Ended
    /\ cancelled' = cancelled \cup {r}
    /\ UNCHANGED <<store, pc, verdict, senders, chan, watchdog, grants, rest, told, up, budget>>

\* The caller's task dies; the guard takes its sender with it.
DropCaller(r) ==
    /\ up /\ pc[r] \in {"persist", "waiting", "from_row"} /\ Trouble
    /\ drops' = drops + 1
    /\ Goto(r, "dropped") /\ senders' = senders \ {r}
    /\ UNCHANGED <<store, chan, watchdog, cancelled, grants, rest, told, up, faults, crashes>>

-----------------------------------------------------------------------------
(* The tasks beside the callers.                                           *)

\* A mutant: the watchdog's UPDATE is not pending-only.
WatchdogFiresBlind(r) ==
    /\ up /\ r \in watchdog
    /\ watchdog' = watchdog \ {r}
    /\ Settle({r}, "timed_out") /\ Announce({r}, "timed_out")
    /\ UNCHANGED <<expired, standing, pc, verdict, senders, chan, cancelled, grants, rest, up,
                   budget>>

\* One attempt at timeout + 1 s, for a caller that is gone.
WatchdogFires(r) ==
    /\ up /\ r \in watchdog
    /\ watchdog' = watchdog \ {r}
    /\ \/ r \in Pending /\ NoFault /\ Settle({r}, "timed_out") /\ Announce({r}, "timed_out")
       \/ r \notin Pending /\ NoFault /\ UNCHANGED <<row, told>>
       \/ Fault /\ UNCHANGED <<row, told>>
    /\ UNCHANGED <<expired, standing, pc, verdict, senders, chan, cancelled, grants, rest, up,
                   crashes, drops>>

\* The wall clock passes a row's expires_at.
Expire(r) ==
    /\ r \in Pending /\ r \notin expired
    /\ expired' = expired \cup {r}
    /\ UNCHANGED <<row, standing, calls, grants, rest, told, up, budget>>

\* A mutant: only rows some caller waits for are swept.
TimeoutExpiredWaited ==
    /\ up /\ Pending \cap expired \cap senders # {}
    /\ Settle(Pending \cap expired \cap senders, "timed_out")
    /\ Announce(Pending \cap expired \cap senders, "timed_out")
    /\ UNCHANGED <<expired, standing, calls, grants, rest, up, budget>>

\* timeout_expired: one UPDATE picks the rows, and only those are announced.
TimeoutExpired ==
    /\ up /\ Pending \cap expired # {}
    /\ Settle(Pending \cap expired, "timed_out")
    /\ Announce(Pending \cap expired, "timed_out")
    /\ UNCHANGED <<expired, standing, calls, grants, rest, up, budget>>

\* resolve: the row is read and the decision checked against its offer ...
Submit(c, r, d) ==
    /\ up /\ rest[c].pc = "idle"
    /\ r \in Pending /\ d \in Offered(r)
    /\ rest' = [rest EXCEPT ![c] = [pc |-> "decide", r |-> r, d |-> d]]
    /\ UNCHANGED <<store, calls, grants, told, up, budget>>

\* ... then the pending-only, not-expired UPDATE decides it or loses ...
Cas(c) ==
    /\ up /\ rest[c].pc = "decide"
    /\ LET r == rest[c].r
           d == rest[c].d
       IN  \/ /\ r \in Pending \ expired /\ NoFault
              /\ row' = [row EXCEPT ![r] = [status |-> StatusOf(d), decision |-> d]]
              /\ rest' = [rest EXCEPT ![c].pc = "wake"]
           \/ /\ r \notin Pending \ expired /\ NoFault
              /\ rest' = [rest EXCEPT ![c] = Idle] /\ UNCHANGED row
           \/ Fault /\ rest' = [rest EXCEPT ![c] = Idle] /\ UNCHANGED row
    /\ UNCHANGED <<expired, standing, calls, grants, told, up, crashes, drops>>

\* ... and the winner wakes the caller, if one still waits, and announces the
\* decision, recorded here as the status it stands for.
Wake(c) ==
    /\ up /\ rest[c].pc = "wake"
    /\ LET r == rest[c].r
           d == rest[c].d
       IN  /\ senders' = senders \ {r}
           /\ chan' = IF r \in senders THEN [chan EXCEPT ![r] = d] ELSE chan
           /\ Announce({r}, StatusOf(d))
    /\ rest' = [rest EXCEPT ![c].pc = "resume"]
    /\ UNCHANGED <<store, pc, verdict, watchdog, cancelled, grants, up, budget>>

\* DELETE of a standing grant.
Revoke(g) ==
    /\ up /\ g \in standing
    /\ standing' = standing \ {g}
    /\ UNCHANGED <<row, expired, calls, grants, rest, told, up, budget>>

-----------------------------------------------------------------------------
(* Crash and restart.                                                      *)

\* The tables survive, everything else is lost.
Crash ==
    /\ up /\ Trouble
    /\ up' = FALSE /\ crashes' = crashes + 1
    /\ pc' = [r \in Requests |-> IF pc[r] \in Ended \cup {"start"} THEN pc[r] ELSE "gone"]
    /\ senders' = {} /\ watchdog' = {} /\ grants' = {}
    /\ chan' = [r \in Requests |-> NULL]
    /\ rest' = [c \in Clients |-> Idle]
    /\ UNCHANGED <<store, verdict, cancelled, told, faults, drops>>

\* Startup, before any request is accepted: expired rows time out, then the
\* run manager aborts those of the rest that it cannot restore.
Restart ==
    /\ ~up /\ up' = TRUE
    /\ \E lost \in SUBSET (Pending \ expired) :
          row' = [r \in Requests |->
                    IF r \in Pending \cap expired
                    THEN [status |-> "timed_out", decision |-> NULL]
                    ELSE IF r \in lost THEN [status |-> "aborted", decision |-> NULL]
                    ELSE row[r]]
    /\ Announce(Pending \cap expired, "timed_out")
    /\ UNCHANGED <<expired, standing, calls, grants, rest, budget>>

\* settle_resumed: a call resumed after a restart takes over the grant its
\* decision carried, when its class still allows one.
SettleEligible(r, d) ==
    /\ ~PerCall(r)
    /\ \/ d = "approve_for_session" /\ SessionWide(r)
       \/ d = "approve_for_target" /\ Req[r].risk = "external" /\ OfferTarget(r) # NULL

\* What resume_run does for an approval whose caller is gone: the decision on
\* the row answers the call, unless the run can no longer be restored.
Resume(c) ==
    /\ up /\ rest[c].pc = "resume"
    /\ rest' = [rest EXCEPT ![c] = Idle]
    /\ LET r == rest[c].r
           d == rest[c].d
       IN  \/ /\ pc[r] \in {"gone", "dropped"}
              /\ IF SettleEligible(r, d) THEN ApplyGrants(r, d)
                 ELSE UNCHANGED <<standing, grants>> /\ NoFault
              /\ Return(r, StatusOf(d))
           \/ /\ pc[r] \in {"gone", "dropped"}
              /\ Return(r, "aborted") /\ UNCHANGED <<standing, grants>> /\ NoFault
           \/ /\ pc[r] \notin {"gone", "dropped"}
              /\ UNCHANGED <<pc, verdict, standing, grants>> /\ NoFault
    /\ UNCHANGED <<row, expired, senders, chan, watchdog, cancelled, told, up, crashes, drops>>

Caller(r) ==
    \/ Enter(r) \/ LookupStanding(r) \/ LookupSession(r) \/ GuardianAnswers(r)
    \/ Register(r) \/ Persist(r) \/ TakeDecision(r) \/ VerdictFromRow(r)

\* Every call was answered and nothing is left to do.
Quiescent ==
    /\ up /\ Pending = {} /\ watchdog = {}
    /\ \A r \in Requests : pc[r] \in Ended
    /\ \A c \in Clients : rest[c].pc = "idle"
    /\ UNCHANGED vars

Next ==
    \/ \E r \in Requests :
          \/ Caller(r) \/ TimerFires(r) \/ CancelFires(r) \/ CancelRun(r) \/ DropCaller(r)
          \/ WatchdogFires(r) \/ Expire(r)
          \/ \E c \in Clients, d \in Decisions : Submit(c, r, d)
    \/ \E c \in Clients : Cas(c) \/ Wake(c) \/ Resume(c)
    \/ \E g \in standing : Revoke(g)
    \/ TimeoutExpired \/ Crash \/ Restart \/ Quiescent

Spec == Init /\ [][Next]_vars

\* The runtime polls its tasks, timers fire, the clock passes every deadline,
\* the recovery scan keeps running and a crashed daemon is started again.  A
\* call has finitely many steps, so fairness to all of them together is enough.
FairSpec ==
    /\ Spec
    /\ WF_vars(\E r \in Requests : Caller(r) \/ TimerFires(r))
    /\ WF_vars(\E r \in Requests : Expire(r))
    /\ WF_vars(TimeoutExpired) /\ WF_vars(Restart)

-----------------------------------------------------------------------------
(* Properties.                                                             *)

\* The types of the broker's state and of its tables.
TypeOK ==
    /\ row \in [Requests -> Row]
    /\ expired \subseteq Requests /\ senders \subseteq Requests
    /\ watchdog \subseteq Requests /\ cancelled \subseteq Requests
    /\ pc \in [Requests -> Places] /\ verdict \in [Requests -> Verdicts]
    /\ chan \in [Requests -> Decisions \cup {NULL}]
    /\ rest \in [Clients -> RestCall \cup {Idle}]
    /\ told \in [Requests -> Seq(Status)]
    /\ up \in BOOLEAN
    /\ faults \in Nat /\ crashes \in Nat /\ drops \in Nat

\* No earlier permission and no Guardian may cover it.
NeedsHuman(r) == Req[r].plan \/ PerCall(r)

\* A plan and a module call are let through by a human only: whatever grants
\* exist and whatever the Guardian says, an approved verdict for one of them
\* has its own row, approved for this call alone (request_plan; L-APPR-5).
HumanDecides ==
    \A r \in Requests :
        NeedsHuman(r) /\ verdict[r] = "approved" =>
            row[r] = [status |-> "approved", decision |-> "approve"]

\* Every lasting permission goes back to a human who chose it: a grant names
\* the scope, tool and target of an approved row whose decision carried it
\* (apply_decision, record_standing_grant, settle_resumed).
GrantsEarned ==
    /\ \A g \in standing : \E r \in Requests :
          /\ g = StandingGrant(r) /\ OfferTarget(r) # NULL /\ ~PerCall(r)
          /\ row[r] = [status |-> "approved", decision |-> "approve_for_target"]
    /\ \A g \in grants : \E r \in Requests :
          /\ g = SessionGrant(r) /\ ~PerCall(r)
          /\ row[r] = [status |-> "approved", decision |-> "approve_for_session"]

\* The answer a human gave in time is the caller's answer, in whichever order
\* the answer, the timer, the watchdog and the sweep run: without a store
\* error, a waiting call whose row is approved is denied to nobody but a
\* cancelled run (verdict_from_row).
AnswerHonoured ==
    \A r \in Requests :
        faults = 0 /\ pc[r] = "done" /\ crashes = 0 /\ drops = 0 /\ r \notin cancelled =>
            (row[r].status = "approved" => verdict[r] = "approved")

\* The broker keeps the promises of ApprovalOutcome: one decision per row, at
\* most one announcement of it, and no approval without one.
Outcome == INSTANCE ApprovalOutcome WITH
    NeedsHuman <- NeedsHuman, status <- [r \in Requests |-> row[r].status]
OutcomeSpec == Outcome!Spec

\* Nothing is left hanging: in the end every gated call is answered, or its
\* caller is gone, and no approval stays pending, not even when its caller
\* died, its watchdog failed or the daemon was restarted (the select of
\* run_pending_approval, timeout_expired).
EveryApprovalEnds ==
    <>[](\A r \in Requests : pc[r] \in Ended /\ row[r].status # "pending")
=============================================================================
