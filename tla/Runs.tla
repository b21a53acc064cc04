-------------------------------- MODULE Runs --------------------------------
(***************************************************************************)
(* The run manager (agent24-agent/src/lib.rs and resume.rs).  One task     *)
(* drives a run: it asks the model, runs the tools of each turn behind the *)
(* approval gate and lands the run terminal.  Around it: cancellation, the *)
(* REST answer that resumes a parked run, the scan that cancels runs whose *)
(* approval timed out, and the startup sweeps after a crash.               *)
(***************************************************************************)
EXTENDS Integers, FiniteSets, Sequences, SequencesExt, FiniteSetsExt

CONSTANTS
    NULL,
    RunIds,
    PlanRuns,       \* the runs started in plan mode
    Clients,        \* REST calls in flight
    Turns,          \* the tool turns the model may send in each run: sequences of Kind
    MaxIterations,  \* MAX_ITERATIONS (10 in the code)
    MaxToolCalls,   \* MAX_TOOL_CALLS_PER_TURN (16 in the code)
    MaxRounds,      \* MAX_APPROVAL_ROUNDS (3 in the code)
    MaxRuns,        \* bound: runs started
    MaxCalls,       \* bound: REST calls made
    MaxTroubles     \* bound: store errors, crashes, panics and dropped REST calls

\* Two calls of one kind name the same tool with the same arguments.
\* "granted" is gated but passes on an earlier permission; "module" is gated
\* and its approval is bound to the module's grant; "plan" is propose_plan.
Kind == {"read", "gated", "granted", "module", "plan"}
Asks == {"gated", "granted", "module"}

ASSUME RunsAssumption ==
    /\ PlanRuns \subseteq RunIds
    /\ \A r \in RunIds : \A t \in Turns[r] : t \in Seq(Kind) /\ t # <<>>
    /\ MaxIterations \in Nat \ {0} /\ MaxToolCalls \in Nat \ {0}
    /\ MaxRounds \in Nat \ {0}
    /\ MaxRuns \in Nat /\ MaxTroubles \in Nat

VARIABLES
    status,     \* the runs table
    thread,     \* the last tool turn on disk and which of its calls are answered
    rows,       \* the approvals of each run, in insertion order
    exec,       \* the task that drives each run
    token,      \* `cancels`: each run's cancellation token
    rest,       \* REST calls: an answer that goes on to resume_run, or a cancel
    scan,       \* the recovery scan
    phase,      \* the daemon: up, down, or in a startup sweep
    ran,        \* the tool calls whose execution began, per run
    told,       \* the terminal events of each run
    faults, crashes, panics, drops, calls

tables == <<status, thread, rows>>
budget == <<faults, crashes, panics, drops, calls>>
vars == <<tables, exec, token, rest, scan, phase, ran, told, budget>>

Terminal == {"completed", "failed", "cancelled"}
Status == {"none", "queued", "running", "awaiting"} \cup Terminal

\* A mutant: every status may be left for every other.
LegalAlways(from, to) == from # to

\* run_transition_allowed.
Legal(from, to) ==
    \/ from = "queued" /\ to \in {"running", "cancelled"}
    \/ from = "running" /\ to \in Terminal \cup {"awaiting"}
    \/ from = "awaiting" /\ to \in {"running", "cancelled"}

NoThread == [n |-> 0, turn |-> <<>>, distinct |-> TRUE, done |-> {}]
NoExec == [pc |-> "idle", iter |-> 0, plan |-> FALSE, i |-> 0, row |-> 0,
           rounds |-> 0, resumed |-> FALSE, parked |-> FALSE, asked |-> FALSE,
           pre |-> FALSE, allowed |-> FALSE, to |-> NULL, snap |-> NoThread]
Idle == [pc |-> "idle"]
NoScan == [todo |-> {}, at |-> NULL, pc |-> "idle"]

Init ==
    /\ status = [r \in RunIds |-> "none"]
    /\ thread = [r \in RunIds |-> NoThread]
    /\ rows = [r \in RunIds |-> <<>>]
    /\ exec = [r \in RunIds |-> NoExec]
    /\ token = [r \in RunIds |-> "none"]
    /\ rest = [c \in Clients |-> Idle]
    /\ scan = NoScan /\ phase = "up"
    /\ ran = [r \in RunIds |-> <<>>] /\ told = [r \in RunIds |-> <<>>]
    /\ faults = 0 /\ crashes = 0 /\ panics = 0 /\ drops = 0 /\ calls = 0

NoFault == UNCHANGED budget
Trouble == faults + crashes + panics + drops < MaxTroubles
Fault == Trouble /\ faults' = faults + 1 /\ UNCHANGED <<crashes, panics, drops, calls>>

\* Go to `l` with the other fields of the task as in `e`.
At(r, l) == exec[r].pc = l
Go(r, e, l) == exec' = [exec EXCEPT ![r] = [e EXCEPT !.pc = l]]
Finish(r, to) == Go(r, [exec[r] EXCEPT !.to = to], "finish")

\* A status change whose failure is only logged.
Move(r, to) ==
    \/ NoFault /\ status' = [status EXCEPT ![r] = IF Legal(@, to) THEN to ELSE @]
    \/ Fault /\ UNCHANGED status

\* A terminal status with its event; lost when the row is already terminal.
Land(r, to) ==
    IF Legal(status[r], to)
    THEN /\ status' = [status EXCEPT ![r] = to]
         /\ told' = [told EXCEPT ![r] = Append(@, to)]
    ELSE UNCHANGED <<status, told>>

-----------------------------------------------------------------------------
(* start_run and execute.                                                  *)

\* The token is registered before the row can be found.
Start(r) ==
    /\ phase = "up" /\ status[r] = "none"
    /\ Cardinality({q \in RunIds : status[q] # "none"}) < MaxRuns
    /\ token' = [token EXCEPT ![r] = "live"]
    /\ status' = [status EXCEPT ![r] = "queued"]
    /\ Go(r, [NoExec EXCEPT !.plan = r \in PlanRuns], "boot")
    /\ UNCHANGED <<thread, rows, rest, scan, phase, ran, told, budget>>

Quiet == UNCHANGED <<token, rest, scan, phase>>

Boot(r) ==
    /\ At(r, "boot")
    /\ IF token[r] = "cancelled"
       THEN Finish(r, "cancelled") /\ NoFault /\ UNCHANGED status
       ELSE \/ /\ Legal(status[r], "running") /\ Move(r, "running")
               /\ Go(r, exec[r], IF status'[r] = "running" THEN "prepare" ELSE "end")
            \/ /\ ~Legal(status[r], "running") /\ Go(r, exec[r], "end")
               /\ NoFault /\ UNCHANGED status
    /\ Quiet /\ UNCHANGED <<thread, rows, ran, told>>

\* Recall, session context and the snapshot of the first request.
Prepare(r) ==
    /\ At(r, "prepare")
    /\ \/ token[r] = "cancelled" /\ Finish(r, "cancelled") /\ NoFault
       \/ Go(r, exec[r], "model") /\ NoFault
       \/ Finish(r, "failed") /\ Fault
    /\ Quiet /\ UNCHANGED <<tables, ran, told>>

-----------------------------------------------------------------------------
(* run_loop: the model's turn.                                             *)

ModelStops(r) ==
    /\ At(r, "model")
    /\ \/ exec[r].iter = MaxIterations /\ Finish(r, "failed")
       \/ /\ exec[r].iter < MaxIterations
          /\ \/ token[r] = "cancelled" /\ Finish(r, "cancelled")
             \/ Finish(r, "failed")               \* provider or source refusal
    /\ Quiet /\ UNCHANGED <<tables, ran, told, budget>>

\* The assistant turn is on disk before any of its calls runs.
ToolTurn(r) ==
    /\ At(r, "model") /\ exec[r].iter < MaxIterations
    /\ \/ /\ \E t \in Turns[r], d \in BOOLEAN :
               thread' = [thread EXCEPT ![r] =
                   [n |-> @.n + 1, turn |-> t, distinct |-> d \/ Len(t) < 2, done |-> {}]]
          /\ Go(r, [exec[r] EXCEPT !.iter = @ + 1, !.i = 1], "calls")
          /\ NoFault
       \/ Finish(r, "failed") /\ Fault /\ UNCHANGED thread
    /\ Quiet /\ UNCHANGED <<status, rows, ran, told>>

\* The final answer; the memory write stays cancellable.
FinalAnswer(r) ==
    /\ At(r, "model") /\ exec[r].iter < MaxIterations
    /\ Go(r, exec[r], "remember")
    /\ Quiet /\ UNCHANGED <<tables, ran, told, budget>>

Remember(r) ==
    /\ At(r, "remember")
    /\ IF token[r] = "cancelled" THEN Finish(r, "cancelled") ELSE Finish(r, "completed")
    /\ Quiet /\ UNCHANGED <<tables, ran, told, budget>>

FinishStep(r) ==
    /\ At(r, "finish")
    /\ \/ NoFault /\ Land(r, exec[r].to)
       \/ Fault /\ UNCHANGED <<status, told>>
    /\ Go(r, exec[r], "end")
    /\ Quiet /\ UNCHANGED <<thread, rows, ran>>

\* The supervisor drops the token once the task is over.
EndTask(r) ==
    /\ At(r, "end")
    /\ exec' = [exec EXCEPT ![r] = NoExec]
    /\ token' = [token EXCEPT ![r] = "none"]
    /\ UNCHANGED <<tables, rest, scan, phase, ran, told, budget>>

\* Foreign code panics: the provider's, a tool's or the memory's.
Panic(r) ==
    /\ exec[r].pc \in {"model", "tool", "remember"} /\ Trouble
    /\ panics' = panics + 1
    /\ Finish(r, "failed")
    /\ Quiet /\ UNCHANGED <<tables, ran, told, faults, crashes, drops, calls>>

-----------------------------------------------------------------------------
(* run_loop and drive_resume: the calls of a turn, in order.               *)

InTurn(r) == At(r, "calls") /\ exec[r].i <= Len(thread[r].turn)
KindOf(r) == thread[r].turn[exec[r].i]
CallOf(r) == [n |-> thread[r].n, i |-> exec[r].i, kind |-> KindOf(r)]

TurnDone(r) ==
    /\ At(r, "calls") /\ exec[r].i > Len(thread[r].turn)
    /\ Go(r, IF exec[r].resumed THEN [NoExec EXCEPT !.pc = "model"] ELSE exec[r], "model")
    /\ Quiet /\ UNCHANGED <<tables, ran, told, budget>>

CallCancelled(r) ==
    /\ InTurn(r) /\ token[r] = "cancelled"
    /\ Finish(r, "cancelled")
    /\ Quiet /\ UNCHANGED <<tables, ran, told, budget>>

\* A mutant: plan mode is enforced by what is advertised only.
RefusesLimit(r) == ~exec[r].resumed /\ exec[r].i > MaxToolCalls

\* The loop's own refusals: over the turn's limit, or a plan not yet approved.
Refuses(r) ==
    /\ ~exec[r].resumed
    /\ \/ exec[r].i > MaxToolCalls
       \/ exec[r].plan /\ KindOf(r) \notin {"read", "plan"}

\* A resumed turn hands propose_plan to the registry, which does not know it.
Refuse(r) ==
    /\ InTurn(r) /\ token[r] # "cancelled" /\ ~exec[r].parked
    /\ Refuses(r) \/ (exec[r].resumed /\ KindOf(r) = "plan")
    /\ Go(r, exec[r], "answer")
    /\ Quiet /\ UNCHANGED <<tables, ran, told, budget>>

\* run_tool_call and run_plan_proposal up to the gate: the run shows as
\* awaiting before the gate is asked.  A tool_calls row that cannot be written
\* answers the call, or rejects the plan.
CallTool(r) ==
    /\ InTurn(r) /\ token[r] # "cancelled" /\ ~exec[r].parked /\ ~Refuses(r)
    /\ ~(exec[r].resumed /\ KindOf(r) = "plan")
    /\ LET asks == KindOf(r) \in Asks \cup {"plan"}
           e == [exec[r] EXCEPT !.asked = asks, !.rounds = 1, !.allowed = FALSE] IN
       \/ asks /\ Move(r, "awaiting") /\ Go(r, e, "gate")
       \/ ~asks /\ Go(r, e, "run") /\ NoFault /\ UNCHANGED status
       \/ /\ Fault /\ UNCHANGED status
          /\ Go(r, [e EXCEPT !.asked = FALSE], IF KindOf(r) = "plan" THEN "reject" ELSE "answer")
    /\ Quiet /\ UNCHANGED <<thread, rows, ran, told>>

\* The gate, with `life` the process that asked: an earlier permission, or a row a human decides.
Gate(r) ==
    /\ At(r, "gate")
    /\ \/ /\ KindOf(r) = "granted"
          /\ Go(r, exec[r], "run") /\ NoFault /\ UNCHANGED rows
       \/ /\ KindOf(r) # "granted"
          /\ rows' = [rows EXCEPT ![r] = Append(@,
                 [call |-> CallOf(r), reasked |-> exec[r].pre,
                  life |-> crashes, status |-> "pending"])]
          /\ Go(r, [exec[r] EXCEPT !.row = Len(rows[r]) + 1], "wait") /\ NoFault
       \/ /\ KindOf(r) # "granted" /\ Fault /\ UNCHANGED rows
          /\ Go(r, [exec[r] EXCEPT !.allowed = FALSE], "back")
    /\ Quiet /\ UNCHANGED <<status, thread, ran, told>>

SetRow(r, k, s) == rows' = [rows EXCEPT ![r][k].status = s]

\* The broker returns what the row says.
Verdict(r) ==
    /\ At(r, "wait")
    /\ LET s == rows[r][exec[r].row].status IN
       \/ /\ s = "approved"
          /\ IF KindOf(r) = "plan"
             THEN Go(r, [exec[r] EXCEPT !.plan = FALSE, !.allowed = TRUE], "back")
             ELSE Go(r, exec[r], "run")
       \/ s \in {"denied", "timed_out"} /\ Go(r, [exec[r] EXCEPT !.allowed = FALSE], "back")
       \/ s = "aborted" /\ Finish(r, "cancelled")
    /\ Quiet /\ UNCHANGED <<tables, ran, told, budget>>

\* The cancelled wait aborts its own row.
WaitCancelled(r) ==
    /\ At(r, "wait") /\ token[r] = "cancelled"
    /\ rows[r][exec[r].row].status = "pending"
    /\ SetRow(r, exec[r].row, "aborted") /\ Finish(r, "cancelled")
    /\ Quiet /\ UNCHANGED <<status, thread, ran, told, budget>>

\* The waiter's timer, the watchdog or the expiry scan.
Timeout(r, k) ==
    /\ phase = "up" /\ k \in DOMAIN rows[r] /\ rows[r][k].status = "pending"
    /\ SetRow(r, k, "timed_out")
    /\ UNCHANGED <<status, thread, exec, token, rest, scan, phase, ran, told, budget>>

-----------------------------------------------------------------------------
(* Executing a call and answering it.                                      *)

BeginTool(r) ==
    /\ At(r, "run")
    /\ KindOf(r) = "module" => ~exec[r].pre \/ exec[r].asked
    /\ ran' = [ran EXCEPT ![r] = Append(@, CallOf(r))]
    /\ Go(r, exec[r], "tool")
    /\ Quiet /\ UNCHANGED <<tables, told, budget>>

\* The grant a module's approval was bound to has changed, or, for a call
\* approved before a restart, is not known: the human is asked again.
StaleGrant(r) ==
    /\ At(r, "run") /\ KindOf(r) = "module"
    /\ IF exec[r].asked
       THEN /\ IF exec[r].rounds < MaxRounds
               THEN Go(r, [exec[r] EXCEPT !.rounds = @ + 1], "gate")
               ELSE Go(r, [exec[r] EXCEPT !.allowed = FALSE], "back")
            /\ NoFault /\ UNCHANGED status
       ELSE /\ Go(r, [exec[r] EXCEPT !.asked = TRUE], "gate")
            /\ Move(r, "awaiting")
    /\ Quiet /\ UNCHANGED <<thread, rows, ran, told>>

EndTool(r) ==
    /\ At(r, "tool")
    /\ Go(r, [exec[r] EXCEPT !.allowed = TRUE], "back")
    /\ Quiet /\ UNCHANGED <<tables, ran, told, budget>>

ToolCancelled(r) ==
    /\ exec[r].pc \in {"run", "tool"} /\ token[r] = "cancelled"
    /\ Finish(r, "cancelled")
    /\ Quiet /\ UNCHANGED <<tables, ran, told, budget>>

\* Back to running.  A rejected plan then ends the run.
Back(r) ==
    /\ At(r, "back")
    /\ IF exec[r].asked THEN Move(r, "running") ELSE NoFault /\ UNCHANGED status
    /\ Go(r, exec[r], IF KindOf(r) = "plan" /\ ~exec[r].allowed THEN "reject" ELSE "answer")
    /\ Quiet /\ UNCHANGED <<thread, rows, ran, told>>

Answered(r) == thread' = [thread EXCEPT ![r].done = @ \cup {exec[r].i}]

\* An answer that cannot be written ends the run.
Answer(r) ==
    /\ At(r, "answer")
    /\ \/ Answered(r) /\ NoFault
          /\ Go(r, [exec[r] EXCEPT !.i = @ + 1, !.asked = FALSE, !.pre = FALSE], "calls")
       \/ Finish(r, "failed") /\ Fault /\ UNCHANGED thread
    /\ Quiet /\ UNCHANGED <<status, rows, ran, told>>

Reject(r) ==
    /\ At(r, "reject")
    /\ \/ Answered(r) /\ NoFault
       \/ Fault /\ UNCHANGED thread
    /\ Finish(r, "completed")
    /\ Quiet /\ UNCHANGED <<status, rows, ran, told>>

-----------------------------------------------------------------------------
(* The REST answer and resume_run.                                         *)

Decisions == {"approved", "denied", "aborted"}

\* A REST call comes in.
Called(c) ==
    /\ phase = "up" /\ rest[c] = Idle /\ calls < MaxCalls
    /\ calls' = calls + 1 /\ UNCHANGED <<faults, crashes, panics, drops>>

\* The broker's compare-and-set on the row; resume_run follows it.
Decide(c, r, k, d) ==
    /\ Called(c)
    /\ k \in DOMAIN rows[r] /\ rows[r][k].status = "pending"
    /\ d = "aborted" => rows[r][k].call.kind # "plan"
    /\ SetRow(r, k, d)
    /\ rest' = [rest EXCEPT ![c] = [pc |-> "decided", run |-> r, row |-> k]]
    /\ UNCHANGED <<status, thread, exec, token, scan, phase, ran, told>>

\* Only a parked run resumes.
ResumeRead(c) ==
    /\ rest[c].pc = "decided"
    /\ rest' = [rest EXCEPT ![c] = IF status[@.run] = "awaiting" THEN [@ EXCEPT !.pc = "parked"] ELSE Idle]
    /\ UNCHANGED <<tables, exec, token, scan, phase, ran, told, budget>>

ResumeThread(c) ==
    /\ rest[c].pc = "parked"
    /\ rest' = [rest EXCEPT ![c] =
          [pc |-> "read", run |-> @.run, row |-> @.row, snap |-> thread[@.run]]]
    /\ UNCHANGED <<tables, exec, token, scan, phase, ran, told, budget>>

ResumeFails(c) ==
    /\ rest[c].pc \in {"decided", "parked"} /\ Fault
    /\ rest' = [rest EXCEPT ![c] = Idle]
    /\ UNCHANGED <<tables, exec, token, scan, phase, ran, told>>

\* A mutant: a duplicate trigger is not noticed.
SpawnsAlways(r) == TRUE

\* A token means that a task drives the run already.
Spawns(r) == token[r] = "none"

ResumeSpawn(c) ==
    /\ rest[c].pc = "read"
    /\ LET r == rest[c].run IN
       IF Spawns(r)
       THEN /\ token' = [token EXCEPT ![r] = "live"]
            /\ exec' = [exec EXCEPT ![r] = [NoExec EXCEPT
                   !.pc = "assess", !.row = rest[c].row, !.snap = rest[c].snap]]
       ELSE UNCHANGED <<token, exec>>
    /\ rest' = [rest EXCEPT ![c] = Idle]
    /\ UNCHANGED <<tables, scan, phase, ran, told, budget>>

\* The connection closes and takes the handler with it, between two awaits.
DropCall(c) ==
    /\ rest[c] # Idle /\ Trouble
    /\ rest' = [rest EXCEPT ![c] = Idle] /\ drops' = drops + 1
    /\ UNCHANGED <<tables, exec, token, scan, phase, ran, told, faults, crashes, panics, calls>>

Unanswered(t) == DOMAIN t.turn \ t.done

\* plan_resume: the thread has a call that was parked.
Suspended(s, t) == s = "awaiting" /\ t.distinct /\ Unanswered(t) # {}

\* assess_restore: the thread's first unanswered call is what the row `w` was
\* asked for.  The row's tool and payload are its call's kind;
\* a row asked again on resume names its call.
Restorable(s, t, w) ==
    /\ Suspended(s, t)
    /\ LET i == Min(Unanswered(t)) IN
       /\ t.turn[i] = w.call.kind
       /\ w.reasked => w.call.n = t.n /\ w.call.i = i

\* drive_resume's checks, on what resume_run read.  The tool may be gone and
\* the approval older than the resume TTL.
Assess(r) ==
    /\ At(r, "assess")
    /\ LET e == exec[r] IN
       \/ /\ Restorable("awaiting", e.snap, rows[r][e.row])
          /\ Go(r, [e EXCEPT !.resumed = TRUE, !.parked = TRUE, !.i = Min(Unanswered(e.snap))], "enter")
          /\ NoFault
       \/ Finish(r, "cancelled") /\ NoFault
       \/ Finish(r, "cancelled") /\ Fault
    /\ Quiet /\ UNCHANGED <<tables, ran, told>>

\* Unproven sources enter running only to fail; a run that left awaiting in
\* the meantime is left alone.
Enter(r) ==
    /\ At(r, "enter")
    /\ IF Legal(status[r], "running")
       THEN /\ Move(r, "running")
            /\ \/ Go(r, exec[r], IF status'[r] = "running" THEN "calls" ELSE "end")
               \/ Go(r, [exec[r] EXCEPT !.to = "failed"],
                     IF status'[r] = "running" THEN "finish" ELSE "end")
       ELSE Go(r, exec[r], "end") /\ NoFault /\ UNCHANGED status
    /\ Quiet /\ UNCHANGED <<thread, rows, ran, told>>

\* A mutant: every call that is left is settled from the one decision.
SettleEvery(r) ==
    /\ InTurn(r) /\ token[r] # "cancelled" /\ exec[r].parked
    /\ rows[r][exec[r].row].status = "approved"
    /\ Go(r, [exec[r] EXCEPT !.pre = TRUE], "run")
    /\ Quiet /\ UNCHANGED <<tables, ran, told, budget>>

\* settle_parked_call: the recorded decision stands in for the gate.
SettleParked(r) ==
    /\ InTurn(r) /\ token[r] # "cancelled" /\ exec[r].parked
    /\ LET e == [exec[r] EXCEPT !.parked = FALSE, !.pre = TRUE]
           s == rows[r][exec[r].row].status IN
       IF KindOf(r) = "plan"
       THEN Go(r, e, IF s = "approved" THEN "answer" ELSE "reject")
       ELSE \/ s = "approved" /\ Go(r, e, "run")
            \/ s = "denied" /\ Go(r, e, "answer")
            \/ s \notin {"approved", "denied"} /\ Finish(r, "cancelled")
    /\ Quiet /\ UNCHANGED <<tables, ran, told, budget>>

-----------------------------------------------------------------------------
(* cancel_run.                                                             *)

CancelRead(c, r) ==
    /\ Called(c)
    /\ status[r] \notin Terminal \cup {"none"}
    /\ rest' = [rest EXCEPT ![c] = [pc |-> "cancel", run |-> r]]
    /\ UNCHANGED <<tables, exec, token, scan, phase, ran, told>>

\* The task lands the run when there is a token; without one the caller does.
CancelToken(c) ==
    /\ rest[c].pc = "cancel"
    /\ LET r == rest[c].run IN
       IF token[r] # "none"
       THEN /\ token' = [token EXCEPT ![r] = "cancelled"]
            /\ rest' = [rest EXCEPT ![c] = Idle]
       ELSE /\ rest' = [rest EXCEPT ![c].pc = "land"]
            /\ UNCHANGED token
    /\ UNCHANGED <<tables, exec, scan, phase, ran, told, budget>>

CancelLand(c) ==
    /\ rest[c].pc = "land"
    /\ \/ NoFault /\ Land(rest[c].run, "cancelled")
       \/ Fault /\ UNCHANGED <<status, told>>
    /\ rest' = [rest EXCEPT ![c] = Idle]
    /\ UNCHANGED <<thread, rows, exec, token, scan, phase, ran>>

-----------------------------------------------------------------------------
(* recover_timed_out_approval_runs, on its timer.                          *)

HasPending(ws) == \E k \in DOMAIN ws : ws[k].status = "pending"
Pending(r) == HasPending(rows[r])

\* A mutant: the scan looks for runs that show as running.
RunningTimedOut(s, ws) ==
    /\ s = "running" /\ ~HasPending(ws)
    /\ ws # <<>> /\ Last(ws).status = "timed_out"

\* Parked, its newest approval timed out, none pending.
ParkedTimedOut(s, ws) ==
    /\ s = "awaiting" /\ ~HasPending(ws)
    /\ ws # <<>> /\ Last(ws).status = "timed_out"

TimedOut(r) == ParkedTimedOut(status[r], rows[r])

ScanList ==
    /\ phase = "up" /\ scan = NoScan
    /\ scan' = [scan EXCEPT !.todo = {r \in RunIds : TimedOut(r)}]
    /\ UNCHANGED <<tables, exec, token, rest, phase, ran, told, budget>>

\* A run with a token is left to its task.
ScanCheck(r) ==
    /\ r \in scan.todo /\ scan.at = NULL
    /\ scan' = [scan EXCEPT !.todo = @ \ {r},
                            !.at = IF token[r] = "none" THEN r ELSE NULL,
                            !.pc = IF token[r] = "none" THEN "read" ELSE "idle"]
    /\ UNCHANGED <<tables, exec, token, rest, phase, ran, told, budget>>

ScanRead ==
    /\ scan.pc = "read"
    /\ scan' = IF status[scan.at] = "awaiting" THEN [scan EXCEPT !.pc = "land"]
                ELSE [scan EXCEPT !.at = NULL, !.pc = "idle"]
    /\ UNCHANGED <<tables, exec, token, rest, phase, ran, told, budget>>

ScanLand ==
    /\ scan.pc = "land"
    /\ \/ NoFault /\ Land(scan.at, "cancelled")
       \/ Fault /\ UNCHANGED <<status, told>>
    /\ scan' = [scan EXCEPT !.at = NULL, !.pc = "idle"]
    /\ UNCHANGED <<thread, rows, exec, token, rest, phase, ran>>

-----------------------------------------------------------------------------
(* Crash and the startup sweeps, before requests are accepted.             *)

Crash ==
    /\ phase # "down" /\ Trouble
    /\ phase' = "down" /\ crashes' = crashes + 1
    /\ exec' = [r \in RunIds |-> NoExec] /\ token' = [r \in RunIds |-> "none"]
    /\ rest' = [c \in Clients |-> Idle] /\ scan' = NoScan
    /\ UNCHANGED <<tables, ran, told, faults, panics, drops, calls>>

\* timeout_expired, then recover_timed_out_approval_runs.
SweepExpired ==
    /\ phase = "down" /\ phase' = "restore"
    /\ \E late \in SUBSET RunIds :
         rows' = [r \in RunIds |-> [k \in DOMAIN rows[r] |->
             IF r \in late /\ rows[r][k].status = "pending"
             THEN [rows[r][k] EXCEPT !.status = "timed_out"] ELSE rows[r][k]]]
    /\ status' = [r \in RunIds |-> IF ParkedTimedOut(status[r], rows'[r]) THEN "cancelled" ELSE status[r]]
    /\ told' = [r \in RunIds |-> IF status'[r] # status[r] THEN Append(told[r], "cancelled") ELSE told[r]]
    /\ UNCHANGED <<thread, exec, token, rest, scan, ran, budget>>

\* restore_pending_approvals: what cannot be resumed is aborted.
RestorePending ==
    /\ phase = "restore" /\ phase' = "sweep"
    /\ \E drift \in SUBSET RunIds :
         rows' = [r \in RunIds |-> [k \in DOMAIN rows[r] |->
             IF /\ rows[r][k].status = "pending"
                /\ r \in drift \/ ~Restorable(status[r], thread[r], rows[r][k])
             THEN [rows[r][k] EXCEPT !.status = "aborted"] ELSE rows[r][k]]]
    /\ UNCHANGED <<status, thread, exec, token, rest, scan, ran, told, budget>>

Orphan(r) ==
    \/ status[r] \in {"queued", "running"}
    \/ status[r] = "awaiting" /\ ~Pending(r)

\* sweep_orphan_runs; it announces nothing.
SweepOrphans ==
    /\ phase = "sweep" /\ phase' = "up"
    /\ status' = [r \in RunIds |-> IF Orphan(r) THEN "cancelled" ELSE status[r]]
    /\ UNCHANGED <<thread, rows, exec, token, rest, scan, ran, told, budget>>

-----------------------------------------------------------------------------
TaskStep(r) ==
    \/ Boot(r) \/ Prepare(r) \/ ModelStops(r) \/ ToolTurn(r) \/ FinalAnswer(r)
    \/ Remember(r) \/ FinishStep(r) \/ EndTask(r)
    \/ TurnDone(r) \/ CallCancelled(r) \/ Refuse(r) \/ CallTool(r) \/ Gate(r)
    \/ Verdict(r) \/ WaitCancelled(r) \/ BeginTool(r) \/ StaleGrant(r) \/ EndTool(r)
    \/ ToolCancelled(r) \/ Back(r) \/ Answer(r) \/ Reject(r)
    \/ Assess(r) \/ Enter(r) \/ SettleParked(r)

CallStep(c) ==
    \/ ResumeRead(c) \/ ResumeThread(c) \/ ResumeFails(c) \/ ResumeSpawn(c)
    \/ CancelToken(c) \/ CancelLand(c)

Startup == SweepExpired \/ RestorePending \/ SweepOrphans
Scanning == ScanList \/ (\E r \in RunIds : ScanCheck(r)) \/ ScanRead \/ ScanLand

Next ==
    \/ \E r \in RunIds : Start(r) \/ TaskStep(r) \/ Panic(r)
    \/ \E r \in RunIds : \E k \in DOMAIN rows[r] : Timeout(r, k)
    \/ \E c \in Clients, r \in RunIds : CancelRead(c, r)
    \/ \E c \in Clients, r \in RunIds : \E k \in DOMAIN rows[r], d \in Decisions : Decide(c, r, k, d)
    \/ \E c \in Clients : CallStep(c) \/ DropCall(c)
    \/ Scanning \/ Crash \/ Startup

Spec == Init /\ [][Next]_vars

\* Tasks and handlers are polled, timers run out, the scan repeats and the
\* daemon is started again.  Nothing obliges a human to answer.
FairSpec ==
    /\ Spec
    /\ WF_vars(\E r \in RunIds : TaskStep(r))
    /\ WF_vars(\E r \in RunIds : \E k \in DOMAIN rows[r] : Timeout(r, k))
    /\ WF_vars(\E c \in Clients : CallStep(c))
    /\ WF_vars(Scanning) /\ WF_vars(Startup)

-----------------------------------------------------------------------------
Pcs == {"idle", "boot", "prepare", "model", "remember", "finish", "end", "calls", "gate",
        "wait", "run", "tool", "back", "answer", "reject", "assess", "enter"}

\* Every variable keeps its type; a waiting task waits for a row that exists.
TypeOK ==
    /\ \A r \in RunIds :
         /\ status[r] \in Status /\ token[r] \in {"none", "live", "cancelled"}
         /\ exec[r].pc \in Pcs /\ exec[r].row \in 0..Len(rows[r])
         /\ thread[r].done \subseteq DOMAIN thread[r].turn
         /\ exec[r].pc \in {"gate", "wait", "run", "tool", "back", "answer", "reject"} =>
               exec[r].i \in DOMAIN thread[r].turn
    /\ phase \in {"up", "down", "restore", "sweep"}
    /\ scan.todo \subseteq RunIds

\* A store error or a panic can leave a run parked without a task, and a late
\* trigger drives it again; the next two say what holds without one.
Undisturbed == faults = 0 /\ panics = 0

\* No call of a turn is executed twice, whatever crashes, is answered late or
\* is resumed in between (resume_run, drive_resume).
AtMostOnce == Undisturbed => \A r \in RunIds : IsInjective(ran[r])

\* A gated call runs only on an approval asked for that very call, although a
\* resume ties the two by tool and arguments (assess_restore).
OwnApproval ==
    Undisturbed => \A r \in RunIds : \A a \in ToSet(ran[r]) :
        a.kind \in {"gated", "module"} =>
            \E k \in DOMAIN rows[r] : rows[r][k].call = a /\ rows[r][k].status = "approved"

\* A run started in plan mode does nothing but read until a human approved a
\* plan of its own, across restarts too (run_loop, drive_resume).
PlanFirst ==
    \A r \in PlanRuns : \A a \in ToSet(ran[r]) :
        a.kind # "read" =>
            \E k \in DOMAIN rows[r] : rows[r][k].call.kind = "plan" /\ rows[r][k].status = "approved"

\* One terminal event at most, and it is the row's status: the task, the
\* canceller, the scan and the panic handler race for it (transition_terminal).
OneEnding ==
    \A r \in RunIds : Len(told[r]) <= 1 /\ (told[r] # <<>> => told[r] = <<status[r]>>)

\* Every started run ends, through crashes and without a single human answer:
\* only a panic, a store error or a dropped answer may leave one behind
\* (recover_timed_out_approval_runs, the startup sweeps).
EveryRunEnds ==
    []<>(\A r \in RunIds :
            status[r] \in Terminal \cup {"none"} \/ faults + panics + drops > 0)

\* "must still land the run in a terminal state" (start_run_inner on a panic).
PanicLandsTerminal ==
    \A r \in RunIds :
        panics > 0 /\ status[r] # "none" /\ token[r] = "none" /\ phase = "up" => status[r] \in Terminal

=============================================================================
