----------------------------- MODULE Runs_proofs -----------------------------
(***************************************************************************)
(* The run manager for any number of runs, REST calls, turns and troubles. *)
(*                                                                         *)
(* Every step but a crash and the startup sweeps is about one run, so the  *)
(* inductive invariant is a predicate of one run's row s, thread t,        *)
(* approvals w, task e, token k, executed calls n and terminal events l    *)
(* (RunKnown).  What holds only without a store error or a panic is        *)
(* DriveKnown.  LinkKnown is what a REST answer in progress still knows of *)
(* the run it is about to resume.                                          *)
(***************************************************************************)
EXTENDS Runs, WellFoundedInduction, TLAPS

-----------------------------------------------------------------------------
(* The types, by name.                                                     *)

CallType == [n : Nat, i : Nat, kind : Kind]
ApprovalType == [call : CallType, reasked : BOOLEAN, life : Nat,
                 status : {"pending", "approved", "denied", "timed_out", "aborted"}]
ThreadType == [n : Nat, turn : Seq(Kind), distinct : BOOLEAN, done : SUBSET Nat]
TaskType == [pc : Pcs, iter : Nat, plan : BOOLEAN, i : Nat, row : Nat, rounds : Nat,
             resumed : BOOLEAN, parked : BOOLEAN, asked : BOOLEAN, pre : BOOLEAN,
             allowed : BOOLEAN, to : Terminal \cup {NULL}, snap : ThreadType]
RestType == {Idle}
            \cup [pc : {"decided", "parked"}, run : RunIds, row : Nat]
            \cup [pc : {"read"}, run : RunIds, row : Nat, snap : ThreadType]
            \cup [pc : {"cancel", "land"}, run : RunIds]
ScanType == [todo : SUBSET RunIds, at : RunIds \cup {NULL}, pc : {"idle", "read", "land"}]

Typed ==
    /\ status \in [RunIds -> Status] /\ thread \in [RunIds -> ThreadType]
    /\ rows \in [RunIds -> Seq(ApprovalType)] /\ exec \in [RunIds -> TaskType]
    /\ token \in [RunIds -> {"none", "live", "cancelled"}]
    /\ ran \in [RunIds -> Seq(CallType)] /\ told \in [RunIds -> Seq(Terminal)]
    /\ rest \in [Clients -> RestType]
    /\ phase \in {"up", "down", "restore", "sweep"}
    /\ scan \in ScanType
    /\ scan.pc # "idle" => scan.at \in RunIds
    /\ faults \in Nat /\ crashes \in Nat /\ panics \in Nat /\ drops \in Nat /\ calls \in Nat

-----------------------------------------------------------------------------
(* A run and its task.                                                     *)

\* A call of the turn is being dealt with.
OnCall == {"gate", "wait", "run", "tool", "back", "answer", "reject"}

CallIn(t, e) == [n |-> t.n, i |-> e.i, kind |-> t.turn[e.i]]
IsPending(w, j) == w[j].status = "pending"
PlanApproved(w) ==
    \E j \in DOMAIN w : w[j].call.kind = "plan" /\ w[j].status = "approved"

\* Task, token, row and approvals, in phase p of the daemon.
TaskKnown(p, s, t, w, e, k, n, l) ==
    /\ k = "none" <=> e.pc = "idle"
    /\ p # "up" => e.pc = "idle"
    /\ e.pc # "idle" => s # "none"
    /\ s = "none" => w = <<>> /\ n = <<>> /\ l = <<>>
    /\ t.done \subseteq DOMAIN t.turn
    /\ e.row \in 0..Len(w)
    /\ e.pc \in {"wait", "assess", "enter"} \/ e.parked => e.row \in DOMAIN w
    /\ e.pc \in OnCall => e.i \in DOMAIN t.turn
    /\ e.pc \in {"calls", "enter"} => e.i >= 1
    /\ e.pc = "finish" => e.to \in Terminal
    /\ e.pc = "enter" => e.parked
    /\ e.parked => e.pc \in {"enter", "calls", "finish", "end"} /\ e.resumed
    /\ e.pc \in {"boot", "prepare", "model", "calls", "assess", "enter"} => ~e.asked
    /\ e.pc \in {"gate", "wait"} => e.asked
    /\ e.pc = "wait" => w[e.row].call = CallIn(t, e)

\* An approval is pending while its caller waits, or after a crash.
PendingKnown(w, e) ==
    /\ \A j \in DOMAIN w : IsPending(w, j) => e.pc = "idle" \/ (e.pc = "wait" /\ j = e.row)
    /\ \A i, j \in DOMAIN w : IsPending(w, i) /\ IsPending(w, j) => i = j

EndKnown(s, l) == l = <<>> \/ (l = <<s>> /\ s \in Terminal)

\* A run in plan mode that has not proposed yet.
Planning(w, e) == w = <<>> /\ e.plan /\ ~e.resumed

\* A run in plan mode whose plan is not approved.
PlanKnown(t, w, e, n) ==
    /\ \A j \in DOMAIN n : n[j].kind = "read"
    /\ \A j \in DOMAIN w : w[j].call.kind = "plan"
    /\ e.pc \in {"boot", "prepare", "model", "calls", "gate", "run", "tool", "answer"}
          /\ ~e.parked => Planning(w, e)
    /\ e.pc \in {"gate", "wait"} => t.turn[e.i] = "plan"
    /\ e.pc \in {"run", "tool"} => t.turn[e.i] = "read"
    /\ e.pc = "back" => (t.turn[e.i] = "plan" /\ ~e.allowed) \/ Planning(w, e)
    /\ e.parked /\ e.pc \in {"enter", "calls"} =>
          e.i \in DOMAIN t.turn /\ t.turn[e.i] = "plan"
    /\ e.pc = "assess" => e.snap.turn = t.turn

RunKnown(r, p, s, t, w, e, k, n, l) ==
    /\ TaskKnown(p, s, t, w, e, k, n, l)
    /\ PendingKnown(w, e)
    /\ EndKnown(s, l)
    /\ r \in PlanRuns /\ ~PlanApproved(w) => PlanKnown(t, w, e, n)

-----------------------------------------------------------------------------
(* Without a store error or a panic.                                       *)

\* The status is the one the task has written, or the run has ended.
StatusKnown(p, s, e) ==
    \/ s \in Terminal
    \/ e.pc = "boot" /\ s = "queued"
    \/ e.pc \in {"prepare", "model", "remember", "calls", "answer", "reject"} /\ s = "running"
    \/ e.pc \in {"gate", "wait", "assess", "enter"} /\ s = "awaiting"
    \/ e.pc \in {"run", "tool", "back"} /\ s = IF e.asked THEN "awaiting" ELSE "running"
    \/ e.pc = "finish" /\ Legal(s, e.to)
    \/ e.pc = "idle" /\ (p = "up" => s \in {"none", "awaiting"})

\* Of the turn, the calls before i are answered, and those before m are executed.
UpTo(t, i, m, n) ==
    /\ t.done = 1..(i - 1)
    /\ \A j \in DOMAIN n : n[j].n = t.n => n[j].i < m

\* The run is parked at call c.
ParkedAt(t, c, n) ==
    /\ c.n = t.n /\ c.i \in DOMAIN t.turn /\ t.turn[c.i] = c.kind
    /\ UpTo(t, c.i, c.i, n)

ApprovedFor(w, c) == \E j \in DOMAIN w : w[j].call = c /\ w[j].status = "approved"

RanOnce(n) == \A i, j \in DOMAIN n : n[i] = n[j] => i = j
RanAllowed(w, n) ==
    \A j \in DOMAIN n : n[j].kind \in {"gated", "module"} => ApprovedFor(w, n[j])

DriveKnown(p, s, t, w, e, n) ==
    /\ StatusKnown(p, s, e)
    /\ RanOnce(n) /\ RanAllowed(w, n)
    /\ \A j \in DOMAIN n : n[j].n <= t.n
    /\ e.pc \in {"calls", "gate", "wait", "run"} => UpTo(t, e.i, e.i, n)
    /\ e.pc \in {"tool", "back", "answer", "reject"} => UpTo(t, e.i, e.i + 1, n)
    /\ e.pc = "run" /\ t.turn[e.i] \in {"gated", "module"} => ApprovedFor(w, CallIn(t, e))
    /\ e.pc = "calls" /\ e.parked =>
          e.i \in DOMAIN t.turn /\ w[e.row].call = CallIn(t, e)
    /\ s = "awaiting" /\ e.pc = "assess" => e.snap = t /\ ParkedAt(t, w[e.row].call, n)
    /\ s = "awaiting" /\ e.pc = "enter" =>
          w[e.row].call = CallIn(t, e) /\ ParkedAt(t, w[e.row].call, n)
    /\ s = "awaiting" /\ e.pc = "idle" =>
          \A j \in DOMAIN w : IsPending(w, j) => ParkedAt(t, w[j].call, n)

-----------------------------------------------------------------------------
(* An answer x that goes on to resume its run.                             *)

LinkKnown(r, t, w, k, x) ==
    /\ x.row \in DOMAIN w
    /\ k = "none" => \A j \in DOMAIN w : ~IsPending(w, j)
    /\ r \in PlanRuns /\ ~PlanApproved(w) /\ x.pc = "read" => x.snap.turn = t.turn

\* Without a store error or a panic.
LinkExact(s, t, w, k, n, x) ==
    k = "none" /\ s = "awaiting" =>
        ParkedAt(t, w[x.row].call, n) /\ (x.pc = "read" => x.snap = t)

Resumes(x) == x.pc \in {"decided", "parked", "read"}

-----------------------------------------------------------------------------
(* The inductive invariant.                                                *)

RunOK(r) ==
    /\ RunKnown(r, phase, status[r], thread[r], rows[r], exec[r], token[r], ran[r], told[r])
    /\ Undisturbed => DriveKnown(phase, status[r], thread[r], rows[r], exec[r], ran[r])

LinkOK(c, r) ==
    Resumes(rest[c]) /\ rest[c].run = r =>
        /\ LinkKnown(r, thread[r], rows[r], token[r], rest[c])
        /\ Undisturbed => LinkExact(status[r], thread[r], rows[r], token[r], ran[r], rest[c])

Inv ==
    /\ Typed
    /\ \A r \in RunIds : RunOK(r)
    /\ \A c \in Clients, r \in RunIds : LinkOK(c, r)
    /\ phase # "up" => \A c \in Clients : rest[c] = Idle

-----------------------------------------------------------------------------
(* Types and fields.                                                       *)

\* The fields two tasks share when only the place differs.
SameTask(y, e) ==
    /\ y.iter = e.iter /\ y.plan = e.plan /\ y.i = e.i /\ y.row = e.row
    /\ y.rounds = e.rounds /\ y.resumed = e.resumed /\ y.parked = e.parked
    /\ y.asked = e.asked /\ y.pre = e.pre /\ y.allowed = e.allowed /\ y.snap = e.snap

\* Go moves a task and leaves the rest of it alone.
LEMMA GoFacts ==
    ASSUME NEW e \in TaskType, NEW l \in Pcs, NEW y, y = [e EXCEPT !.pc = l]
    PROVE  y \in TaskType /\ y.pc = l /\ y.to = e.to /\ SameTask(y, e)
  BY DEF TaskType, SameTask

\* A task that goes to its end with a terminal status.
Finished(e, to) == [[e EXCEPT !.to = to] EXCEPT !.pc = "finish"]

LEMMA FinishFacts ==
    ASSUME NEW e \in TaskType, NEW to \in Terminal, NEW y, y = Finished(e, to)
    PROVE  y \in TaskType /\ y.pc = "finish" /\ y.to = to /\ SameTask(y, e)
<1>. DEFINE x == [e EXCEPT !.to = to]
<1>1. x \in TaskType /\ x.pc = e.pc /\ x.to = to /\ SameTask(x, e)
  BY DEF TaskType, SameTask
<1>. HIDE DEF x
<1>2. y = [x EXCEPT !.pc = "finish"] /\ "finish" \in Pcs
  BY DEF x, Pcs, Finished
<1>3. y \in TaskType /\ y.pc = "finish" /\ y.to = x.to /\ SameTask(y, x)
  BY <1>1, <1>2, GoFacts
<1>. QED  BY <1>1, <1>3 DEF SameTask

\* The fields of a task.
LEMMA TaskFacts ==
    ASSUME NEW e \in TaskType
    PROVE  /\ e.pc \in Pcs /\ e.iter \in Nat /\ e.plan \in BOOLEAN /\ e.i \in Nat
           /\ e.row \in Nat /\ e.rounds \in Nat /\ e.resumed \in BOOLEAN
           /\ e.parked \in BOOLEAN /\ e.asked \in BOOLEAN /\ e.pre \in BOOLEAN
           /\ e.allowed \in BOOLEAN /\ e.to \in Terminal \cup {NULL} /\ e.snap \in ThreadType
  BY DEF TaskType

\* The task of a run that nobody drives.
LEMMA NoExecFacts ==
    /\ NoExec \in TaskType /\ NoThread \in ThreadType
    /\ NoExec.pc = "idle" /\ ~NoExec.plan /\ NoExec.i = 0 /\ NoExec.row = 0
    /\ ~NoExec.resumed /\ ~NoExec.parked /\ ~NoExec.asked /\ ~NoExec.pre
<1>1. NoThread \in ThreadType
  BY DEF NoThread, ThreadType
<1>. QED  BY <1>1 DEF NoExec, TaskType, Pcs

\* The calls a run executed.
LEMMA CallFacts ==
    ASSUME NEW n \in Seq(CallType), NEW j \in DOMAIN n
    PROVE  n[j] \in CallType /\ n[j].n \in Nat /\ n[j].i \in Nat /\ n[j].kind \in Kind
<1>1. n[j] \in CallType
  OBVIOUS
<1>. QED  BY <1>1 DEF CallType

\* What the invariant says of one run.
LEMMA RunFacts ==
    ASSUME Inv, NEW r \in RunIds
    PROVE  /\ status[r] \in Status /\ thread[r] \in ThreadType
           /\ rows[r] \in Seq(ApprovalType) /\ exec[r] \in TaskType
           /\ token[r] \in {"none", "live", "cancelled"}
           /\ ran[r] \in Seq(CallType) /\ told[r] \in Seq(Terminal)
           /\ TaskKnown(phase, status[r], thread[r], rows[r], exec[r], token[r], ran[r], told[r])
           /\ PendingKnown(rows[r], exec[r])
           /\ EndKnown(status[r], told[r])
           /\ r \in PlanRuns /\ ~PlanApproved(rows[r]) =>
                 PlanKnown(thread[r], rows[r], exec[r], ran[r])
           /\ Undisturbed =>
                 DriveKnown(phase, status[r], thread[r], rows[r], exec[r], ran[r])
  BY DEF Inv, Typed, RunOK, RunKnown

-----------------------------------------------------------------------------
(* A step of one run.                                                      *)

BudgetStep ==
    /\ faults' \in Nat /\ crashes' \in Nat /\ panics' \in Nat /\ drops' \in Nat /\ calls' \in Nat
    /\ Undisturbed' => Undisturbed

\* A store error or none, a panic and a dropped call keep the counters' types.
LEMMA BudgetKept ==
    ASSUME Typed
    PROVE  /\ NoFault => BudgetStep
           /\ Fault => BudgetStep /\ ~Undisturbed'
  BY DEF Typed, NoFault, Fault, budget, BudgetStep, Undisturbed

\* A step writes these values for run r and nothing for another.
Wrote(r, s, t, w, e, n, l) ==
    /\ status' = [status EXCEPT ![r] = s] /\ thread' = [thread EXCEPT ![r] = t]
    /\ rows' = [rows EXCEPT ![r] = w] /\ exec' = [exec EXCEPT ![r] = e]
    /\ ran' = [ran EXCEPT ![r] = n] /\ told' = [told EXCEPT ![r] = l]

ValuesTyped(s, t, w, e, n, l) ==
    /\ s \in Status /\ t \in ThreadType /\ w \in Seq(ApprovalType) /\ e \in TaskType
    /\ n \in Seq(CallType) /\ l \in Seq(Terminal)

\* What a step leaves of the other runs.
LEMMA OthersKept ==
    ASSUME Typed, NEW r \in RunIds, NEW s, NEW t, NEW w, NEW e, NEW n, NEW l,
           Wrote(r, s, t, w, e, n, l), ValuesTyped(s, t, w, e, n, l)
    PROVE  /\ status' \in [RunIds -> Status] /\ thread' \in [RunIds -> ThreadType]
           /\ rows' \in [RunIds -> Seq(ApprovalType)] /\ exec' \in [RunIds -> TaskType]
           /\ ran' \in [RunIds -> Seq(CallType)] /\ told' \in [RunIds -> Seq(Terminal)]
           /\ status'[r] = s /\ thread'[r] = t /\ rows'[r] = w /\ exec'[r] = e
           /\ ran'[r] = n /\ told'[r] = l
           /\ \A q \in RunIds \ {r} :
                 /\ status'[q] = status[q] /\ thread'[q] = thread[q] /\ rows'[q] = rows[q]
                 /\ exec'[q] = exec[q] /\ ran'[q] = ran[q] /\ told'[q] = told[q]
  BY DEF Typed, Wrote, ValuesTyped

\* What a step leaves of the answers in progress for other runs, and of the scan.
OthersLinked(r) ==
    /\ rest' \in [Clients -> RestType]
    /\ scan' \in ScanType
    /\ scan'.pc # "idle" => scan'.at \in RunIds
    /\ \A c \in Clients :
          \/ rest'[c] = rest[c] \/ ~Resumes(rest'[c])
          \/ rest'[c].run = r
    /\ phase # "up" => \A c \in Clients : rest'[c] = Idle

\* What the answers for run r know after it.
Linked(r, s, t, w, k, n) ==
    \A c \in Clients : Resumes(rest'[c]) /\ rest'[c].run = r =>
        /\ LinkKnown(r, t, w, k, rest'[c])
        /\ Undisturbed' => LinkExact(s, t, w, k, n, rest'[c])

\* The invariant after a step of run r, from what the run and the answers that would
\* resume it know then.
LEMMA RunStepKeeps ==
    ASSUME Inv, NEW r \in RunIds, NEW s, NEW t, NEW w, NEW e, NEW k, NEW n, NEW l,
           Wrote(r, s, t, w, e, n, l), ValuesTyped(s, t, w, e, n, l),
           token' = [token EXCEPT ![r] = k], k \in {"none", "live", "cancelled"},
           BudgetStep, UNCHANGED phase,
           RunKnown(r, phase, s, t, w, e, k, n, l),
           Undisturbed' => DriveKnown(phase, s, t, w, e, n),
           OthersLinked(r), Linked(r, s, t, w, k, n)
    PROVE  Inv'
<1>1. Typed
  BY DEF Inv
<1>2. /\ status' \in [RunIds -> Status] /\ thread' \in [RunIds -> ThreadType]
      /\ rows' \in [RunIds -> Seq(ApprovalType)] /\ exec' \in [RunIds -> TaskType]
      /\ ran' \in [RunIds -> Seq(CallType)] /\ told' \in [RunIds -> Seq(Terminal)]
      /\ status'[r] = s /\ thread'[r] = t /\ rows'[r] = w /\ exec'[r] = e
      /\ ran'[r] = n /\ told'[r] = l
      /\ \A q \in RunIds \ {r} :
            /\ status'[q] = status[q] /\ thread'[q] = thread[q] /\ rows'[q] = rows[q]
            /\ exec'[q] = exec[q] /\ ran'[q] = ran[q] /\ told'[q] = told[q]
  BY <1>1, OthersKept
<1>3. /\ token' \in [RunIds -> {"none", "live", "cancelled"}] /\ token'[r] = k
      /\ \A q \in RunIds \ {r} : token'[q] = token[q]
  BY <1>1 DEF Typed
<1>4. Typed'
  BY <1>1, <1>2, <1>3 DEF Typed, BudgetStep, OthersLinked
<1>5. \A q \in RunIds : RunOK(q)'
  <2>1. RunOK(r)'
    BY <1>2, <1>3 DEF RunOK
  <2>2. ASSUME NEW q \in RunIds \ {r} PROVE RunOK(q)'
    <3>1. RunOK(q)
      BY DEF Inv
    <3>. QED  BY <1>2, <1>3, <2>2, <3>1 DEF RunOK, BudgetStep
  <2>. QED  BY <2>1, <2>2
<1>6. \A c \in Clients, q \in RunIds : LinkOK(c, q)'
  <2>1. ASSUME NEW c \in Clients PROVE LinkOK(c, r)'
    BY <1>2, <1>3, <2>1 DEF LinkOK, Linked
  <2>2. ASSUME NEW c \in Clients, NEW q \in RunIds \ {r}, Resumes(rest'[c]), rest'[c].run = q
        PROVE  /\ LinkKnown(q, thread'[q], rows'[q], token'[q], rest'[c])
               /\ Undisturbed' =>
                     LinkExact(status'[q], thread'[q], rows'[q], token'[q], ran'[q], rest'[c])
    <3>1. rest'[c] = rest[c]
      BY <2>2 DEF OthersLinked
    <3>2. LinkOK(c, q)
      BY DEF Inv
    <3>3. /\ LinkKnown(q, thread[q], rows[q], token[q], rest[c])
          /\ Undisturbed => LinkExact(status[q], thread[q], rows[q], token[q], ran[q], rest[c])
      BY <2>2, <3>1, <3>2 DEF LinkOK
    <3>. QED  BY <1>2, <1>3, <2>2, <3>1, <3>3 DEF BudgetStep
  <2>. QED  BY <2>1, <2>2 DEF LinkOK
<1>. QED  BY <1>4, <1>5, <1>6 DEF Inv, OthersLinked

\* Types of the variables that no task step writes.
LEMMA OtherTypes ==
    ASSUME Inv
    PROVE  /\ Typed /\ rest \in [Clients -> RestType]
           /\ scan \in ScanType
           /\ scan.pc # "idle" => scan.at \in RunIds
           /\ token \in [RunIds -> {"none", "live", "cancelled"}]
           /\ phase # "up" => \A c \in Clients : rest[c] = Idle
  BY DEF Inv, Typed

\* A task has a token, and the daemon is up.
LEMMA Driven ==
    ASSUME Inv, NEW r \in RunIds, exec[r].pc # "idle"
    PROVE  /\ phase = "up" /\ token[r] # "none" /\ status[r] # "none"
           /\ token[r] \in {"none", "live", "cancelled"}
  BY RunFacts DEF TaskKnown

\* Approvals are added and settled, and a plan once approved stays so.
Grown(v, w) ==
    /\ DOMAIN v \subseteq DOMAIN w
    /\ PlanApproved(v) => PlanApproved(w)

\* A step of the task of run r: the token protects it from every answer in progress.
LEMMA TaskStepKeeps ==
    ASSUME Inv, NEW r \in RunIds, exec[r].pc # "idle",
           NEW s, NEW t, NEW w, NEW e, NEW n, NEW l,
           Wrote(r, s, t, w, e, n, l), ValuesTyped(s, t, w, e, n, l),
           BudgetStep, Quiet, Grown(rows[r], w),
           rows[r] # <<>> /\ r \in PlanRuns /\ ~PlanApproved(w) => t.turn = thread[r].turn,
           RunKnown(r, phase, s, t, w, e, token[r], n, l),
           Undisturbed' => DriveKnown(phase, s, t, w, e, n)
    PROVE  Inv'
<1>1. /\ phase = "up" /\ token[r] # "none" /\ token[r] \in {"none", "live", "cancelled"}
  BY Driven
<1>2. /\ Typed /\ rest \in [Clients -> RestType]
      /\ scan \in ScanType
      /\ scan.pc # "idle" => scan.at \in RunIds
      /\ token \in [RunIds -> {"none", "live", "cancelled"}]
  BY OtherTypes
<1>3. /\ token' = [token EXCEPT ![r] = token[r]]
      /\ UNCHANGED phase /\ rest' = rest /\ scan' = scan
  BY <1>2 DEF Quiet
<1>4. ASSUME NEW c \in Clients, Resumes(rest[c]), rest[c].run = r
      PROVE  /\ LinkKnown(r, t, w, token[r], rest[c])
             /\ LinkExact(s, t, w, token[r], n, rest[c])
  <2>1. LinkKnown(r, thread[r], rows[r], token[r], rest[c])
    BY <1>4 DEF Inv, LinkOK
  <2>2. rest[c].row \in DOMAIN rows[r] /\ rest[c].row \in DOMAIN w /\ rows[r] # <<>>
    BY <2>1 DEF LinkKnown, Grown
  <2>3. r \in PlanRuns /\ ~PlanApproved(w) /\ rest[c].pc = "read" => rest[c].snap.turn = t.turn
    BY <2>1, <2>2 DEF LinkKnown, Grown
  <2>. QED  BY <1>1, <2>2, <2>3 DEF LinkKnown, LinkExact
<1>5. Linked(r, s, t, w, token[r], n)
  BY <1>3, <1>4 DEF Linked
<1>6. OthersLinked(r)
  BY <1>1, <1>2, <1>3 DEF OthersLinked
<1>. QED  BY <1>1, <1>3, <1>5, <1>6, RunStepKeeps

\* A step that moves the task and writes at most the status and the terminal events.
LEMMA MoveKeeps ==
    ASSUME Inv, NEW r \in RunIds, exec[r].pc # "idle", NEW s, NEW e, NEW l,
           status' = [status EXCEPT ![r] = s], s \in Status,
           exec' = [exec EXCEPT ![r] = e], e \in TaskType,
           told' = [told EXCEPT ![r] = l], l \in Seq(Terminal),
           BudgetStep, Quiet, UNCHANGED <<thread, rows, ran>>,
           RunKnown(r, phase, s, thread[r], rows[r], e, token[r], ran[r], l),
           Undisturbed' => DriveKnown(phase, s, thread[r], rows[r], e, ran[r])
    PROVE  Inv'
<1>1. Wrote(r, s, thread[r], rows[r], e, ran[r], l)
  BY DEF Inv, Typed, Wrote
<1>2. ValuesTyped(s, thread[r], rows[r], e, ran[r], l)
  BY DEF Inv, Typed, ValuesTyped
<1>3. Grown(rows[r], rows[r])
  BY DEF Grown
<1>. QED  BY <1>1, <1>2, <1>3, TaskStepKeeps

\* The same when the status and the events stay too.
LEMMA PlaceKeeps ==
    ASSUME Inv, NEW r \in RunIds, exec[r].pc # "idle", NEW e,
           exec' = [exec EXCEPT ![r] = e], e \in TaskType,
           BudgetStep, Quiet, UNCHANGED <<tables, ran, told>>,
           TaskKnown(phase, status[r], thread[r], rows[r], e, token[r], ran[r], told[r]),
           PendingKnown(rows[r], e),
           r \in PlanRuns /\ ~PlanApproved(rows[r]) =>
                 PlanKnown(thread[r], rows[r], e, ran[r]),
           Undisturbed' => DriveKnown(phase, status[r], thread[r], rows[r], e, ran[r])
    PROVE  Inv'
<1>1. /\ status[r] \in Status /\ told[r] \in Seq(Terminal) /\ EndKnown(status[r], told[r])
      /\ status' = [status EXCEPT ![r] = status[r]] /\ told' = [told EXCEPT ![r] = told[r]]
      /\ UNCHANGED <<thread, rows, ran>>
  BY DEF Inv, Typed, RunOK, RunKnown, tables
<1>2. RunKnown(r, phase, status[r], thread[r], rows[r], e, token[r], ran[r], told[r])
  BY <1>1 DEF RunKnown
<1>. QED  BY <1>1, <1>2, MoveKeeps

\* What the end of a task needs to know: a terminal status that is legal, and no
\* approval that waits.
LEMMA AtFinish ==
    ASSUME Inv, NEW r \in RunIds, exec[r].pc # "idle",
           exec[r].pc = "wait" => ~IsPending(rows[r], exec[r].row),
           NEW to \in Terminal, NEW e, e = Finished(exec[r], to)
    PROVE  /\ e \in TaskType
           /\ TaskKnown(phase, status[r], thread[r], rows[r], e, token[r], ran[r], told[r])
           /\ PendingKnown(rows[r], e)
           /\ r \in PlanRuns /\ ~PlanApproved(rows[r]) =>
                 PlanKnown(thread[r], rows[r], e, ran[r])
           /\ Undisturbed /\ (Legal(status[r], to) \/ status[r] \in Terminal) =>
                 DriveKnown(phase, status[r], thread[r], rows[r], e, ran[r])
<1>. DEFINE x == exec[r]
<1>1. x \in TaskType /\ phase = "up" /\ token[r] # "none"
  BY RunFacts, Driven
<1>2. e \in TaskType /\ e.pc = "finish" /\ e.to = to /\ SameTask(e, x)
  BY <1>1, FinishFacts
<1>3. TaskKnown(phase, status[r], thread[r], rows[r], x, token[r], ran[r], told[r])
      /\ PendingKnown(rows[r], x)
  BY RunFacts
<1>. HIDE DEF x
<1>4. TaskKnown(phase, status[r], thread[r], rows[r], e, token[r], ran[r], told[r])
  BY <1>1, <1>2, <1>3 DEF TaskKnown, SameTask, OnCall
<1>5. PendingKnown(rows[r], e)
  BY <1>2, <1>3 DEF PendingKnown, x
<1>6. ASSUME r \in PlanRuns, ~PlanApproved(rows[r]) PROVE PlanKnown(thread[r], rows[r], e, ran[r])
  BY <1>2, <1>6, RunFacts DEF PlanKnown
<1>7. ASSUME Undisturbed, Legal(status[r], to) \/ status[r] \in Terminal
      PROVE  DriveKnown(phase, status[r], thread[r], rows[r], e, ran[r])
  BY <1>2, <1>7, RunFacts DEF DriveKnown, StatusKnown
<1>. QED  BY <1>2, <1>4, <1>5, <1>6, <1>7

\* A task that gives up, whatever else it was about.
LEMMA FinishKeeps ==
    ASSUME Inv, NEW r \in RunIds, exec[r].pc # "idle",
           exec[r].pc = "wait" => ~IsPending(rows[r], exec[r].row),
           NEW to \in Terminal, Finish(r, to),
           BudgetStep, Quiet, UNCHANGED <<tables, ran, told>>,
           Undisturbed' => Legal(status[r], to) \/ status[r] \in Terminal
    PROVE  Inv'
<1>. DEFINE e == Finished(exec[r], to)
<1>1. exec' = [exec EXCEPT ![r] = e]
  BY DEF Finish, Go, Finished
<1>2. Undisturbed' => Undisturbed
  BY DEF BudgetStep
<1>. HIDE DEF e
<1>3. /\ e \in TaskType
      /\ TaskKnown(phase, status[r], thread[r], rows[r], e, token[r], ran[r], told[r])
      /\ PendingKnown(rows[r], e)
      /\ r \in PlanRuns /\ ~PlanApproved(rows[r]) =>
            PlanKnown(thread[r], rows[r], e, ran[r])
      /\ Undisturbed /\ (Legal(status[r], to) \/ status[r] \in Terminal) =>
            DriveKnown(phase, status[r], thread[r], rows[r], e, ran[r])
  BY AtFinish DEF e
<1>. QED  BY <1>1, <1>2, <1>3, PlaceKeeps

\* A status change whose failure is only logged.
LEMMA MoveFacts ==
    ASSUME Inv, NEW r \in RunIds, status[r] # "none",
           NEW to \in {"running", "awaiting"}, Move(r, to)
    PROVE  /\ BudgetStep
           /\ \E s \in Status :
                 /\ status' = [status EXCEPT ![r] = s] /\ status'[r] = s
                 /\ s # "none" /\ EndKnown(s, told[r])
                 /\ s = status[r] \/ (s = to /\ Legal(status[r], to))
                 /\ Undisturbed' /\ Legal(status[r], to) => s = to
<1>1. /\ status \in [RunIds -> Status] /\ EndKnown(status[r], told[r]) /\ Typed
  BY RunFacts DEF Inv, Typed
<1>2. CASE NoFault /\ status' = [status EXCEPT ![r] = IF Legal(@, to) THEN to ELSE @]
  <2>. DEFINE s == IF Legal(status[r], to) THEN to ELSE status[r]
  <2>1. s \in Status /\ status' = [status EXCEPT ![r] = s] /\ status'[r] = s
    BY <1>1, <1>2 DEF Status
  <2>2. s # "none" /\ EndKnown(s, told[r])
    BY <1>1 DEF EndKnown, Legal, Terminal
  <2>. QED  BY <1>1, <1>2, <2>1, <2>2, BudgetKept
<1>3. CASE Fault /\ UNCHANGED status
  <2>1. status' = [status EXCEPT ![r] = status[r]] /\ status'[r] = status[r]
    BY <1>1, <1>3
  <2>. QED  BY <1>1, <1>3, <2>1, BudgetKept
<1>. QED  BY <1>2, <1>3 DEF Move

\* What a status change leaves of a task's knowledge.
LEMMA TaskMoved ==
    ASSUME NEW p, NEW s, NEW s1, NEW t, NEW w, NEW e, NEW k, NEW n, NEW l,
           TaskKnown(p, s, t, w, e, k, n, l), s # "none", s1 # "none"
    PROVE  TaskKnown(p, s1, t, w, e, k, n, l)
  BY DEF TaskKnown

-----------------------------------------------------------------------------
(* start_run and execute.                                                  *)

LEMMA StartKeeps == ASSUME Inv, NEW r \in RunIds, Start(r) PROVE Inv'
<1>. DEFINE x == [NoExec EXCEPT !.plan = r \in PlanRuns]
            e == [x EXCEPT !.pc = "boot"]
<1>1. x \in TaskType /\ x.pc = "idle" /\ ~x.parked /\ ~x.resumed /\ ~x.asked /\ x.row = 0
      /\ (r \in PlanRuns => x.plan)
  <2>1. CASE r \in PlanRuns
    <3>1. x = [NoExec EXCEPT !.plan = TRUE]
      BY <2>1
    <3>. QED  BY <3>1, NoExecFacts DEF TaskType
  <2>2. CASE r \notin PlanRuns
    <3>0. (r \in PlanRuns) = FALSE
      BY <2>2
    <3>1. x = [NoExec EXCEPT !.plan = FALSE]
      BY <3>0, Zenon
    <3>. QED  BY <2>2, <3>1, NoExecFacts DEF TaskType
  <2>. QED  BY <2>1, <2>2
<1>2. "boot" \in Pcs /\ exec' = [exec EXCEPT ![r] = e]
  BY DEF Pcs, Start, Go
<1>. HIDE DEF x
<1>3. e \in TaskType /\ e.pc = "boot" /\ SameTask(e, x)
  BY <1>1, <1>2, GoFacts
<1>4. /\ (r \in PlanRuns => e.plan) /\ ~e.parked /\ ~e.resumed /\ ~e.asked /\ e.row = 0
  BY <1>1, <1>3 DEF SameTask
<1>. HIDE DEF e
<1>5. /\ status[r] = "none" /\ phase = "up" /\ rows[r] = <<>> /\ ran[r] = <<>> /\ told[r] = <<>>
      /\ thread[r].done \subseteq DOMAIN thread[r].turn /\ "queued" \in Status
  BY RunFacts DEF Start, TaskKnown, Status
<1>6. /\ Wrote(r, "queued", thread[r], <<>>, e, <<>>, <<>>)
      /\ ValuesTyped("queued", thread[r], <<>>, e, <<>>, <<>>)
      /\ token' = [token EXCEPT ![r] = "live"] /\ BudgetStep /\ UNCHANGED phase
  BY <1>2, <1>3, <1>5
     DEF Start, Inv, Typed, Wrote, ValuesTyped, budget, BudgetStep, Undisturbed
<1>7. RunKnown(r, phase, "queued", thread[r], <<>>, e, "live", <<>>, <<>>)
  <2>1. TaskKnown(phase, "queued", thread[r], <<>>, e, "live", <<>>, <<>>)
    BY <1>3, <1>4, <1>5 DEF TaskKnown, OnCall
  <2>2. PendingKnown(<<>>, e) /\ EndKnown("queued", <<>>)
    BY DEF PendingKnown, EndKnown
  <2>3. r \in PlanRuns => PlanKnown(thread[r], <<>>, e, <<>>)
    BY <1>3, <1>4 DEF PlanKnown, Planning
  <2>. QED  BY <2>1, <2>2, <2>3 DEF RunKnown
<1>8. DriveKnown(phase, "queued", thread[r], <<>>, e, <<>>)
  BY <1>3 DEF DriveKnown, StatusKnown, RanOnce, RanAllowed
<1>9. ASSUME NEW c \in Clients, Resumes(rest[c]) PROVE rest[c].run # r
  <2>1. SUFFICES ASSUME rest[c].run = r PROVE FALSE
    OBVIOUS
  <2>2. rest[c].row \in DOMAIN rows[r]
    BY <1>9, <2>1 DEF Inv, LinkOK, LinkKnown
  <2>. QED  BY <1>5, <2>2
<1>10. OthersLinked(r) /\ Linked(r, "queued", thread[r], <<>>, "live", <<>>)
  BY <1>5, <1>9, OtherTypes DEF Start, OthersLinked, Linked
<1>. QED  BY <1>6, <1>7, <1>8, <1>10, RunStepKeeps

LEMMA BootKeeps == ASSUME Inv, NEW r \in RunIds, Boot(r) PROVE Inv'
<1>1. /\ exec[r].pc = "boot" /\ exec[r] \in TaskType /\ phase = "up" /\ token[r] # "none"
      /\ status[r] # "none" /\ Typed /\ Quiet /\ UNCHANGED <<thread, rows, ran, told>>
      /\ told \in [RunIds -> Seq(Terminal)]
  BY RunFacts, Driven DEF Boot, At, Inv, Typed
<1>2. /\ Undisturbed => status[r] = "queued" \/ status[r] \in Terminal
      /\ Undisturbed => DriveKnown(phase, status[r], thread[r], rows[r], exec[r], ran[r])
  BY <1>1, RunFacts DEF DriveKnown, StatusKnown
<1>3. CASE Finish(r, "cancelled") /\ NoFault /\ UNCHANGED status
  <2>1. BudgetStep /\ (Undisturbed' => Undisturbed)
    BY <1>1, <1>3, BudgetKept DEF BudgetStep
  <2>2. Undisturbed' => Legal(status[r], "cancelled") \/ status[r] \in Terminal
    BY <1>2, <2>1 DEF Legal
  <2>3. UNCHANGED <<tables, ran, told>> /\ "cancelled" \in Terminal
    BY <1>1, <1>3 DEF tables, Terminal
  <2>. QED  BY <1>1, <1>3, <2>1, <2>2, <2>3, FinishKeeps
<1>4. ASSUME NEW s \in Status, NEW l \in {"prepare", "end"}, BudgetStep,
             status' = [status EXCEPT ![r] = s], Go(r, exec[r], l),
             s # "none", EndKnown(s, told[r]),
             Undisturbed' => (l = "prepare" /\ s = "running") \/ s \in Terminal
      PROVE  Inv'
  <2>. DEFINE e == [exec[r] EXCEPT !.pc = l]
  <2>1. exec' = [exec EXCEPT ![r] = e] /\ l \in Pcs
    BY <1>4 DEF Go, Pcs
  <2>2. e \in TaskType /\ e.pc = l /\ SameTask(e, exec[r])
    BY <1>1, <2>1, GoFacts
  <2>. HIDE DEF e
  <2>3. TaskKnown(phase, status[r], thread[r], rows[r], e, token[r], ran[r], told[r])
    BY <1>1, <2>2, RunFacts DEF TaskKnown, SameTask, OnCall
  <2>4. TaskKnown(phase, s, thread[r], rows[r], e, token[r], ran[r], told[r])
    BY <1>1, <1>4, <2>3, TaskMoved
  <2>5. PendingKnown(rows[r], e)
    BY <1>1, <2>2, RunFacts DEF PendingKnown
  <2>6. ASSUME r \in PlanRuns, ~PlanApproved(rows[r])
        PROVE  PlanKnown(thread[r], rows[r], e, ran[r])
    BY <1>1, <2>2, <2>6, RunFacts DEF PlanKnown, Planning, SameTask
  <2>7. ASSUME Undisturbed' PROVE DriveKnown(phase, s, thread[r], rows[r], e, ran[r])
    BY <1>1, <1>2, <1>4, <2>2, <2>7 DEF DriveKnown, StatusKnown, BudgetStep, Terminal
  <2>8. RunKnown(r, phase, s, thread[r], rows[r], e, token[r], ran[r], told[r])
    BY <1>4, <2>4, <2>5, <2>6 DEF RunKnown
  <2>9. told' = [told EXCEPT ![r] = told[r]] /\ told[r] \in Seq(Terminal)
        /\ UNCHANGED <<thread, rows, ran>>
    BY <1>1
  <2>. QED  BY <1>1, <1>4, <2>1, <2>2, <2>7, <2>8, <2>9, MoveKeeps
<1>5. CASE Legal(status[r], "running") /\ Move(r, "running")
           /\ Go(r, exec[r], IF status'[r] = "running" THEN "prepare" ELSE "end")
  <2>1. /\ BudgetStep
        /\ \E s \in Status :
              /\ status' = [status EXCEPT ![r] = s] /\ status'[r] = s
              /\ s # "none" /\ EndKnown(s, told[r])
              /\ (Undisturbed' /\ Legal(status[r], "running") => s = "running")
    BY <1>1, <1>5, MoveFacts
  <2>. QED  BY <1>4, <1>5, <2>1
<1>6. CASE ~Legal(status[r], "running") /\ Go(r, exec[r], "end")
           /\ NoFault /\ UNCHANGED status
  <2>1. BudgetStep /\ status' = [status EXCEPT ![r] = status[r]] /\ EndKnown(status[r], told[r])
        /\ status[r] \in Status /\ (Undisturbed' => Undisturbed)
    BY <1>1, <1>6, BudgetKept, RunFacts DEF Typed, BudgetStep
  <2>2. Undisturbed' => status[r] \in Terminal
    BY <1>2, <1>6, <2>1 DEF Legal
  <2>. QED  BY <1>1, <1>4, <1>6, <2>1, <2>2
<1>. QED  BY <1>3, <1>5, <1>6 DEF Boot

\* The task is in its run proper, or the run has ended.
LEMMA IsRunning ==
    ASSUME Inv, NEW r \in RunIds, Undisturbed,
           exec[r].pc \in {"prepare", "model", "remember", "calls", "answer", "reject"}
    PROVE  status[r] = "running" \/ status[r] \in Terminal
  BY RunFacts DEF DriveKnown, StatusKnown

LEMMA PrepareKeeps == ASSUME Inv, NEW r \in RunIds, Prepare(r) PROVE Inv'
<1>1. /\ exec[r].pc = "prepare" /\ exec[r] \in TaskType /\ phase = "up" /\ Typed
      /\ Quiet /\ UNCHANGED <<tables, ran, told>>
  BY RunFacts, Driven DEF Prepare, At, Inv
<1>2. \A to \in Terminal : Undisturbed => Legal(status[r], to) \/ status[r] \in Terminal
  BY <1>1, IsRunning DEF Legal
<1>3. ASSUME NEW to \in Terminal, Finish(r, to), NoFault \/ Fault PROVE Inv'
  <2>1. BudgetStep /\ (Undisturbed' => Undisturbed)
    BY <1>1, <1>3, BudgetKept DEF BudgetStep
  <2>. QED  BY <1>1, <1>2, <1>3, <2>1, FinishKeeps
<1>4. CASE Go(r, exec[r], "model") /\ NoFault
  <2>. DEFINE e == [exec[r] EXCEPT !.pc = "model"]
  <2>1. exec' = [exec EXCEPT ![r] = e] /\ "model" \in Pcs /\ BudgetStep
    BY <1>1, <1>4, BudgetKept DEF Go, Pcs
  <2>2. e \in TaskType /\ e.pc = "model" /\ SameTask(e, exec[r])
    BY <1>1, <2>1, GoFacts
  <2>. HIDE DEF e
  <2>3. TaskKnown(phase, status[r], thread[r], rows[r], e, token[r], ran[r], told[r])
    BY <1>1, <2>2, RunFacts DEF TaskKnown, SameTask, OnCall
  <2>4. PendingKnown(rows[r], e)
    BY <1>1, <2>2, RunFacts DEF PendingKnown
  <2>5. ASSUME r \in PlanRuns, ~PlanApproved(rows[r])
        PROVE  PlanKnown(thread[r], rows[r], e, ran[r])
    BY <1>1, <2>2, <2>5, RunFacts DEF PlanKnown, Planning, SameTask
  <2>6. ASSUME Undisturbed' PROVE DriveKnown(phase, status[r], thread[r], rows[r], e, ran[r])
    BY <1>1, <2>1, <2>2, <2>6, RunFacts DEF DriveKnown, StatusKnown, BudgetStep
  <2>. QED  BY <1>1, <2>1, <2>2, <2>3, <2>4, <2>5, <2>6, PlaceKeeps
<1>. QED  BY <1>3, <1>4 DEF Prepare, Terminal

LEMMA ModelStopsKeeps == ASSUME Inv, NEW r \in RunIds, ModelStops(r) \/ Remember(r) PROVE Inv'
<1>1. /\ exec[r].pc \in {"model", "remember"} /\ Typed
      /\ Quiet /\ UNCHANGED <<tables, ran, told, budget>>
  BY DEF ModelStops, Remember, At, Inv
<1>2. PICK to \in Terminal : Finish(r, to)
  BY DEF ModelStops, Remember, Terminal
<1>3. BudgetStep /\ (Undisturbed' => Undisturbed)
  BY <1>1, BudgetKept DEF BudgetStep, NoFault
<1>4. Undisturbed' => Legal(status[r], to) \/ status[r] \in Terminal
  BY <1>1, <1>3, IsRunning DEF Legal
<1>. QED  BY <1>1, <1>2, <1>3, <1>4, FinishKeeps

LEMMA FinalAnswerKeeps == ASSUME Inv, NEW r \in RunIds, FinalAnswer(r) PROVE Inv'
<1>. DEFINE e == [exec[r] EXCEPT !.pc = "remember"]
<1>1. /\ exec[r].pc = "model" /\ exec[r] \in TaskType /\ phase = "up" /\ Typed
      /\ Quiet /\ UNCHANGED <<tables, ran, told>>
  BY RunFacts, Driven DEF FinalAnswer, At, Inv
<1>2. exec' = [exec EXCEPT ![r] = e] /\ "remember" \in Pcs /\ BudgetStep
  BY <1>1, BudgetKept DEF FinalAnswer, Go, Pcs, NoFault
<1>3. e \in TaskType /\ e.pc = "remember" /\ SameTask(e, exec[r])
  BY <1>1, <1>2, GoFacts
<1>. HIDE DEF e
<1>4. TaskKnown(phase, status[r], thread[r], rows[r], e, token[r], ran[r], told[r])
  BY <1>1, <1>3, RunFacts DEF TaskKnown, SameTask, OnCall
<1>5. PendingKnown(rows[r], e)
  BY <1>1, <1>3, RunFacts DEF PendingKnown
<1>6. ASSUME r \in PlanRuns, ~PlanApproved(rows[r])
      PROVE  PlanKnown(thread[r], rows[r], e, ran[r])
  BY <1>1, <1>3, <1>6, RunFacts DEF PlanKnown, Planning, SameTask
<1>7. ASSUME Undisturbed' PROVE DriveKnown(phase, status[r], thread[r], rows[r], e, ran[r])
  BY <1>1, <1>2, <1>3, <1>7, RunFacts DEF DriveKnown, StatusKnown, BudgetStep
<1>. QED  BY <1>1, <1>2, <1>3, <1>4, <1>5, <1>6, <1>7, PlaceKeeps

LEMMA ToolTurnKeeps == ASSUME Inv, NEW r \in RunIds, ToolTurn(r) PROVE Inv'
<1>1. /\ exec[r].pc = "model" /\ exec[r] \in TaskType /\ phase = "up" /\ Typed
      /\ Quiet /\ UNCHANGED <<status, rows, ran, told>> /\ thread[r] \in ThreadType
  BY RunFacts, Driven DEF ToolTurn, At, Inv
<1>2. CASE Finish(r, "failed") /\ Fault /\ UNCHANGED thread
  <2>1. BudgetStep /\ ~Undisturbed' /\ UNCHANGED <<tables, ran, told>> /\ "failed" \in Terminal
    BY <1>1, <1>2, BudgetKept DEF tables, Terminal
  <2>. QED  BY <1>1, <1>2, <2>1, FinishKeeps
<1>3. ASSUME NEW u \in Turns[r], NEW d \in BOOLEAN, NoFault,
             thread' = [thread EXCEPT ![r] =
                 [n |-> @.n + 1, turn |-> u, distinct |-> d \/ Len(u) < 2, done |-> {}]],
             Go(r, [exec[r] EXCEPT !.iter = @ + 1, !.i = 1], "calls")
      PROVE  Inv'
  <2>. DEFINE t == [n |-> thread[r].n + 1, turn |-> u, distinct |-> d \/ Len(u) < 2,
                    done |-> {}]
              x == [exec[r] EXCEPT !.iter = @ + 1, !.i = 1]
              e == [x EXCEPT !.pc = "calls"]
  <2>1. u \in Seq(Kind)
    BY RunsAssumption
  <2>2. t \in ThreadType /\ t.n = thread[r].n + 1 /\ t.turn = u /\ t.done = {}
    <3>1. (d \/ Len(u) < 2) \in BOOLEAN /\ thread[r].n + 1 \in Nat
      BY <1>1 DEF ThreadType
    <3>. QED  BY <2>1, <3>1 DEF ThreadType
  <2>3. thread' = [thread EXCEPT ![r] = t]
    BY <1>1, <1>3 DEF Typed
  <2>4. x \in TaskType /\ x.pc = "model" /\ x.i = 1 /\ x.row = exec[r].row /\ x.plan = exec[r].plan
        /\ x.resumed = exec[r].resumed /\ x.parked = exec[r].parked /\ x.asked = exec[r].asked
    <3>. DEFINE y == [exec[r] EXCEPT !.iter = exec[r].iter + 1]
    <3>1. /\ y \in TaskType /\ y.pc = "model" /\ y.row = exec[r].row /\ y.plan = exec[r].plan
          /\ y.resumed = exec[r].resumed /\ y.parked = exec[r].parked /\ y.asked = exec[r].asked
      BY <1>1 DEF TaskType
    <3>2. x = [y EXCEPT !.i = 1]
      OBVIOUS
    <3>. HIDE DEF x, y
    <3>. QED  BY <3>1, <3>2 DEF TaskType
  <2>5. exec' = [exec EXCEPT ![r] = e] /\ "calls" \in Pcs /\ BudgetStep
    BY <1>1, <1>3, BudgetKept DEF Go, Pcs
  <2>. HIDE DEF x, t
  <2>6. e \in TaskType /\ e.pc = "calls" /\ SameTask(e, x)
    BY <2>4, <2>5, GoFacts
  <2>. HIDE DEF e
  <2>7. /\ e.i = 1 /\ e.row = exec[r].row /\ e.plan = exec[r].plan
        /\ e.resumed = exec[r].resumed /\ e.parked = exec[r].parked /\ e.asked = exec[r].asked
    BY <2>4, <2>6 DEF SameTask
  <2>8. TaskKnown(phase, status[r], t, rows[r], e, token[r], ran[r], told[r])
    BY <1>1, <2>2, <2>6, <2>7, RunFacts DEF TaskKnown, OnCall
  <2>9. PendingKnown(rows[r], e)
    BY <1>1, <2>6, RunFacts DEF PendingKnown
  <2>10. ~exec[r].parked
    BY <1>1, RunFacts DEF TaskKnown
  <2>11. ASSUME r \in PlanRuns, ~PlanApproved(rows[r])
         PROVE  PlanKnown(t, rows[r], e, ran[r]) /\ rows[r] = <<>>
    BY <1>1, <2>6, <2>7, <2>10, <2>11, RunFacts DEF PlanKnown, Planning
  <2>12. ASSUME Undisturbed' PROVE DriveKnown(phase, status[r], t, rows[r], e, ran[r])
    <3>1. DriveKnown(phase, status[r], thread[r], rows[r], exec[r], ran[r])
      BY <2>5, <2>12, RunFacts DEF BudgetStep
    <3>2. \A j \in DOMAIN ran[r] : ran[r][j].n < t.n
      <4>1. TAKE j \in DOMAIN ran[r]
      <4>2. ran[r] \in Seq(CallType)
        BY RunFacts
      <4>3. ran[r][j].n <= thread[r].n /\ ran[r][j].n \in Nat /\ thread[r].n \in Nat
        BY <1>1, <3>1, <4>2, CallFacts DEF DriveKnown, ThreadType
      <4>. QED  BY <2>2, <4>3
    <3>3. /\ UpTo(t, e.i, e.i, ran[r]) /\ \A j \in DOMAIN ran[r] : ran[r][j].n <= t.n
      <4>1. \A j \in DOMAIN ran[r] : ran[r][j].n \in Nat /\ t.n \in Nat
        BY <1>1, <2>2, RunFacts, CallFacts DEF ThreadType
      <4>. QED  BY <2>2, <2>7, <3>2, <4>1 DEF UpTo
    <3>4. StatusKnown(phase, status[r], e)
      BY <1>1, <2>6, <3>1 DEF DriveKnown, StatusKnown
    <3>. QED  BY <2>6, <2>7, <2>10, <3>1, <3>3, <3>4 DEF DriveKnown
  <2>13. RunKnown(r, phase, status[r], t, rows[r], e, token[r], ran[r], told[r])
    BY <2>8, <2>9, <2>11, RunFacts DEF RunKnown
  <2>14. /\ Wrote(r, status[r], t, rows[r], e, ran[r], told[r])
         /\ ValuesTyped(status[r], t, rows[r], e, ran[r], told[r])
    BY <1>1, <2>2, <2>3, <2>5, <2>6, RunFacts DEF Typed, Wrote, ValuesTyped
  <2>15. Grown(rows[r], rows[r])
    BY DEF Grown
  <2>. QED  BY <1>1, <2>5, <2>11, <2>12, <2>13, <2>14, <2>15, TaskStepKeeps
<1>. QED  BY <1>2, <1>3 DEF ToolTurn

LEMMA FinishStepKeeps == ASSUME Inv, NEW r \in RunIds, FinishStep(r) PROVE Inv'
<1>. DEFINE e == [exec[r] EXCEPT !.pc = "end"]
<1>1. /\ exec[r].pc = "finish" /\ exec[r] \in TaskType /\ phase = "up" /\ Typed
      /\ Quiet /\ UNCHANGED <<thread, rows, ran>> /\ status[r] # "none"
      /\ exec[r].to \in Terminal /\ EndKnown(status[r], told[r])
      /\ told[r] \in Seq(Terminal) /\ status[r] \in Status
  BY RunFacts, Driven DEF FinishStep, At, Inv, TaskKnown
<1>2. exec' = [exec EXCEPT ![r] = e] /\ "end" \in Pcs
  BY DEF FinishStep, Go, Pcs
<1>3. e \in TaskType /\ e.pc = "end" /\ SameTask(e, exec[r])
  BY <1>1, <1>2, GoFacts
<1>. HIDE DEF e
<1>4. ASSUME NEW s \in Status, NEW l \in Seq(Terminal), BudgetStep,
             status' = [status EXCEPT ![r] = s], told' = [told EXCEPT ![r] = l],
             s # "none", EndKnown(s, l), Undisturbed' => s \in Terminal
      PROVE  Inv'
  <2>1. TaskKnown(phase, s, thread[r], rows[r], e, token[r], ran[r], l)
    BY <1>1, <1>3, <1>4, RunFacts DEF TaskKnown, SameTask, OnCall
  <2>2. PendingKnown(rows[r], e)
    BY <1>1, <1>3, RunFacts DEF PendingKnown
  <2>3. ASSUME r \in PlanRuns, ~PlanApproved(rows[r])
        PROVE  PlanKnown(thread[r], rows[r], e, ran[r])
    BY <1>1, <1>3, <2>3, RunFacts DEF PlanKnown
  <2>4. ASSUME Undisturbed' PROVE DriveKnown(phase, s, thread[r], rows[r], e, ran[r])
    BY <1>1, <1>3, <1>4, <2>4, RunFacts DEF DriveKnown, StatusKnown, BudgetStep
  <2>5. RunKnown(r, phase, s, thread[r], rows[r], e, token[r], ran[r], l)
    BY <1>4, <2>1, <2>2, <2>3 DEF RunKnown
  <2>. QED  BY <1>1, <1>2, <1>3, <1>4, <2>4, <2>5, MoveKeeps
<1>5. CASE NoFault /\ Land(r, exec[r].to)
  <2>1. BudgetStep /\ (Undisturbed' => Undisturbed)
    BY <1>1, <1>5, BudgetKept DEF BudgetStep
  <2>2. CASE Legal(status[r], exec[r].to)
    <3>. DEFINE s == exec[r].to  l == Append(told[r], s)
    <3>1. status' = [status EXCEPT ![r] = s] /\ told' = [told EXCEPT ![r] = l]
      BY <1>1, <1>5, <2>2 DEF Land, Typed
    <3>2. s \in Status /\ s # "none" /\ l \in Seq(Terminal) /\ s \in Terminal
      BY <1>1 DEF Status, Terminal
    <3>3. status[r] \notin Terminal
      BY <2>2 DEF Legal, Terminal
    <3>4. EndKnown(s, l)
      <4>1. told[r] = <<>>
        BY <1>1, <3>3 DEF EndKnown
      <4>2. l = <<s>>
        BY <4>1
      <4>. QED  BY <3>2, <4>2 DEF EndKnown
    <3>. HIDE DEF s, l
    <3>. QED  BY <1>4, <2>1, <3>1, <3>2, <3>4
  <2>3. CASE ~Legal(status[r], exec[r].to)
    <3>1. /\ status' = [status EXCEPT ![r] = status[r]] /\ told' = [told EXCEPT ![r] = told[r]]
      BY <1>1, <1>5, <2>3 DEF Land, Typed
    <3>2. Undisturbed' => status[r] \in Terminal
      BY <1>1, <2>1, <2>3, RunFacts DEF DriveKnown, StatusKnown
    <3>. QED  BY <1>1, <1>4, <2>1, <3>1, <3>2
  <2>. QED  BY <2>2, <2>3
<1>6. CASE Fault /\ UNCHANGED <<status, told>>
  <2>1. BudgetStep /\ ~Undisturbed'
    BY <1>1, <1>6, BudgetKept
  <2>2. /\ status' = [status EXCEPT ![r] = status[r]] /\ told' = [told EXCEPT ![r] = told[r]]
    BY <1>1, <1>6 DEF Typed
  <2>. QED  BY <1>1, <1>4, <2>1, <2>2
<1>. QED  BY <1>5, <1>6 DEF FinishStep

LEMMA PanicKeeps == ASSUME Inv, NEW r \in RunIds, Panic(r) PROVE Inv'
<1>1. /\ exec[r].pc \in {"model", "tool", "remember"} /\ Typed /\ Finish(r, "failed")
      /\ Quiet /\ UNCHANGED <<tables, ran, told>> /\ "failed" \in Terminal
  BY DEF Panic, Inv, Terminal
<1>2. BudgetStep /\ ~Undisturbed'
  BY <1>1 DEF Panic, BudgetStep, Undisturbed, Typed
<1>. QED  BY <1>1, <1>2, FinishKeeps

LEMMA EndTaskKeeps == ASSUME Inv, NEW r \in RunIds, EndTask(r) PROVE Inv'
<1>1. /\ exec[r].pc = "end" /\ phase = "up" /\ Typed /\ UNCHANGED <<tables, rest, scan, phase>>
      /\ ValuesTyped(status[r], thread[r], rows[r], NoExec, ran[r], told[r])
  BY RunFacts, Driven, NoExecFacts DEF EndTask, At, Inv, ValuesTyped
<1>2. Wrote(r, status[r], thread[r], rows[r], NoExec, ran[r], told[r])
  BY <1>1 DEF EndTask, Wrote, Typed, tables
<1>3. token' = [token EXCEPT ![r] = "none"] /\ BudgetStep /\ (Undisturbed' => Undisturbed)
  BY <1>1, BudgetKept DEF EndTask, NoFault, BudgetStep
<1>4. \A j \in DOMAIN rows[r] : ~IsPending(rows[r], j)
  BY <1>1, RunFacts DEF PendingKnown
<1>5. Undisturbed => status[r] \in Terminal
  BY <1>1, RunFacts DEF DriveKnown, StatusKnown
<1>6. TaskKnown(phase, status[r], thread[r], rows[r], NoExec, "none", ran[r], told[r])
  <2>1. TaskKnown(phase, status[r], thread[r], rows[r], exec[r], token[r], ran[r], told[r])
        /\ rows[r] \in Seq(ApprovalType)
    BY RunFacts
  <2>2. 0 \in 0..Len(rows[r])
    BY <2>1
  <2>. QED  BY <1>1, <2>1, <2>2, NoExecFacts DEF TaskKnown, OnCall
<1>7. PendingKnown(rows[r], NoExec)
  BY <1>4 DEF PendingKnown
<1>8. ASSUME r \in PlanRuns, ~PlanApproved(rows[r])
      PROVE  PlanKnown(thread[r], rows[r], NoExec, ran[r])
  BY <1>8, RunFacts, NoExecFacts DEF PlanKnown
<1>9. RunKnown(r, phase, status[r], thread[r], rows[r], NoExec, "none", ran[r], told[r])
  BY <1>6, <1>7, <1>8, RunFacts DEF RunKnown
<1>10. ASSUME Undisturbed' PROVE DriveKnown(phase, status[r], thread[r], rows[r], NoExec, ran[r])
  BY <1>3, <1>5, <1>10, RunFacts, NoExecFacts DEF DriveKnown, StatusKnown, Terminal
<1>11. OthersLinked(r)
  BY <1>1, OtherTypes DEF OthersLinked
<1>12. Linked(r, status[r], thread[r], rows[r], "none", ran[r])
  <2>1. SUFFICES ASSUME NEW c \in Clients, Resumes(rest[c]), rest[c].run = r
        PROVE  /\ LinkKnown(r, thread[r], rows[r], "none", rest[c])
               /\ Undisturbed' =>
                     LinkExact(status[r], thread[r], rows[r], "none", ran[r], rest[c])
    BY <1>1 DEF Linked
  <2>2. LinkKnown(r, thread[r], rows[r], token[r], rest[c])
    BY <2>1 DEF Inv, LinkOK
  <2>. QED  BY <1>3, <1>4, <1>5, <2>2 DEF LinkKnown, LinkExact, Terminal
<1>. QED  BY <1>1, <1>2, <1>3, <1>9, <1>10, <1>11, <1>12, RunStepKeeps

-----------------------------------------------------------------------------
(* The calls of a turn.                                                    *)

LEMMA TurnDoneKeeps == ASSUME Inv, NEW r \in RunIds, TurnDone(r) PROVE Inv'
<1>. DEFINE x == IF exec[r].resumed THEN [NoExec EXCEPT !.pc = "model"] ELSE exec[r]
            e == [x EXCEPT !.pc = "model"]
<1>1. /\ exec[r].pc = "calls" /\ exec[r] \in TaskType /\ phase = "up" /\ Typed
      /\ Quiet /\ UNCHANGED <<tables, ran, told>> /\ ~(exec[r].i <= Len(thread[r].turn))
      /\ thread[r].turn \in Seq(Kind) /\ exec[r].i \in Nat /\ "model" \in Pcs
  BY RunFacts, Driven, TaskFacts DEF TurnDone, At, Inv, ThreadType, Pcs
<1>2. exec' = [exec EXCEPT ![r] = e] /\ BudgetStep
  BY <1>1, BudgetKept DEF TurnDone, Go, NoFault
<1>3. /\ x \in TaskType /\ ~x.parked /\ ~x.asked /\ x.row \in 0..Len(rows[r])
      /\ ~exec[r].resumed => x = exec[r]
  <2>1. CASE exec[r].resumed
    <3>1. x \in TaskType /\ SameTask(x, NoExec)
      BY <1>1, <2>1, NoExecFacts, GoFacts
    <3>2. 0 \in 0..Len(rows[r])
      BY RunFacts
    <3>. QED  BY <2>1, <3>1, <3>2, NoExecFacts DEF SameTask
  <2>2. CASE ~exec[r].resumed
    BY <1>1, <2>2, RunFacts DEF TaskKnown
  <2>. QED  BY <2>1, <2>2
<1>. HIDE DEF x
<1>4. e \in TaskType /\ e.pc = "model" /\ SameTask(e, x)
  BY <1>1, <1>3, GoFacts
<1>. HIDE DEF e
<1>5. TaskKnown(phase, status[r], thread[r], rows[r], e, token[r], ran[r], told[r])
  BY <1>1, <1>3, <1>4, RunFacts DEF TaskKnown, SameTask, OnCall
<1>6. PendingKnown(rows[r], e)
  BY <1>1, <1>4, RunFacts DEF PendingKnown
<1>7. ASSUME r \in PlanRuns, ~PlanApproved(rows[r])
      PROVE  PlanKnown(thread[r], rows[r], e, ran[r])
  <2>1. PlanKnown(thread[r], rows[r], exec[r], ran[r])
    BY <1>7, RunFacts
  <2>2. exec[r].i \notin DOMAIN thread[r].turn
    BY <1>1
  <2>3. Planning(rows[r], exec[r])
    BY <1>1, <2>1, <2>2 DEF PlanKnown
  <2>. QED  BY <1>1, <1>3, <1>4, <2>1, <2>3 DEF PlanKnown, Planning, SameTask
<1>8. ASSUME Undisturbed' PROVE DriveKnown(phase, status[r], thread[r], rows[r], e, ran[r])
  BY <1>1, <1>2, <1>4, <1>8, RunFacts DEF DriveKnown, StatusKnown, BudgetStep
<1>. QED  BY <1>1, <1>2, <1>4, <1>5, <1>6, <1>7, <1>8, PlaceKeeps

\* A cancelled token ends the turn, and so does one while a tool runs.
LEMMA CancelledKeeps ==
    ASSUME Inv, NEW r \in RunIds, CallCancelled(r) \/ ToolCancelled(r)
    PROVE  Inv'
<1>1. /\ exec[r].pc \in {"calls", "run", "tool"} /\ Typed /\ Finish(r, "cancelled")
      /\ Quiet /\ UNCHANGED <<tables, ran, told, budget>> /\ "cancelled" \in Terminal
  BY DEF CallCancelled, ToolCancelled, InTurn, At, Inv, Terminal
<1>2. BudgetStep /\ (Undisturbed' => Undisturbed)
  BY <1>1, BudgetKept DEF BudgetStep, NoFault
<1>3. Undisturbed' => Legal(status[r], "cancelled") \/ status[r] \in Terminal
  BY <1>1, <1>2, RunFacts DEF Legal, DriveKnown, StatusKnown
<1>. QED  BY <1>1, <1>2, <1>3, FinishKeeps

LEMMA RefuseKeeps == ASSUME Inv, NEW r \in RunIds, Refuse(r) PROVE Inv'
<1>. DEFINE e == [exec[r] EXCEPT !.pc = "answer"]
<1>1. /\ exec[r].pc = "calls" /\ ~exec[r].parked /\ exec[r] \in TaskType /\ phase = "up" /\ Typed
      /\ Quiet /\ UNCHANGED <<tables, ran, told>> /\ exec[r].i <= Len(thread[r].turn)
      /\ thread[r].turn \in Seq(Kind) /\ exec[r].i \in Nat
  BY RunFacts, Driven, TaskFacts DEF Refuse, InTurn, At, Inv, ThreadType
<1>2. exec' = [exec EXCEPT ![r] = e] /\ BudgetStep /\ "answer" \in Pcs
  BY <1>1, BudgetKept DEF Refuse, Go, NoFault, Pcs
<1>3. e \in TaskType /\ e.pc = "answer" /\ SameTask(e, exec[r])
  BY <1>1, <1>2, GoFacts
<1>. HIDE DEF e
<1>4. TaskKnown(phase, status[r], thread[r], rows[r], e, token[r], ran[r], told[r])
  BY <1>1, <1>3, RunFacts DEF TaskKnown, SameTask, OnCall
<1>5. PendingKnown(rows[r], e)
  BY <1>1, <1>3, RunFacts DEF PendingKnown
<1>6. ASSUME r \in PlanRuns, ~PlanApproved(rows[r])
      PROVE  PlanKnown(thread[r], rows[r], e, ran[r])
  BY <1>1, <1>3, <1>6, RunFacts DEF PlanKnown, Planning, SameTask
<1>7. ASSUME Undisturbed' PROVE DriveKnown(phase, status[r], thread[r], rows[r], e, ran[r])
  <2>1. DriveKnown(phase, status[r], thread[r], rows[r], exec[r], ran[r])
    BY <1>2, <1>7, RunFacts DEF BudgetStep
  <2>2. e.i = exec[r].i /\ UpTo(thread[r], e.i, e.i + 1, ran[r])
    <3>1. UpTo(thread[r], exec[r].i, exec[r].i, ran[r]) /\ e.i = exec[r].i
      BY <1>1, <1>3, <2>1 DEF DriveKnown, SameTask
    <3>2. \A j \in DOMAIN ran[r] : ran[r][j].i \in Nat
      BY RunFacts, CallFacts
    <3>. QED  BY <1>1, <3>1, <3>2 DEF UpTo
  <2>. QED  BY <1>1, <1>3, <2>1, <2>2 DEF DriveKnown, StatusKnown
<1>. QED  BY <1>1, <1>2, <1>3, <1>4, <1>5, <1>6, <1>7, PlaceKeeps

\* A call that may have been executed already bounds less.
LEMMA UpToNext ==
    ASSUME NEW t, NEW i \in Nat, NEW n \in Seq(CallType), UpTo(t, i, i, n)
    PROVE  UpTo(t, i, i + 1, n)
<1>1. \A j \in DOMAIN n : n[j].i \in Nat
  BY CallFacts
<1>. QED  BY <1>1 DEF UpTo

\* Task y is task e, but for what it asked and was allowed.
Asking(y, e, b) ==
    /\ y \in TaskType /\ y.pc = e.pc /\ y.plan = e.plan /\ y.i = e.i /\ y.row = e.row
    /\ y.resumed = e.resumed /\ y.parked = e.parked /\ y.pre = e.pre /\ y.snap = e.snap
    /\ y.asked = b /\ ~y.allowed

LEMMA AsksFacts ==
    ASSUME NEW e \in TaskType, NEW b \in BOOLEAN, NEW y,
           y = [e EXCEPT !.asked = b, !.rounds = 1, !.allowed = FALSE]
    PROVE  Asking(y, e, b)
<1>. DEFINE u == [e EXCEPT !.asked = b]
            v == [u EXCEPT !.rounds = 1]
            x == [v EXCEPT !.allowed = FALSE]
<1>1. /\ u \in TaskType /\ u.pc = e.pc /\ u.plan = e.plan /\ u.i = e.i /\ u.row = e.row
      /\ u.resumed = e.resumed /\ u.parked = e.parked /\ u.pre = e.pre /\ u.snap = e.snap
      /\ u.asked = b
  BY DEF TaskType
<1>2. y = x
  OBVIOUS
<1>. HIDE DEF u
<1>3. /\ v \in TaskType /\ v.pc = e.pc /\ v.plan = e.plan /\ v.i = e.i /\ v.row = e.row
      /\ v.resumed = e.resumed /\ v.parked = e.parked /\ v.pre = e.pre /\ v.snap = e.snap
      /\ v.asked = b
  BY <1>1 DEF TaskType
<1>. HIDE DEF v
<1>4. /\ x \in TaskType /\ x.pc = e.pc /\ x.plan = e.plan /\ x.i = e.i /\ x.row = e.row
      /\ x.resumed = e.resumed /\ x.parked = e.parked /\ x.pre = e.pre /\ x.snap = e.snap
      /\ x.asked = b /\ ~x.allowed
  BY <1>3 DEF TaskType
<1>. HIDE DEF x
<1>. QED  BY <1>2, <1>4 DEF Asking

LEMMA CallToolKeeps == ASSUME Inv, NEW r \in RunIds, CallTool(r) PROVE Inv'
<1>. DEFINE k == KindOf(r)
            asks == k \in Asks \cup {"plan"}
            E(b) == [exec[r] EXCEPT !.asked = b, !.rounds = 1, !.allowed = FALSE]
<1>1. /\ exec[r].pc = "calls" /\ ~exec[r].parked /\ exec[r] \in TaskType /\ phase = "up" /\ Typed
      /\ Quiet /\ UNCHANGED <<thread, rows, ran, told>> /\ status[r] # "none"
      /\ exec[r].i <= Len(thread[r].turn) /\ thread[r].turn \in Seq(Kind) /\ exec[r].i \in Nat
      /\ exec[r].i >= 1 /\ ~exec[r].asked
  BY RunFacts, Driven, TaskFacts DEF CallTool, InTurn, At, Inv, ThreadType, TaskKnown
<1>2. /\ exec[r].i \in DOMAIN thread[r].turn /\ k = thread[r].turn[exec[r].i] /\ k \in Kind
  BY <1>1 DEF KindOf
<1>3. /\ ~exec[r].resumed /\ exec[r].plan => k \in {"read", "plan"}
      /\ exec[r].resumed => k # "plan"
  BY DEF CallTool, Refuses
<1>4. told' = [told EXCEPT ![r] = told[r]] /\ told[r] \in Seq(Terminal)
  BY <1>1, RunFacts DEF Typed
<1>. HIDE DEF k
<1>5. ASSUME NEW s \in Status, NEW x, NEW b \in BOOLEAN, NEW l \in {"gate", "run", "answer", "reject"},
             Asking(x, exec[r], b), Go(r, x, l), BudgetStep,
             status' = [status EXCEPT ![r] = s], s # "none", EndKnown(s, told[r]),
             l = "gate" => b /\ k \in Asks \cup {"plan"},
             l = "run" => ~b /\ k = "read",
             l = "answer" => ~b /\ k # "plan",
             Undisturbed' => l \in {"gate", "run"},
             Undisturbed' =>
                 s \in Terminal \/ (l = "gate" /\ s = "awaiting") \/ (l = "run" /\ s = "running")
      PROVE  Inv'
  <2>. DEFINE e == [x EXCEPT !.pc = l]
  <2>1. exec' = [exec EXCEPT ![r] = e] /\ l \in Pcs /\ x \in TaskType
    BY <1>5 DEF Go, Pcs, Asking
  <2>2. e \in TaskType /\ e.pc = l /\ SameTask(e, x)
    BY <2>1, GoFacts
  <2>. HIDE DEF e
  <2>3. /\ e.plan = exec[r].plan /\ e.i = exec[r].i /\ e.row = exec[r].row
        /\ e.resumed = exec[r].resumed /\ ~e.parked /\ e.asked = b
    BY <1>1, <1>5, <2>2 DEF Asking, SameTask
  <2>4. TaskKnown(phase, status[r], thread[r], rows[r], e, token[r], ran[r], told[r])
    BY <1>1, <1>2, <1>5, <2>2, <2>3, RunFacts DEF TaskKnown, OnCall
  <2>5. TaskKnown(phase, s, thread[r], rows[r], e, token[r], ran[r], told[r])
    BY <1>1, <1>5, <2>4, TaskMoved
  <2>6. PendingKnown(rows[r], e)
    BY <1>1, <2>2, RunFacts DEF PendingKnown
  <2>7. ASSUME r \in PlanRuns, ~PlanApproved(rows[r])
        PROVE  PlanKnown(thread[r], rows[r], e, ran[r])
    <3>1. PlanKnown(thread[r], rows[r], exec[r], ran[r])
      BY <2>7, RunFacts
    <3>2. Planning(rows[r], exec[r]) /\ k \in {"read", "plan"} /\ thread[r].turn[e.i] = k
      BY <1>1, <1>2, <1>3, <2>3, <3>1 DEF PlanKnown, Planning
    <3>. QED  BY <1>5, <2>2, <2>3, <3>1, <3>2 DEF PlanKnown, Planning, Asks
  <2>8. ASSUME Undisturbed' PROVE DriveKnown(phase, s, thread[r], rows[r], e, ran[r])
    <3>1. DriveKnown(phase, status[r], thread[r], rows[r], exec[r], ran[r])
      BY <1>5, <2>8, RunFacts DEF BudgetStep
    <3>2. StatusKnown(phase, s, e)
      BY <1>5, <2>2, <2>3, <2>8 DEF StatusKnown
    <3>3. l \in {"gate", "run"} /\ (l = "run" => thread[r].turn[e.i] = "read")
      BY <1>2, <1>5, <2>3, <2>8
    <3>4. UpTo(thread[r], e.i, e.i, ran[r])
      BY <1>1, <2>3, <3>1 DEF DriveKnown
    <3>. QED  BY <2>2, <2>3, <3>1, <3>2, <3>3, <3>4 DEF DriveKnown
  <2>9. RunKnown(r, phase, s, thread[r], rows[r], e, token[r], ran[r], told[r])
    BY <1>5, <2>5, <2>6, <2>7 DEF RunKnown
  <2>. QED  BY <1>1, <1>4, <1>5, <2>1, <2>2, <2>8, <2>9, MoveKeeps
<1>6. ASSUME NEW b \in BOOLEAN PROVE Asking(E(b), exec[r], b)
  BY <1>1, AsksFacts
<1>7. CASE asks /\ Move(r, "awaiting") /\ Go(r, E(TRUE), "gate")
  <2>1. /\ BudgetStep
        /\ \E s \in Status :
              /\ status' = [status EXCEPT ![r] = s] /\ s # "none" /\ EndKnown(s, told[r])
              /\ (Undisturbed' /\ Legal(status[r], "awaiting") => s = "awaiting")
              /\ s = status[r] \/ s = "awaiting"
    BY <1>1, <1>7, MoveFacts
  <2>2. PICK s \in Status :
              /\ status' = [status EXCEPT ![r] = s] /\ s # "none" /\ EndKnown(s, told[r])
              /\ (Undisturbed' /\ Legal(status[r], "awaiting") => s = "awaiting")
              /\ s = status[r] \/ s = "awaiting"
    BY <2>1
  <2>3. Undisturbed' => s = "awaiting" \/ s \in Terminal
    BY <1>1, <2>1, <2>2, IsRunning DEF Legal, BudgetStep
  <2>4. Asking(E(TRUE), exec[r], TRUE)
    BY <1>6
  <2>. HIDE DEF E
  <2>. QED  BY <1>5, <1>7, <2>1, <2>2, <2>3, <2>4
<1>8. ASSUME NEW x, NEW l \in {"run", "answer", "reject"}, Asking(x, exec[r], FALSE), Go(r, x, l),
             BudgetStep, UNCHANGED status, l = "run" => k = "read", l = "answer" => k # "plan",
             Undisturbed' => l = "run"
      PROVE  Inv'
  <2>1. /\ status[r] \in Status /\ status' = [status EXCEPT ![r] = status[r]]
        /\ EndKnown(status[r], told[r])
    BY <1>1, <1>8, RunFacts DEF Typed
  <2>2. Undisturbed' => status[r] = "running" \/ status[r] \in Terminal
    BY <1>1, <1>8, IsRunning DEF BudgetStep
  <2>. QED  BY <1>1, <1>5, <1>8, <2>1, <2>2
<1>9. CASE ~asks /\ Go(r, E(FALSE), "run") /\ NoFault /\ UNCHANGED status
  <2>1. k = "read"
    BY <1>2, <1>9 DEF Asks, Kind
  <2>2. BudgetStep /\ Asking(E(FALSE), exec[r], FALSE)
    BY <1>1, <1>6, <1>9, BudgetKept
  <2>. HIDE DEF E
  <2>. QED  BY <1>8, <1>9, <2>1, <2>2
<1>10. ASSUME NEW b \in BOOLEAN, Fault, UNCHANGED status,
              Go(r, [E(b) EXCEPT !.asked = FALSE], IF k = "plan" THEN "reject" ELSE "answer")
       PROVE  Inv'
  <2>. DEFINE y == E(b)
              x == [y EXCEPT !.asked = FALSE]
  <2>1. BudgetStep /\ ~Undisturbed' /\ Asking(y, exec[r], b)
    BY <1>1, <1>6, <1>10, BudgetKept
  <2>2. Go(r, x, IF k = "plan" THEN "reject" ELSE "answer")
    BY <1>10
  <2>. HIDE DEF y
  <2>3. Asking(x, exec[r], FALSE)
    BY <2>1 DEF Asking, TaskType
  <2>. HIDE DEF x
  <2>. QED  BY <1>8, <1>10, <2>1, <2>2, <2>3
<1>11. CASE asks
  <2>1. asks = TRUE
    BY <1>11
  <2>2. \/ Move(r, "awaiting") /\ Go(r, E(TRUE), "gate")
        \/ /\ Fault /\ UNCHANGED status
           /\ Go(r, [E(TRUE) EXCEPT !.asked = FALSE], IF k = "plan" THEN "reject" ELSE "answer")
    BY <1>11, <2>1 DEF CallTool, k
  <2>. QED  BY <1>7, <1>10, <1>11, <2>2
<1>12. CASE ~asks
  <2>1. asks = FALSE
    BY <1>12
  <2>2. \/ Go(r, E(FALSE), "run") /\ NoFault /\ UNCHANGED status
        \/ /\ Fault /\ UNCHANGED status
           /\ Go(r, [E(FALSE) EXCEPT !.asked = FALSE], IF k = "plan" THEN "reject" ELSE "answer")
    BY <1>12, <2>1 DEF CallTool, k
  <2>. QED  BY <1>9, <1>10, <1>12, <2>2
<1>. QED  BY <1>11, <1>12

-----------------------------------------------------------------------------
(* Approvals.                                                              *)

ApprovalStatus == {"pending", "approved", "denied", "timed_out", "aborted"}

LEMMA RowFacts ==
    ASSUME NEW v \in Seq(ApprovalType), NEW j \in DOMAIN v
    PROVE  v[j] \in ApprovalType /\ v[j].call \in CallType /\ v[j].status \in ApprovalStatus
<1>1. v[j] \in ApprovalType
  OBVIOUS
<1>. QED  BY <1>1 DEF ApprovalType, ApprovalStatus

\* w is v with the pending row j settled as s.
Settled(v, w, j, s) ==
    /\ DOMAIN w = DOMAIN v /\ Len(w) = Len(v)
    /\ w[j].call = v[j].call /\ w[j].status = s
    /\ \A i \in DOMAIN v : i # j => w[i] = v[i]

LEMMA SettleFacts ==
    ASSUME Inv, NEW r \in RunIds, NEW j \in DOMAIN rows[r], NEW s \in ApprovalStatus,
           SetRow(r, j, s)
    PROVE  \E w \in Seq(ApprovalType) :
              rows' = [rows EXCEPT ![r] = w] /\ Settled(rows[r], w, j, s)
<1>. DEFINE v == rows[r]
            x == [v[j] EXCEPT !.status = s]
            w == [v EXCEPT ![j] = x]
<1>1. v \in Seq(ApprovalType) /\ rows \in [RunIds -> Seq(ApprovalType)]
  BY DEF Inv, Typed
<1>2. v[j] \in ApprovalType
  BY <1>1
<1>3. x \in ApprovalType /\ x.call = v[j].call /\ x.status = s
  BY <1>2 DEF ApprovalType, ApprovalStatus
<1>4. rows' = [rows EXCEPT ![r] = w]
  BY <1>1 DEF SetRow
<1>. HIDE DEF x
<1>5. w \in Seq(ApprovalType) /\ Settled(v, w, j, s)
  BY <1>1, <1>3 DEF Settled
<1>. QED  BY <1>4, <1>5

\* What a settled row leaves.
LEMMA SettledKeeps ==
    ASSUME NEW v \in Seq(ApprovalType), NEW w \in Seq(ApprovalType), NEW j \in DOMAIN v,
           NEW s \in ApprovalStatus \ {"pending"}, IsPending(v, j), Settled(v, w, j, s)
    PROVE  /\ Grown(v, w)
           /\ \A i \in DOMAIN w : w[i].call = v[i].call
           /\ \A i \in DOMAIN w : IsPending(w, i) => i # j /\ IsPending(v, i)
           /\ \A c : ApprovedFor(v, c) => ApprovedFor(w, c)
           /\ \A n : RanAllowed(v, n) => RanAllowed(w, n)
<1>1. \A i \in DOMAIN w : i \in DOMAIN v /\ w[i].call = v[i].call
  BY DEF Settled
<1>2. \A i \in DOMAIN w : IsPending(w, i) => i # j /\ IsPending(v, i)
  BY DEF Settled, IsPending
<1>3. \A i \in DOMAIN v : v[i].status = "approved" => i \in DOMAIN w /\ w[i] = v[i]
  BY DEF Settled, IsPending
<1>4. Grown(v, w)
  BY <1>3 DEF Grown, PlanApproved, Settled
<1>5. \A c : ApprovedFor(v, c) => ApprovedFor(w, c)
  BY <1>3 DEF ApprovedFor
<1>6. \A n : RanAllowed(v, n) => RanAllowed(w, n)
  BY <1>5 DEF RanAllowed
<1>. QED  BY <1>1, <1>2, <1>4, <1>5, <1>6

\* What a new row leaves.
LEMMA AppendKeeps ==
    ASSUME NEW v \in Seq(ApprovalType), NEW x \in ApprovalType, NEW w, w = Append(v, x)
    PROVE  /\ w \in Seq(ApprovalType) /\ Len(w) = Len(v) + 1 /\ w[Len(v) + 1] = x
           /\ Len(v) + 1 \in DOMAIN w
           /\ DOMAIN v \subseteq DOMAIN w /\ \A i \in DOMAIN v : w[i] = v[i]
           /\ \A i \in DOMAIN w : i \in DOMAIN v \/ i = Len(v) + 1
           /\ Grown(v, w)
           /\ \A n : RanAllowed(v, n) => RanAllowed(w, n)
<1>1. /\ w \in Seq(ApprovalType) /\ Len(w) = Len(v) + 1 /\ w[Len(v) + 1] = x
      /\ Len(v) + 1 \in DOMAIN w
      /\ DOMAIN v \subseteq DOMAIN w /\ \A i \in DOMAIN v : w[i] = v[i]
      /\ \A i \in DOMAIN w : i \in DOMAIN v \/ i = Len(v) + 1
  OBVIOUS
<1>2. Grown(v, w)
  BY <1>1 DEF Grown, PlanApproved
<1>3. \A c : ApprovedFor(v, c) => ApprovedFor(w, c)
  BY <1>1 DEF ApprovedFor
<1>4. \A n : RanAllowed(v, n) => RanAllowed(w, n)
  BY <1>3 DEF RanAllowed
<1>. QED  BY <1>1, <1>2, <1>4

\* A task at a call, wherever it got to with it: its types and where it is.
LEMMA CallFactsOf ==
    ASSUME Inv, NEW r \in RunIds, exec[r].pc \in OnCall
    PROVE  /\ exec[r] \in TaskType /\ phase = "up" /\ Typed /\ status[r] # "none"
           /\ ~exec[r].parked /\ exec[r].i \in Nat /\ exec[r].i \in DOMAIN thread[r].turn
           /\ thread[r] \in ThreadType /\ rows[r] \in Seq(ApprovalType)
           /\ KindOf(r) = thread[r].turn[exec[r].i] /\ KindOf(r) \in Kind
           /\ CallOf(r) = CallIn(thread[r], exec[r]) /\ CallOf(r) \in CallType
           /\ CallOf(r).kind = KindOf(r)
<1>1. /\ exec[r] \in TaskType /\ thread[r] \in ThreadType /\ rows[r] \in Seq(ApprovalType)
      /\ phase = "up" /\ status[r] # "none" /\ Typed
  BY RunFacts, Driven DEF Inv, OnCall
<1>2. ~exec[r].parked /\ exec[r].i \in Nat /\ exec[r].i \in DOMAIN thread[r].turn
  BY <1>1, RunFacts, TaskFacts DEF TaskKnown, OnCall
<1>3. thread[r].n \in Nat /\ thread[r].turn \in Seq(Kind)
  BY <1>1 DEF ThreadType
<1>4. KindOf(r) = thread[r].turn[exec[r].i] /\ KindOf(r) \in Kind
  BY <1>2, <1>3 DEF KindOf
<1>5. CallOf(r) = CallIn(thread[r], exec[r]) /\ CallOf(r) \in CallType /\ CallOf(r).kind = KindOf(r)
  BY <1>2, <1>3, <1>4 DEF CallOf, CallIn, CallType
<1>. QED  BY <1>1, <1>2, <1>4, <1>5

\* The gate's three ways out.
LEMMA GateKeeps == ASSUME Inv, NEW r \in RunIds, Gate(r) PROVE Inv'
<1>1. /\ exec[r].pc = "gate" /\ exec[r] \in TaskType /\ phase = "up" /\ Typed
      /\ Quiet /\ UNCHANGED <<status, thread, ran, told>> /\ status[r] # "none"
      /\ ~exec[r].parked /\ exec[r].i \in Nat /\ exec[r].i \in DOMAIN thread[r].turn
      /\ rows[r] \in Seq(ApprovalType) /\ exec[r].asked
      /\ KindOf(r) = thread[r].turn[exec[r].i]
      /\ CallOf(r) = CallIn(thread[r], exec[r]) /\ CallOf(r) \in CallType
      /\ CallOf(r).kind = KindOf(r)
  BY CallFactsOf, RunFacts DEF Gate, At, OnCall, TaskKnown
<1>2. /\ TaskKnown(phase, status[r], thread[r], rows[r], exec[r], token[r], ran[r], told[r])
      /\ \A j \in DOMAIN rows[r] : ~IsPending(rows[r], j)
  BY <1>1, RunFacts DEF PendingKnown
<1>3. ASSUME NEW x \in TaskType, NEW l \in {"run", "back"}, Go(r, x, l), BudgetStep, UNCHANGED rows,
             SameTask(x, exec[r]) \/ Asking(x, exec[r], TRUE),
             l = "run" => KindOf(r) = "granted",
             l = "back" => ~x.allowed /\ ~Undisturbed'
      PROVE  Inv'
  <2>. DEFINE e == [x EXCEPT !.pc = l]
  <2>1. exec' = [exec EXCEPT ![r] = e] /\ l \in Pcs
    BY <1>3 DEF Go, Pcs
  <2>2. e \in TaskType /\ e.pc = l /\ SameTask(e, x)
    BY <1>3, <2>1, GoFacts
  <2>. HIDE DEF e
  <2>3. /\ e.plan = exec[r].plan /\ e.i = exec[r].i /\ e.row = exec[r].row
        /\ e.resumed = exec[r].resumed /\ ~e.parked /\ e.asked
        /\ l = "back" => ~e.allowed
    BY <1>1, <1>3, <2>2 DEF Asking, SameTask
  <2>4. TaskKnown(phase, status[r], thread[r], rows[r], e, token[r], ran[r], told[r])
    BY <1>1, <1>2, <2>2, <2>3 DEF TaskKnown, OnCall
  <2>5. PendingKnown(rows[r], e)
    BY <1>2 DEF PendingKnown
  <2>6. ASSUME r \in PlanRuns, ~PlanApproved(rows[r])
        PROVE  PlanKnown(thread[r], rows[r], e, ran[r])
    <3>1. PlanKnown(thread[r], rows[r], exec[r], ran[r])
      BY <2>6, RunFacts
    <3>2. KindOf(r) = "plan" /\ l = "back"
      BY <1>1, <1>3, <3>1 DEF PlanKnown
    <3>. QED  BY <1>1, <2>2, <2>3, <3>1, <3>2 DEF PlanKnown
  <2>7. ASSUME Undisturbed' PROVE DriveKnown(phase, status[r], thread[r], rows[r], e, ran[r])
    BY <1>1, <1>3, <2>2, <2>3, <2>7, RunFacts DEF DriveKnown, StatusKnown, BudgetStep
  <2>8. UNCHANGED <<tables, ran, told>>
    BY <1>1, <1>3 DEF tables
  <2>. QED  BY <1>1, <1>3, <2>1, <2>2, <2>4, <2>5, <2>6, <2>7, <2>8, PlaceKeeps
<1>4. CASE /\ KindOf(r) = "granted"
           /\ Go(r, exec[r], "run") /\ NoFault /\ UNCHANGED rows
  BY <1>1, <1>3, <1>4, BudgetKept DEF SameTask
<1>5. CASE /\ KindOf(r) # "granted" /\ Fault /\ UNCHANGED rows
           /\ Go(r, [exec[r] EXCEPT !.allowed = FALSE], "back")
  <2>. DEFINE x == [exec[r] EXCEPT !.allowed = FALSE]
  <2>1. Asking(x, exec[r], TRUE) /\ x \in TaskType
    BY <1>1 DEF TaskType, Asking
  <2>2. BudgetStep /\ ~Undisturbed' /\ ~x.allowed
    BY <1>1, <1>5, <2>1, BudgetKept DEF Asking
  <2>. HIDE DEF x
  <2>. QED  BY <1>3, <1>5, <2>1, <2>2 DEF x
<1>6. CASE /\ rows' = [rows EXCEPT ![r] = Append(@,
                 [call |-> CallOf(r), reasked |-> exec[r].pre,
                  life |-> crashes, status |-> "pending"])]
           /\ Go(r, [exec[r] EXCEPT !.row = Len(rows[r]) + 1], "wait") /\ NoFault
  <2>. DEFINE y == [call |-> CallOf(r), reasked |-> exec[r].pre,
                    life |-> crashes, status |-> "pending"]
              w == Append(rows[r], y)
              x == [exec[r] EXCEPT !.row = Len(rows[r]) + 1]
              e == [x EXCEPT !.pc = "wait"]
  <2>1. y \in ApprovalType /\ y.call = CallOf(r) /\ y.status = "pending"
    <3>1. exec[r].pre \in BOOLEAN /\ crashes \in Nat
      BY <1>1, TaskFacts DEF Typed
    <3>. QED  BY <1>1, <3>1 DEF ApprovalType
  <2>2. rows' = [rows EXCEPT ![r] = w]
    BY <1>1, <1>6 DEF Typed
  <2>. HIDE DEF y
  <2>3. /\ w \in Seq(ApprovalType) /\ Len(w) = Len(rows[r]) + 1 /\ w[Len(rows[r]) + 1] = y
        /\ Len(rows[r]) + 1 \in DOMAIN w
        /\ DOMAIN rows[r] \subseteq DOMAIN w /\ \A i \in DOMAIN rows[r] : w[i] = rows[r][i]
        /\ \A i \in DOMAIN w : i \in DOMAIN rows[r] \/ i = Len(rows[r]) + 1
        /\ Grown(rows[r], w)
        /\ \A n : RanAllowed(rows[r], n) => RanAllowed(w, n)
    BY <1>1, <2>1, AppendKeeps
  <2>. HIDE DEF w
  <2>4. /\ x \in TaskType /\ x.pc = "gate" /\ x.row = Len(rows[r]) + 1 /\ x.plan = exec[r].plan
        /\ x.i = exec[r].i /\ x.resumed = exec[r].resumed /\ ~x.parked /\ x.asked
    <3>1. Len(rows[r]) + 1 \in Nat
      BY <1>1
    <3>. QED  BY <1>1, <3>1 DEF TaskType
  <2>5. exec' = [exec EXCEPT ![r] = e] /\ "wait" \in Pcs /\ BudgetStep
    BY <1>1, <1>6, BudgetKept DEF Go, Pcs
  <2>. HIDE DEF x
  <2>6. e \in TaskType /\ e.pc = "wait" /\ SameTask(e, x)
    BY <2>4, <2>5, GoFacts
  <2>. HIDE DEF e
  <2>7. /\ e.row = Len(rows[r]) + 1 /\ e.i = exec[r].i /\ ~e.parked /\ e.asked
    BY <2>4, <2>6 DEF SameTask
  <2>8. w[e.row].call = CallIn(thread[r], e)
    BY <1>1, <2>1, <2>3, <2>7 DEF CallIn
  <2>9. TaskKnown(phase, status[r], thread[r], w, e, token[r], ran[r], told[r])
    BY <1>1, <1>2, <2>3, <2>6, <2>7, <2>8 DEF TaskKnown, OnCall
  <2>10. PendingKnown(w, e)
    BY <1>2, <2>3, <2>6, <2>7 DEF PendingKnown, IsPending
  <2>11. ASSUME r \in PlanRuns, ~PlanApproved(w)
         PROVE  PlanKnown(thread[r], w, e, ran[r])
    <3>1. PlanKnown(thread[r], rows[r], exec[r], ran[r])
      BY <2>3, <2>11, RunFacts DEF Grown
    <3>2. \A j \in DOMAIN w : w[j].call.kind = "plan"
      BY <1>1, <2>1, <2>3, <3>1 DEF PlanKnown
    <3>. QED  BY <1>1, <2>6, <2>7, <3>1, <3>2 DEF PlanKnown
  <2>12. ASSUME Undisturbed' PROVE DriveKnown(phase, status[r], thread[r], w, e, ran[r])
    BY <1>1, <2>3, <2>5, <2>6, <2>7, <2>12, RunFacts DEF DriveKnown, StatusKnown, BudgetStep
  <2>13. RunKnown(r, phase, status[r], thread[r], w, e, token[r], ran[r], told[r])
    BY <2>9, <2>10, <2>11, RunFacts DEF RunKnown
  <2>14. /\ Wrote(r, status[r], thread[r], w, e, ran[r], told[r])
         /\ ValuesTyped(status[r], thread[r], w, e, ran[r], told[r])
    BY <1>1, <2>2, <2>3, <2>5, <2>6, RunFacts DEF Typed, Wrote, ValuesTyped
  <2>. QED  BY <1>1, <2>3, <2>5, <2>12, <2>13, <2>14, TaskStepKeeps
<1>. QED  BY <1>4, <1>5, <1>6 DEF Gate

LEMMA VerdictKeeps == ASSUME Inv, NEW r \in RunIds, Verdict(r) PROVE Inv'
<1>. DEFINE s == rows[r][exec[r].row].status
<1>1. /\ exec[r].pc = "wait" /\ exec[r] \in TaskType /\ phase = "up" /\ Typed
      /\ Quiet /\ UNCHANGED <<tables, ran, told>> /\ status[r] # "none"
      /\ ~exec[r].parked /\ exec[r].i \in Nat /\ exec[r].i \in DOMAIN thread[r].turn
      /\ rows[r] \in Seq(ApprovalType) /\ exec[r].asked
      /\ KindOf(r) = thread[r].turn[exec[r].i] /\ CallOf(r).kind = KindOf(r)
      /\ CallOf(r) = CallIn(thread[r], exec[r])
      /\ exec[r].row \in DOMAIN rows[r] /\ rows[r][exec[r].row].call = CallOf(r)
  BY CallFactsOf, RunFacts DEF Verdict, At, OnCall, TaskKnown
<1>2. TaskKnown(phase, status[r], thread[r], rows[r], exec[r], token[r], ran[r], told[r])
  BY RunFacts
<1>3. BudgetStep /\ (Undisturbed' => Undisturbed)
  BY <1>1, BudgetKept DEF Verdict, BudgetStep, NoFault
<1>4. s # "pending"
  BY DEF Verdict
<1>5. \A j \in DOMAIN rows[r] : ~IsPending(rows[r], j)
  BY <1>1, <1>4, RunFacts DEF PendingKnown, IsPending
<1>6. ASSUME NEW x \in TaskType, NEW l \in {"run", "back"}, Go(r, x, l),
             x.i = exec[r].i, x.row = exec[r].row, x.asked, ~x.parked,
             l = "run" => s = "approved" /\ KindOf(r) # "plan",
             l = "back" => ~x.allowed \/ (s = "approved" /\ KindOf(r) = "plan")
      PROVE  Inv'
  <2>. DEFINE e == [x EXCEPT !.pc = l]
  <2>1. exec' = [exec EXCEPT ![r] = e] /\ l \in Pcs
    BY <1>6 DEF Go, Pcs
  <2>2. e \in TaskType /\ e.pc = l /\ SameTask(e, x)
    BY <2>1, GoFacts
  <2>. HIDE DEF e
  <2>3. e.i = exec[r].i /\ e.row = exec[r].row /\ ~e.parked /\ e.asked
        /\ (l = "back" => ~e.allowed \/ (s = "approved" /\ KindOf(r) = "plan"))
    BY <1>6, <2>2 DEF SameTask
  <2>4. TaskKnown(phase, status[r], thread[r], rows[r], e, token[r], ran[r], told[r])
    BY <1>1, <1>2, <2>2, <2>3 DEF TaskKnown, OnCall
  <2>5. PendingKnown(rows[r], e)
    BY <1>5 DEF PendingKnown
  <2>6. ASSUME r \in PlanRuns, ~PlanApproved(rows[r])
        PROVE  PlanKnown(thread[r], rows[r], e, ran[r])
    <3>1. PlanKnown(thread[r], rows[r], exec[r], ran[r])
      BY <2>6, RunFacts
    <3>2. KindOf(r) = "plan"
      BY <1>1, <3>1 DEF PlanKnown
    <3>3. s # "approved"
      BY <1>1, <2>6, <3>2 DEF PlanApproved
    <3>. QED  BY <1>1, <1>6, <2>2, <2>3, <3>1, <3>2, <3>3 DEF PlanKnown
  <2>7. ASSUME Undisturbed' PROVE DriveKnown(phase, status[r], thread[r], rows[r], e, ran[r])
    <3>1. DriveKnown(phase, status[r], thread[r], rows[r], exec[r], ran[r])
      BY <1>3, <2>7, RunFacts
    <3>2. UpTo(thread[r], e.i, e.i, ran[r])
      BY <1>1, <2>3, <3>1 DEF DriveKnown
    <3>3. UpTo(thread[r], e.i, e.i + 1, ran[r])
      BY <1>1, <2>3, <3>2, RunFacts, UpToNext
    <3>4. l = "run" => ApprovedFor(rows[r], CallIn(thread[r], e))
      BY <1>1, <1>6, <2>3 DEF ApprovedFor, CallIn
    <3>. QED  BY <1>1, <2>2, <2>3, <3>1, <3>2, <3>3, <3>4 DEF DriveKnown, StatusKnown
  <2>. QED  BY <1>1, <1>3, <2>1, <2>2, <2>4, <2>5, <2>6, <2>7, PlaceKeeps
<1>7. CASE s = "approved" /\ KindOf(r) = "plan"
           /\ Go(r, [exec[r] EXCEPT !.plan = FALSE, !.allowed = TRUE], "back")
  <2>. DEFINE y == [exec[r] EXCEPT !.plan = FALSE]
              x == [y EXCEPT !.allowed = TRUE]
  <2>1. y \in TaskType /\ y.i = exec[r].i /\ y.row = exec[r].row /\ y.asked /\ ~y.parked
    BY <1>1 DEF TaskType
  <2>2. Go(r, x, "back")
    BY <1>7
  <2>. HIDE DEF y
  <2>3. x \in TaskType /\ x.i = exec[r].i /\ x.row = exec[r].row /\ x.asked /\ ~x.parked
    BY <2>1 DEF TaskType
  <2>. HIDE DEF x
  <2>. QED  BY <1>6, <1>7, <2>2, <2>3
<1>8. CASE s = "approved" /\ KindOf(r) # "plan" /\ Go(r, exec[r], "run")
  BY <1>1, <1>6, <1>8
<1>9. CASE s \in {"denied", "timed_out"} /\ Go(r, [exec[r] EXCEPT !.allowed = FALSE], "back")
  <2>. DEFINE x == [exec[r] EXCEPT !.allowed = FALSE]
  <2>1. /\ x \in TaskType /\ x.i = exec[r].i /\ x.row = exec[r].row /\ x.asked /\ ~x.parked
        /\ ~x.allowed
    BY <1>1 DEF TaskType
  <2>. HIDE DEF x
  <2>. QED  BY <1>6, <1>9, <2>1 DEF x
<1>10. CASE s = "aborted" /\ Finish(r, "cancelled")
  <2>1. ~IsPending(rows[r], exec[r].row) /\ "cancelled" \in Terminal
    BY <1>1, <1>5 DEF Terminal
  <2>2. Undisturbed' => Legal(status[r], "cancelled") \/ status[r] \in Terminal
    BY <1>1, <1>3, RunFacts DEF Legal, DriveKnown, StatusKnown
  <2>. QED  BY <1>1, <1>3, <1>10, <2>1, <2>2, FinishKeeps
<1>. QED  BY <1>7, <1>8, <1>9, <1>10 DEF Verdict

LEMMA WaitCancelledKeeps == ASSUME Inv, NEW r \in RunIds, WaitCancelled(r) PROVE Inv'
<1>. DEFINE e == Finished(exec[r], "cancelled")
<1>1. /\ exec[r].pc = "wait" /\ exec[r] \in TaskType /\ phase = "up" /\ Typed
      /\ Quiet /\ UNCHANGED <<status, thread, ran, told, budget>> /\ status[r] # "none"
      /\ rows[r] \in Seq(ApprovalType) /\ exec[r].row \in DOMAIN rows[r] /\ ~exec[r].parked
      /\ IsPending(rows[r], exec[r].row) /\ "cancelled" \in Terminal
      /\ "aborted" \in ApprovalStatus \ {"pending"}
  BY CallFactsOf, RunFacts
     DEF WaitCancelled, At, OnCall, TaskKnown, IsPending, ApprovalStatus, Terminal
<1>2. BudgetStep /\ (Undisturbed' => Undisturbed)
  BY <1>1, BudgetKept DEF BudgetStep, NoFault
<1>3. e \in TaskType /\ e.pc = "finish" /\ e.to = "cancelled" /\ SameTask(e, exec[r])
  BY <1>1, FinishFacts
<1>4. exec' = [exec EXCEPT ![r] = e]
  BY DEF WaitCancelled, Finish, Go, Finished
<1>. HIDE DEF e
<1>5. PICK w \in Seq(ApprovalType) :
         rows' = [rows EXCEPT ![r] = w] /\ Settled(rows[r], w, exec[r].row, "aborted")
  BY <1>1, SettleFacts DEF WaitCancelled
<1>6. /\ Grown(rows[r], w)
      /\ \A i \in DOMAIN w : w[i].call = rows[r][i].call
      /\ \A i \in DOMAIN w : IsPending(w, i) => i # exec[r].row /\ IsPending(rows[r], i)
      /\ \A n : RanAllowed(rows[r], n) => RanAllowed(w, n)
      /\ DOMAIN w = DOMAIN rows[r] /\ Len(w) = Len(rows[r])
  BY <1>1, <1>5, SettledKeeps DEF Settled
<1>7. TaskKnown(phase, status[r], thread[r], w, e, token[r], ran[r], told[r])
  <2>1. TaskKnown(phase, status[r], thread[r], rows[r], exec[r], token[r], ran[r], told[r])
    BY RunFacts
  <2>. QED  BY <1>1, <1>3, <1>6, <2>1 DEF TaskKnown, SameTask, OnCall
<1>8. PendingKnown(w, e)
  BY <1>1, <1>6, RunFacts DEF PendingKnown
<1>9. ASSUME r \in PlanRuns, ~PlanApproved(w)
      PROVE  PlanKnown(thread[r], w, e, ran[r])
  <2>1. PlanKnown(thread[r], rows[r], exec[r], ran[r])
    BY <1>6, <1>9, RunFacts DEF Grown
  <2>. QED  BY <1>3, <1>6, <2>1 DEF PlanKnown
<1>10. ASSUME Undisturbed' PROVE DriveKnown(phase, status[r], thread[r], w, e, ran[r])
  <2>1. DriveKnown(phase, status[r], thread[r], rows[r], exec[r], ran[r])
    BY <1>2, <1>10, RunFacts
  <2>2. StatusKnown(phase, status[r], e)
    BY <1>1, <1>3, <2>1 DEF DriveKnown, StatusKnown, Legal
  <2>. QED  BY <1>3, <1>6, <2>1, <2>2 DEF DriveKnown
<1>11. RunKnown(r, phase, status[r], thread[r], w, e, token[r], ran[r], told[r])
  BY <1>7, <1>8, <1>9, RunFacts DEF RunKnown
<1>12. /\ Wrote(r, status[r], thread[r], w, e, ran[r], told[r])
       /\ ValuesTyped(status[r], thread[r], w, e, ran[r], told[r])
  BY <1>1, <1>3, <1>4, <1>5, RunFacts DEF Typed, Wrote, ValuesTyped
<1>. QED  BY <1>1, <1>2, <1>6, <1>10, <1>11, <1>12, TaskStepKeeps

-----------------------------------------------------------------------------
(* Executing a call and answering it.                                      *)

\* A task goes on with its call, with the same status, thread and approvals.
LEMMA OnwardKeeps ==
    ASSUME Inv, NEW r \in RunIds, exec[r].pc \in OnCall, NEW x \in TaskType,
           NEW s \in Status, NEW l \in {"gate", "back", "answer", "reject"}, Go(r, x, l),
           x.i = exec[r].i, x.row = exec[r].row, ~x.parked, l = "gate" => x.asked,
           \A j \in DOMAIN rows[r] : ~IsPending(rows[r], j),
           status' = [status EXCEPT ![r] = s], s # "none", EndKnown(s, told[r]),
           BudgetStep, Quiet, UNCHANGED <<thread, rows, ran, told>>,
           r \in PlanRuns /\ ~PlanApproved(rows[r]) =>
               /\ l # "gate"
               /\ l = "answer" => Planning(rows[r], x)
               /\ l = "back" => (KindOf(r) = "plan" /\ ~x.allowed) \/ Planning(rows[r], x),
           Undisturbed' =>
               /\ StatusKnown(phase, s, [x EXCEPT !.pc = l])
               /\ l = "gate" => UpTo(thread[r], exec[r].i, exec[r].i, ran[r])
               /\ l # "gate" => UpTo(thread[r], exec[r].i, exec[r].i + 1, ran[r])
    PROVE  Inv'
<1>. DEFINE e == [x EXCEPT !.pc = l]
<1>1. /\ exec[r] \in TaskType /\ phase = "up" /\ Typed /\ status[r] # "none"
      /\ exec[r].i \in Nat /\ exec[r].i \in DOMAIN thread[r].turn /\ ~exec[r].parked
      /\ KindOf(r) = thread[r].turn[exec[r].i]
  BY CallFactsOf
<1>2. exec' = [exec EXCEPT ![r] = e] /\ l \in Pcs
  BY DEF Go, Pcs
<1>3. e \in TaskType /\ e.pc = l /\ SameTask(e, x)
  BY <1>2, GoFacts
<1>. HIDE DEF e
<1>4. /\ e.i = exec[r].i /\ e.row = exec[r].row /\ ~e.parked /\ (l = "gate" => e.asked)
      /\ e.plan = x.plan /\ e.resumed = x.resumed /\ e.allowed = x.allowed
  BY <1>3 DEF SameTask
<1>5. TaskKnown(phase, status[r], thread[r], rows[r], exec[r], token[r], ran[r], told[r])
  BY RunFacts
<1>6. TaskKnown(phase, status[r], thread[r], rows[r], e, token[r], ran[r], told[r])
  BY <1>1, <1>3, <1>4, <1>5 DEF TaskKnown, OnCall
<1>7. TaskKnown(phase, s, thread[r], rows[r], e, token[r], ran[r], told[r])
  BY <1>1, <1>6, TaskMoved
<1>8. PendingKnown(rows[r], e)
  BY DEF PendingKnown
<1>9. ASSUME r \in PlanRuns, ~PlanApproved(rows[r])
      PROVE  PlanKnown(thread[r], rows[r], e, ran[r])
  BY <1>1, <1>3, <1>4, <1>9, RunFacts DEF PlanKnown, Planning
<1>10. ASSUME Undisturbed' PROVE DriveKnown(phase, s, thread[r], rows[r], e, ran[r])
  <2>1. DriveKnown(phase, status[r], thread[r], rows[r], exec[r], ran[r])
    BY <1>10, RunFacts DEF BudgetStep
  <2>2. StatusKnown(phase, s, e)
    BY <1>10 DEF e
  <2>. QED  BY <1>3, <1>4, <1>10, <2>1, <2>2 DEF DriveKnown
<1>11. RunKnown(r, phase, s, thread[r], rows[r], e, token[r], ran[r], told[r])
  BY <1>7, <1>8, <1>9 DEF RunKnown
<1>12. told' = [told EXCEPT ![r] = told[r]] /\ told[r] \in Seq(Terminal) /\ exec[r].pc # "idle"
  BY <1>1, RunFacts DEF Typed, OnCall
<1>. QED  BY <1>2, <1>3, <1>10, <1>11, <1>12, MoveKeeps

LEMMA BeginToolKeeps == ASSUME Inv, NEW r \in RunIds, BeginTool(r) PROVE Inv'
<1>. DEFINE e == [exec[r] EXCEPT !.pc = "tool"]
            n == ran[r]
            m == Append(n, CallOf(r))
            u == thread[r]
<1>1. /\ exec[r].pc = "run" /\ exec[r] \in TaskType /\ phase = "up" /\ Typed
      /\ Quiet /\ UNCHANGED <<tables, told>> /\ status[r] # "none"
      /\ ~exec[r].parked /\ exec[r].i \in Nat /\ exec[r].i \in DOMAIN u.turn
      /\ u \in ThreadType /\ rows[r] \in Seq(ApprovalType) /\ KindOf(r) = u.turn[exec[r].i]
      /\ CallOf(r) = CallIn(u, exec[r]) /\ CallOf(r) \in CallType /\ CallOf(r).kind = KindOf(r)
  BY CallFactsOf DEF BeginTool, At, OnCall
<1>2. /\ exec' = [exec EXCEPT ![r] = e] /\ BudgetStep /\ "tool" \in Pcs
      /\ (Undisturbed' => Undisturbed) /\ n \in Seq(CallType)
      /\ ran' = [ran EXCEPT ![r] = m]
  BY <1>1, BudgetKept, RunFacts DEF BeginTool, Go, NoFault, BudgetStep, Pcs, Typed
<1>3. e \in TaskType /\ e.pc = "tool" /\ SameTask(e, exec[r])
  BY <1>1, <1>2, GoFacts
<1>4. /\ m \in Seq(CallType) /\ DOMAIN m = DOMAIN n \cup {Len(n) + 1}
      /\ m[Len(n) + 1] = CallOf(r) /\ \A j \in DOMAIN n : m[j] = n[j]
      /\ Len(n) + 1 \notin DOMAIN n
  BY <1>1, <1>2
<1>. HIDE DEF e, m
<1>5. e.i = exec[r].i /\ e.row = exec[r].row /\ ~e.parked /\ e.asked = exec[r].asked
  BY <1>1, <1>3 DEF SameTask
<1>6. TaskKnown(phase, status[r], u, rows[r], e, token[r], m, told[r])
  <2>1. TaskKnown(phase, status[r], u, rows[r], exec[r], token[r], n, told[r])
    BY RunFacts
  <2>. QED  BY <1>1, <1>3, <1>5, <2>1 DEF TaskKnown, OnCall
<1>7. PendingKnown(rows[r], e)
  BY <1>1, RunFacts DEF PendingKnown
<1>8. ASSUME r \in PlanRuns, ~PlanApproved(rows[r])
      PROVE  PlanKnown(u, rows[r], e, m)
  <2>1. PlanKnown(u, rows[r], exec[r], n)
    BY <1>8, RunFacts
  <2>2. KindOf(r) = "read" /\ Planning(rows[r], exec[r])
    BY <1>1, <2>1 DEF PlanKnown
  <2>3. \A j \in DOMAIN m : m[j].kind = "read"
    BY <1>1, <1>4, <2>1, <2>2 DEF PlanKnown
  <2>. QED  BY <1>1, <1>3, <1>5, <2>1, <2>2, <2>3 DEF PlanKnown, Planning, SameTask
<1>9. ASSUME Undisturbed' PROVE DriveKnown(phase, status[r], u, rows[r], e, m)
  <2>1. DriveKnown(phase, status[r], u, rows[r], exec[r], n)
    BY <1>2, <1>9, RunFacts
  <2>2. UpTo(u, exec[r].i, exec[r].i, n)
    BY <1>1, <2>1 DEF DriveKnown
  <2>3. u.n \in Nat /\ CallOf(r).n = u.n /\ CallOf(r).i = exec[r].i
    BY <1>1 DEF ThreadType, CallIn
  <2>4. \A j \in DOMAIN n : n[j] # CallOf(r) /\ n[j].i \in Nat /\ n[j].n \in Nat
    <3>1. TAKE j \in DOMAIN n
    <3>2. n[j].i \in Nat /\ n[j].n \in Nat
      BY <1>2, CallFacts
    <3>. QED  BY <1>1, <2>2, <2>3, <3>2 DEF UpTo
  <2>5. RanOnce(m)
    BY <1>4, <2>1, <2>4 DEF RanOnce, DriveKnown
  <2>6. RanAllowed(rows[r], m)
    <3>1. KindOf(r) \in {"gated", "module"} => ApprovedFor(rows[r], CallOf(r))
      BY <1>1, <2>1 DEF DriveKnown
    <3>. QED  BY <1>1, <1>4, <2>1, <3>1 DEF RanAllowed, DriveKnown
  <2>7. \A j \in DOMAIN m : m[j].n <= u.n
    BY <1>4, <2>1, <2>3 DEF DriveKnown
  <2>8. UpTo(u, e.i, e.i + 1, m)
    <3>1. UpTo(u, exec[r].i, exec[r].i + 1, n)
      BY <1>1, <1>2, <2>2, UpToNext
    <3>2. ASSUME NEW j \in DOMAIN m, m[j].n = u.n PROVE m[j].i < exec[r].i + 1
      <4>1. CASE j \in DOMAIN n
        BY <1>4, <3>1, <3>2, <4>1 DEF UpTo
      <4>2. CASE j = Len(n) + 1
        BY <1>1, <1>4, <2>3, <4>2
      <4>. QED  BY <1>4, <4>1, <4>2
    <3>. QED  BY <1>5, <3>1, <3>2 DEF UpTo
  <2>9. StatusKnown(phase, status[r], e)
    BY <1>1, <1>3, <1>5, <2>1 DEF DriveKnown, StatusKnown
  <2>. QED  BY <1>1, <1>3, <1>5, <2>1, <2>5, <2>6, <2>7, <2>8, <2>9 DEF DriveKnown
<1>10. RunKnown(r, phase, status[r], u, rows[r], e, token[r], m, told[r])
  BY <1>6, <1>7, <1>8, RunFacts DEF RunKnown
<1>11. /\ Wrote(r, status[r], u, rows[r], e, m, told[r])
       /\ ValuesTyped(status[r], u, rows[r], e, m, told[r])
       /\ Grown(rows[r], rows[r])
  BY <1>1, <1>2, <1>3, <1>4, RunFacts DEF Typed, Wrote, ValuesTyped, Grown, tables
<1>. QED  BY <1>1, <1>2, <1>9, <1>10, <1>11, TaskStepKeeps

LEMMA StaleGrantKeeps == ASSUME Inv, NEW r \in RunIds, StaleGrant(r) PROVE Inv'
<1>1. /\ exec[r].pc = "run" /\ exec[r].pc \in OnCall /\ exec[r] \in TaskType /\ phase = "up"
      /\ Typed /\ Quiet /\ UNCHANGED <<thread, rows, ran, told>> /\ status[r] # "none"
      /\ ~exec[r].parked /\ exec[r].i \in Nat /\ KindOf(r) = "module"
      /\ KindOf(r) = thread[r].turn[exec[r].i] /\ exec[r].rounds \in Nat
      /\ ran[r] \in Seq(CallType)
  BY CallFactsOf, RunFacts, TaskFacts DEF StaleGrant, At, OnCall
<1>2. \A j \in DOMAIN rows[r] : ~IsPending(rows[r], j)
  BY <1>1, RunFacts DEF PendingKnown
<1>3. ~(r \in PlanRuns /\ ~PlanApproved(rows[r]))
  BY <1>1, RunFacts DEF PlanKnown
<1>4. Undisturbed => /\ UpTo(thread[r], exec[r].i, exec[r].i, ran[r])
                     /\ UpTo(thread[r], exec[r].i, exec[r].i + 1, ran[r])
                     /\ \/ status[r] \in Terminal
                        \/ status[r] = IF exec[r].asked THEN "awaiting" ELSE "running"
  BY <1>1, RunFacts, UpToNext DEF DriveKnown, StatusKnown
<1>5. ASSUME NEW x \in TaskType, NEW s \in Status, NEW l \in {"gate", "back"}, Go(r, x, l),
             x.i = exec[r].i, x.row = exec[r].row, ~x.parked, x.asked,
             status' = [status EXCEPT ![r] = s], s # "none", EndKnown(s, told[r]), BudgetStep,
             Undisturbed' => s = "awaiting" \/ s \in Terminal
      PROVE  Inv'
  <2>. DEFINE e == [x EXCEPT !.pc = l]
  <2>1. l \in Pcs
    BY DEF Pcs
  <2>2. e.pc = l /\ e.asked
    BY <1>5, <2>1, GoFacts DEF SameTask
  <2>. HIDE DEF e
  <2>3. Undisturbed' => StatusKnown(phase, s, e)
    BY <1>5, <2>2 DEF StatusKnown
  <2>4. Undisturbed' => Undisturbed
    BY <1>5 DEF BudgetStep
  <2>. QED  BY <1>1, <1>2, <1>3, <1>4, <1>5, <2>3, <2>4, OnwardKeeps DEF e
<1>6. CASE exec[r].asked
  <2>. DEFINE x == [exec[r] EXCEPT !.rounds = @ + 1]
              y == [exec[r] EXCEPT !.allowed = FALSE]
  <2>1. /\ x \in TaskType /\ x.i = exec[r].i /\ x.row = exec[r].row /\ ~x.parked /\ x.asked
        /\ y \in TaskType /\ y.i = exec[r].i /\ y.row = exec[r].row /\ ~y.parked /\ y.asked
    <3>1. exec[r].rounds + 1 \in Nat
      BY <1>1
    <3>2. x \in TaskType /\ x.i = exec[r].i /\ x.row = exec[r].row /\ ~x.parked /\ x.asked
      BY <1>1, <1>6, <3>1 DEF TaskType
    <3>3. y \in TaskType /\ y.i = exec[r].i /\ y.row = exec[r].row /\ ~y.parked /\ y.asked
      BY <1>1, <1>6 DEF TaskType
    <3>. QED  BY <3>2, <3>3
  <2>2. /\ Go(r, x, "gate") \/ Go(r, y, "back")
        /\ NoFault /\ UNCHANGED status
    BY <1>6 DEF StaleGrant
  <2>. HIDE DEF x, y
  <2>3. /\ status[r] \in Status /\ status' = [status EXCEPT ![r] = status[r]]
        /\ EndKnown(status[r], told[r]) /\ BudgetStep /\ (Undisturbed' => Undisturbed)
    BY <1>1, <2>2, RunFacts, BudgetKept DEF Typed, BudgetStep
  <2>4. Undisturbed' => status[r] = "awaiting" \/ status[r] \in Terminal
    BY <1>4, <1>6, <2>3
  <2>. QED  BY <1>1, <1>5, <2>1, <2>2, <2>3, <2>4
<1>7. CASE ~exec[r].asked
  <2>. DEFINE x == [exec[r] EXCEPT !.asked = TRUE]
  <2>1. x \in TaskType /\ x.i = exec[r].i /\ x.row = exec[r].row /\ ~x.parked /\ x.asked
    BY <1>1 DEF TaskType
  <2>2. Go(r, x, "gate") /\ Move(r, "awaiting")
    BY <1>7 DEF StaleGrant
  <2>. HIDE DEF x
  <2>3. /\ BudgetStep
        /\ \E s \in Status :
              /\ status' = [status EXCEPT ![r] = s] /\ s # "none" /\ EndKnown(s, told[r])
              /\ s = status[r] \/ s = "awaiting"
              /\ (Undisturbed' /\ Legal(status[r], "awaiting") => s = "awaiting")
    BY <1>1, <2>2, MoveFacts
  <2>4. PICK s \in Status :
              /\ status' = [status EXCEPT ![r] = s] /\ s # "none" /\ EndKnown(s, told[r])
              /\ s = status[r] \/ s = "awaiting"
              /\ (Undisturbed' /\ Legal(status[r], "awaiting") => s = "awaiting")
    BY <2>3
  <2>5. Undisturbed' => s = "awaiting" \/ s \in Terminal
    BY <1>4, <1>7, <2>3, <2>4 DEF Legal, BudgetStep
  <2>. QED  BY <1>5, <2>1, <2>2, <2>3, <2>4, <2>5
<1>. QED  BY <1>6, <1>7

LEMMA EndToolKeeps == ASSUME Inv, NEW r \in RunIds, EndTool(r) PROVE Inv'
<1>. DEFINE x == [exec[r] EXCEPT !.allowed = TRUE]
            e == [x EXCEPT !.pc = "back"]
<1>1. /\ exec[r].pc = "tool" /\ exec[r].pc \in OnCall /\ exec[r] \in TaskType /\ phase = "up"
      /\ Typed /\ Quiet /\ UNCHANGED <<tables, ran, told>> /\ status[r] # "none"
      /\ ~exec[r].parked /\ KindOf(r) = thread[r].turn[exec[r].i] /\ "back" \in Pcs
      /\ status[r] \in Status /\ EndKnown(status[r], told[r])
  BY CallFactsOf, RunFacts DEF EndTool, At, OnCall, Pcs
<1>2. Go(r, x, "back") /\ BudgetStep
  BY <1>1, BudgetKept DEF EndTool, NoFault
<1>3. /\ x \in TaskType /\ x.i = exec[r].i /\ x.row = exec[r].row /\ ~x.parked
      /\ x.asked = exec[r].asked /\ x.plan = exec[r].plan /\ x.resumed = exec[r].resumed
  BY <1>1 DEF TaskType
<1>. HIDE DEF x
<1>4. e.pc = "back" /\ e.asked = exec[r].asked
  BY <1>1, <1>3, GoFacts DEF SameTask
<1>. HIDE DEF e
<1>5. \A j \in DOMAIN rows[r] : ~IsPending(rows[r], j)
  BY <1>1, RunFacts DEF PendingKnown
<1>6. r \in PlanRuns /\ ~PlanApproved(rows[r]) => Planning(rows[r], x)
  BY <1>1, <1>3, RunFacts DEF PlanKnown, Planning
<1>7. Undisturbed' => /\ StatusKnown(phase, status[r], e)
                      /\ UpTo(thread[r], exec[r].i, exec[r].i + 1, ran[r])
  BY <1>1, <1>2, <1>4, RunFacts DEF DriveKnown, StatusKnown, BudgetStep
<1>8. status' = [status EXCEPT ![r] = status[r]] /\ UNCHANGED <<thread, rows, ran, told>>
  BY <1>1 DEF Typed, tables
<1>. QED  BY <1>1, <1>2, <1>3, <1>5, <1>6, <1>7, <1>8, OnwardKeeps DEF e

LEMMA BackKeeps == ASSUME Inv, NEW r \in RunIds, Back(r) PROVE Inv'
<1>. DEFINE l == IF KindOf(r) = "plan" /\ ~exec[r].allowed THEN "reject" ELSE "answer"
            e == [exec[r] EXCEPT !.pc = l]
<1>1. /\ exec[r].pc = "back" /\ exec[r].pc \in OnCall /\ exec[r] \in TaskType /\ phase = "up"
      /\ Typed /\ Quiet /\ UNCHANGED <<thread, rows, ran, told>> /\ status[r] # "none"
      /\ ~exec[r].parked /\ KindOf(r) = thread[r].turn[exec[r].i] /\ l \in Pcs
      /\ status[r] \in Status /\ EndKnown(status[r], told[r])
  BY CallFactsOf, RunFacts DEF Back, At, OnCall, Pcs
<1>2. Go(r, exec[r], l) /\ l \in {"answer", "reject"}
  BY DEF Back
<1>3. l = "reject" \/ ~(KindOf(r) = "plan" /\ ~exec[r].allowed)
  OBVIOUS
<1>. HIDE DEF l
<1>4. e.pc = l
  BY <1>1, GoFacts
<1>. HIDE DEF e
<1>5. \A j \in DOMAIN rows[r] : ~IsPending(rows[r], j)
  BY <1>1, RunFacts DEF PendingKnown
<1>6. r \in PlanRuns /\ ~PlanApproved(rows[r]) /\ l = "answer" => Planning(rows[r], exec[r])
  BY <1>1, <1>3, RunFacts DEF PlanKnown
<1>7. Undisturbed => /\ UpTo(thread[r], exec[r].i, exec[r].i + 1, ran[r])
                     /\ \/ status[r] \in Terminal
                        \/ status[r] = IF exec[r].asked THEN "awaiting" ELSE "running"
  BY <1>1, RunFacts DEF DriveKnown, StatusKnown
<1>8. ASSUME NEW s \in Status, status' = [status EXCEPT ![r] = s], s # "none",
             EndKnown(s, told[r]), BudgetStep, Undisturbed' => s = "running" \/ s \in Terminal
      PROVE  Inv'
  <2>1. Undisturbed' => StatusKnown(phase, s, e)
    BY <1>2, <1>4, <1>8 DEF StatusKnown
  <2>2. Undisturbed' => Undisturbed
    BY <1>8 DEF BudgetStep
  <2>. QED  BY <1>1, <1>2, <1>5, <1>6, <1>7, <1>8, <2>1, <2>2, OnwardKeeps DEF e
<1>9. CASE exec[r].asked
  <2>1. /\ BudgetStep
        /\ \E s \in Status :
              /\ status' = [status EXCEPT ![r] = s] /\ s # "none" /\ EndKnown(s, told[r])
              /\ s = status[r] \/ s = "running"
              /\ (Undisturbed' /\ Legal(status[r], "running") => s = "running")
    BY <1>1, <1>9, MoveFacts DEF Back
  <2>2. PICK s \in Status :
              /\ status' = [status EXCEPT ![r] = s] /\ s # "none" /\ EndKnown(s, told[r])
              /\ s = status[r] \/ s = "running"
              /\ (Undisturbed' /\ Legal(status[r], "running") => s = "running")
    BY <2>1
  <2>3. Undisturbed' => s = "running" \/ s \in Terminal
    BY <1>7, <1>9, <2>1, <2>2 DEF Legal, BudgetStep
  <2>. QED  BY <1>8, <2>1, <2>2, <2>3
<1>10. CASE ~exec[r].asked
  <2>1. /\ status' = [status EXCEPT ![r] = status[r]] /\ BudgetStep
    BY <1>1, <1>10, BudgetKept DEF Back, Typed
  <2>2. Undisturbed' => status[r] = "running" \/ status[r] \in Terminal
    BY <1>7, <1>10, <2>1 DEF BudgetStep
  <2>. QED  BY <1>1, <1>8, <2>1, <2>2
<1>. QED  BY <1>9, <1>10

\* The current call is among the answered ones.
AnsweredThread(t, i) == [t EXCEPT !.done = @ \cup {i}]

LEMMA AnsweredFacts ==
    ASSUME Inv, NEW r \in RunIds, exec[r].pc \in OnCall, Answered(r),
           NEW t, t = AnsweredThread(thread[r], exec[r].i)
    PROVE  /\ thread' = [thread EXCEPT ![r] = t] /\ t \in ThreadType
           /\ t.turn = thread[r].turn /\ t.n = thread[r].n
           /\ t.done = thread[r].done \cup {exec[r].i} /\ t.done \subseteq DOMAIN t.turn
<1>1. /\ thread \in [RunIds -> ThreadType] /\ thread[r] \in ThreadType
      /\ exec[r].i \in Nat /\ exec[r].i \in DOMAIN thread[r].turn
      /\ thread[r].done \subseteq DOMAIN thread[r].turn
  BY CallFactsOf, RunFacts DEF TaskKnown, Typed
<1>2. thread' = [thread EXCEPT ![r] = t]
  BY <1>1 DEF Answered, AnsweredThread
<1>3. thread[r].done \cup {exec[r].i} \in SUBSET Nat
  BY <1>1 DEF ThreadType
<1>4. /\ t \in ThreadType /\ t.turn = thread[r].turn /\ t.n = thread[r].n
      /\ t.done = thread[r].done \cup {exec[r].i}
  BY <1>1, <1>3 DEF ThreadType, AnsweredThread
<1>. QED  BY <1>1, <1>2, <1>4

LEMMA AnswerKeeps == ASSUME Inv, NEW r \in RunIds, Answer(r) PROVE Inv'
<1>1. /\ exec[r].pc = "answer" /\ exec[r].pc \in OnCall /\ exec[r] \in TaskType /\ phase = "up"
      /\ Typed /\ Quiet /\ UNCHANGED <<status, rows, ran, told>> /\ status[r] # "none"
      /\ ~exec[r].parked /\ exec[r].i \in Nat /\ exec[r].i \in DOMAIN thread[r].turn
      /\ thread[r] \in ThreadType /\ "failed" \in Terminal /\ "calls" \in Pcs
  BY CallFactsOf DEF Answer, At, OnCall, Terminal, Pcs
<1>2. CASE Finish(r, "failed") /\ Fault /\ UNCHANGED thread
  <2>1. BudgetStep /\ ~Undisturbed'
    BY <1>1, <1>2, BudgetKept
  <2>. QED  BY <1>1, <1>2, <2>1, FinishKeeps DEF tables
<1>3. CASE Answered(r) /\ NoFault
           /\ Go(r, [exec[r] EXCEPT !.i = @ + 1, !.asked = FALSE, !.pre = FALSE], "calls")
  <2>. DEFINE t == AnsweredThread(thread[r], exec[r].i)
              y == [exec[r] EXCEPT !.i = @ + 1]
              z == [y EXCEPT !.asked = FALSE]
              x == [z EXCEPT !.pre = FALSE]
              e == [x EXCEPT !.pc = "calls"]
  <2>1. /\ thread' = [thread EXCEPT ![r] = t] /\ t \in ThreadType
        /\ t.turn = thread[r].turn /\ t.n = thread[r].n
        /\ t.done = thread[r].done \cup {exec[r].i} /\ t.done \subseteq DOMAIN t.turn
    BY <1>1, <1>3, AnsweredFacts
  <2>2. exec' = [exec EXCEPT ![r] = e] /\ BudgetStep /\ (Undisturbed' => Undisturbed)
    BY <1>1, <1>3, BudgetKept DEF Go, BudgetStep
  <2>3. /\ y \in TaskType /\ y.pc = "answer" /\ y.i = exec[r].i + 1 /\ y.row = exec[r].row
        /\ ~y.parked /\ y.plan = exec[r].plan /\ y.resumed = exec[r].resumed
    <3>1. exec[r].i + 1 \in Nat
      BY <1>1
    <3>. QED  BY <1>1, <3>1 DEF TaskType
  <2>. HIDE DEF t, y
  <2>4. /\ z \in TaskType /\ z.pc = "answer" /\ z.i = exec[r].i + 1 /\ z.row = exec[r].row
        /\ ~z.parked /\ z.plan = exec[r].plan /\ z.resumed = exec[r].resumed /\ ~z.asked
    BY <2>3 DEF TaskType
  <2>. HIDE DEF z
  <2>5. /\ x \in TaskType /\ x.pc = "answer" /\ x.i = exec[r].i + 1 /\ x.row = exec[r].row
        /\ ~x.parked /\ x.plan = exec[r].plan /\ x.resumed = exec[r].resumed /\ ~x.asked
    BY <2>4 DEF TaskType
  <2>. HIDE DEF x
  <2>6. /\ e \in TaskType /\ e.pc = "calls" /\ e.i = exec[r].i + 1 /\ e.row = exec[r].row
        /\ ~e.parked /\ e.plan = exec[r].plan /\ e.resumed = exec[r].resumed /\ ~e.asked
    BY <1>1, <2>5, GoFacts DEF SameTask
  <2>. HIDE DEF e
  <2>7. TaskKnown(phase, status[r], t, rows[r], e, token[r], ran[r], told[r])
    BY <1>1, <2>1, <2>6, RunFacts DEF TaskKnown, OnCall
  <2>8. PendingKnown(rows[r], e)
    BY <1>1, RunFacts DEF PendingKnown
  <2>9. ASSUME r \in PlanRuns, ~PlanApproved(rows[r])
        PROVE  PlanKnown(t, rows[r], e, ran[r])
    BY <1>1, <2>1, <2>6, <2>9, RunFacts DEF PlanKnown, Planning
  <2>10. ASSUME Undisturbed' PROVE DriveKnown(phase, status[r], t, rows[r], e, ran[r])
    <3>1. DriveKnown(phase, status[r], thread[r], rows[r], exec[r], ran[r])
      BY <2>2, <2>10, RunFacts
    <3>2. UpTo(thread[r], exec[r].i, exec[r].i + 1, ran[r])
      BY <1>1, <3>1 DEF DriveKnown
    <3>3. UpTo(t, e.i, e.i, ran[r])
      <4>1. exec[r].i >= 1 /\ (1..(exec[r].i - 1)) \cup {exec[r].i} = 1..exec[r].i
        BY <1>1 DEF ThreadType
      <4>. QED  BY <1>1, <2>1, <2>6, <3>2, <4>1 DEF UpTo
    <3>4. status[r] = "running" \/ status[r] \in Terminal
      BY <1>1, <3>1 DEF DriveKnown, StatusKnown
    <3>. QED  BY <1>1, <2>1, <2>6, <3>1, <3>3, <3>4 DEF DriveKnown, StatusKnown
  <2>11. RunKnown(r, phase, status[r], t, rows[r], e, token[r], ran[r], told[r])
    BY <2>7, <2>8, <2>9, RunFacts DEF RunKnown
  <2>12. /\ Wrote(r, status[r], t, rows[r], e, ran[r], told[r])
         /\ ValuesTyped(status[r], t, rows[r], e, ran[r], told[r])
         /\ Grown(rows[r], rows[r])
    BY <1>1, <2>1, <2>2, <2>6, RunFacts DEF Typed, Wrote, ValuesTyped, Grown
  <2>. QED  BY <1>1, <2>1, <2>2, <2>10, <2>11, <2>12, TaskStepKeeps
<1>. QED  BY <1>2, <1>3 DEF Answer

LEMMA RejectKeeps == ASSUME Inv, NEW r \in RunIds, Reject(r) PROVE Inv'
<1>. DEFINE e == Finished(exec[r], "completed")
<1>1. /\ exec[r].pc = "reject" /\ exec[r].pc \in OnCall /\ exec[r] \in TaskType /\ phase = "up"
      /\ Typed /\ Quiet /\ UNCHANGED <<status, rows, ran, told>> /\ Finish(r, "completed")
      /\ "completed" \in Terminal /\ status[r] \in Status
  BY CallFactsOf, RunFacts DEF Reject, At, OnCall, Terminal
<1>2. CASE Fault /\ UNCHANGED thread
  <2>1. BudgetStep /\ ~Undisturbed'
    BY <1>1, <1>2, BudgetKept
  <2>. QED  BY <1>1, <1>2, <2>1, FinishKeeps DEF tables
<1>3. CASE Answered(r) /\ NoFault
  <2>. DEFINE t == AnsweredThread(thread[r], exec[r].i)
  <2>1. /\ thread' = [thread EXCEPT ![r] = t] /\ t \in ThreadType
        /\ t.turn = thread[r].turn /\ t.n = thread[r].n /\ t.done \subseteq DOMAIN t.turn
    BY <1>1, <1>3, AnsweredFacts
  <2>2. /\ exec' = [exec EXCEPT ![r] = e] /\ BudgetStep /\ (Undisturbed' => Undisturbed)
    BY <1>1, <1>3, BudgetKept DEF Finish, Finished, Go, BudgetStep
  <2>3. e.pc = "finish" /\ e.to = "completed"
    BY <1>1, FinishFacts
  <2>. HIDE DEF t, e
  <2>4. Undisturbed' => Legal(status[r], "completed") \/ status[r] \in Terminal
    BY <1>1, <2>2, RunFacts DEF Legal, DriveKnown, StatusKnown
  <2>5. /\ e \in TaskType
        /\ TaskKnown(phase, status[r], thread[r], rows[r], e, token[r], ran[r], told[r])
        /\ PendingKnown(rows[r], e)
        /\ r \in PlanRuns /\ ~PlanApproved(rows[r]) =>
              PlanKnown(thread[r], rows[r], e, ran[r])
        /\ Undisturbed /\ (Legal(status[r], "completed") \/ status[r] \in Terminal) =>
              DriveKnown(phase, status[r], thread[r], rows[r], e, ran[r])
    BY <1>1, AtFinish DEF e
  <2>6. TaskKnown(phase, status[r], t, rows[r], e, token[r], ran[r], told[r])
    BY <2>1, <2>3, <2>5 DEF TaskKnown, OnCall
  <2>7. ASSUME r \in PlanRuns, ~PlanApproved(rows[r])
        PROVE  PlanKnown(t, rows[r], e, ran[r])
    BY <2>3, <2>5, <2>7 DEF PlanKnown
  <2>8. ASSUME Undisturbed' PROVE DriveKnown(phase, status[r], t, rows[r], e, ran[r])
    BY <2>1, <2>2, <2>3, <2>4, <2>5, <2>8 DEF DriveKnown
  <2>9. RunKnown(r, phase, status[r], t, rows[r], e, token[r], ran[r], told[r])
    BY <2>5, <2>6, <2>7, RunFacts DEF RunKnown
  <2>10. /\ Wrote(r, status[r], t, rows[r], e, ran[r], told[r])
         /\ ValuesTyped(status[r], t, rows[r], e, ran[r], told[r])
         /\ Grown(rows[r], rows[r])
    BY <1>1, <2>1, <2>2, <2>5, RunFacts DEF Typed, Wrote, ValuesTyped, Grown
  <2>. QED  BY <1>1, <2>1, <2>2, <2>8, <2>9, <2>10, TaskStepKeeps
<1>. QED  BY <1>2, <1>3 DEF Reject

-----------------------------------------------------------------------------
(* A resumed task.                                                         *)

\* Of a non-empty set of positions Min is the first.
LEMMA FirstPosition ==
    ASSUME NEW S \in SUBSET Nat, S # {}
    PROVE  Min(S) \in S /\ \A j \in S : Min(S) <= j
<1>1. PICK x \in S : \A y \in S : ~(<<y, x>> \in OpToRel(<, Nat))
  BY NatLessThanWellFounded, WFMin
<1>2. \A y \in S : x <= y
  <2>1. TAKE y \in S
  <2>2. y \in Nat /\ x \in Nat
    OBVIOUS
  <2>3. ~(y < x)
    BY <1>1, <2>2 DEF OpToRel
  <2>. QED  BY <2>2, <2>3
<1>. QED  BY <1>2 DEF Min

\* The first unanswered call of a thread, and of one that is parked at c.
LEMMA FirstUnanswered ==
    ASSUME NEW t \in ThreadType, Unanswered(t) # {}
    PROVE  /\ Min(Unanswered(t)) \in Nat /\ Min(Unanswered(t)) \in DOMAIN t.turn
           /\ \A c \in CallType : \A n : ParkedAt(t, c, n) => Min(Unanswered(t)) = c.i
<1>1. t.turn \in Seq(Kind) /\ Unanswered(t) \in SUBSET Nat
  BY DEF ThreadType, Unanswered
<1>2. /\ Min(Unanswered(t)) \in Unanswered(t)
      /\ \A j \in Unanswered(t) : Min(Unanswered(t)) <= j
  BY <1>1, FirstPosition
<1>3. Min(Unanswered(t)) \in Nat /\ Min(Unanswered(t)) \in DOMAIN t.turn
  BY <1>1, <1>2 DEF Unanswered
<1>4. ASSUME NEW c \in CallType, NEW n, ParkedAt(t, c, n) PROVE Min(Unanswered(t)) = c.i
  <2>1. c.i \in DOMAIN t.turn /\ c.i \in Nat /\ t.done = 1..(c.i - 1)
    BY <1>4 DEF ParkedAt, UpTo, CallType
  <2>2. c.i \in Unanswered(t) /\ \A j \in Unanswered(t) : c.i <= j
    BY <1>1, <2>1 DEF Unanswered
  <2>. QED  BY <1>2, <1>3, <2>1, <2>2
<1>. QED  BY <1>3, <1>4

\* A call is known by its turn, its place and its kind.
LEMMA SameCall ==
    ASSUME NEW t, NEW c \in CallType, NEW e, c.n = t.n, c.i = e.i, t.turn[e.i] = c.kind
    PROVE  c = CallIn(t, e)
  BY DEF CallType, CallIn

LEMMA AssessKeeps == ASSUME Inv, NEW r \in RunIds, Assess(r) PROVE Inv'
<1>. DEFINE u == exec[r].snap
            c == rows[r][exec[r].row].call
            i == Min(Unanswered(u))
            x == [exec[r] EXCEPT !.resumed = TRUE]
            y == [x EXCEPT !.parked = TRUE]
            z == [y EXCEPT !.i = i]
            e == [z EXCEPT !.pc = "enter"]
<1>1. /\ exec[r].pc = "assess" /\ exec[r] \in TaskType /\ phase = "up" /\ status[r] # "none"
      /\ Typed /\ Quiet /\ UNCHANGED <<tables, ran, told>> /\ u \in ThreadType
      /\ rows[r] \in Seq(ApprovalType) /\ exec[r].row \in DOMAIN rows[r] /\ c \in CallType
      /\ ~exec[r].asked /\ "cancelled" \in Terminal /\ "enter" \in Pcs /\ thread[r] \in ThreadType
  BY RunFacts, Driven, TaskFacts, RowFacts DEF Assess, At, Inv, TaskKnown, Terminal, Pcs
<1>2. CASE Finish(r, "cancelled") /\ (NoFault \/ Fault)
  <2>1. BudgetStep /\ (Undisturbed' => Undisturbed)
    BY <1>1, <1>2, BudgetKept DEF BudgetStep
  <2>2. Undisturbed' => Legal(status[r], "cancelled") \/ status[r] \in Terminal
    BY <1>1, <2>1, RunFacts DEF Legal, DriveKnown, StatusKnown
  <2>. QED  BY <1>1, <1>2, <2>1, <2>2, FinishKeeps
<1>3. CASE /\ Restorable("awaiting", u, rows[r][exec[r].row]) /\ NoFault
           /\ Go(r, [exec[r] EXCEPT !.resumed = TRUE, !.parked = TRUE, !.i = i], "enter")
  <2>1. Unanswered(u) # {} /\ u.turn[i] = c.kind
    BY <1>3 DEF Restorable, Suspended
  <2>2. /\ i \in Nat /\ i \in DOMAIN u.turn /\ i >= 1
        /\ \A d \in CallType : \A n : ParkedAt(u, d, n) => i = d.i
    BY <1>1, <2>1, FirstUnanswered DEF ThreadType
  <2>3. exec' = [exec EXCEPT ![r] = e] /\ BudgetStep /\ (Undisturbed' => Undisturbed)
    BY <1>1, <1>3, BudgetKept DEF Go, BudgetStep
  <2>. HIDE DEF i
  <2>4. x \in TaskType /\ x.resumed /\ x.row = exec[r].row /\ ~x.asked
    BY <1>1 DEF TaskType
  <2>. HIDE DEF x
  <2>5. y \in TaskType /\ y.resumed /\ y.parked /\ y.row = exec[r].row /\ ~y.asked
    BY <2>4 DEF TaskType
  <2>. HIDE DEF y
  <2>6. z \in TaskType /\ z.resumed /\ z.parked /\ z.i = i /\ z.row = exec[r].row /\ ~z.asked
    BY <2>2, <2>5 DEF TaskType
  <2>. HIDE DEF z
  <2>7. /\ e \in TaskType /\ e.pc = "enter" /\ e.resumed /\ e.parked /\ e.i = i
        /\ e.row = exec[r].row /\ ~e.asked
    BY <1>1, <2>6, GoFacts DEF SameTask
  <2>. HIDE DEF e
  <2>8. TaskKnown(phase, status[r], thread[r], rows[r], e, token[r], ran[r], told[r])
    BY <1>1, <2>2, <2>7, RunFacts DEF TaskKnown, OnCall
  <2>9. PendingKnown(rows[r], e)
    BY <1>1, RunFacts DEF PendingKnown
  <2>10. ASSUME r \in PlanRuns, ~PlanApproved(rows[r])
         PROVE  PlanKnown(thread[r], rows[r], e, ran[r])
    <3>1. PlanKnown(thread[r], rows[r], exec[r], ran[r])
      BY <2>10, RunFacts
    <3>2. u.turn = thread[r].turn /\ c.kind = "plan"
      BY <1>1, <3>1 DEF PlanKnown
    <3>. QED  BY <2>1, <2>2, <2>7, <3>1, <3>2 DEF PlanKnown
  <2>11. ASSUME Undisturbed' PROVE DriveKnown(phase, status[r], thread[r], rows[r], e, ran[r])
    <3>1. DriveKnown(phase, status[r], thread[r], rows[r], exec[r], ran[r])
      BY <2>3, <2>11, RunFacts
    <3>2. status[r] = "awaiting" \/ status[r] \in Terminal
      BY <1>1, <3>1 DEF DriveKnown, StatusKnown
    <3>3. ASSUME status[r] = "awaiting"
          PROVE  c = CallIn(thread[r], e) /\ ParkedAt(thread[r], c, ran[r])
      <4>1. u = thread[r] /\ ParkedAt(thread[r], c, ran[r])
        BY <1>1, <3>1, <3>3 DEF DriveKnown
      <4>2. i = c.i /\ c.n = thread[r].n
        BY <1>1, <2>2, <4>1 DEF ParkedAt
      <4>3. c \in CallType /\ c.n = thread[r].n /\ c.i = e.i /\ thread[r].turn[e.i] = c.kind
        BY <1>1, <2>1, <2>7, <4>1, <4>2
      <4>. HIDE DEF c
      <4>4. c = CallIn(thread[r], e)
        BY <4>3, SameCall
      <4>. QED  BY <4>1, <4>4 DEF c
    <3>. QED  BY <1>1, <2>7, <3>1, <3>2, <3>3 DEF DriveKnown, StatusKnown
  <2>. QED  BY <1>1, <2>3, <2>7, <2>8, <2>9, <2>10, <2>11, PlaceKeeps
<1>. QED  BY <1>2, <1>3 DEF Assess

LEMMA EnterKeeps == ASSUME Inv, NEW r \in RunIds, Enter(r) PROVE Inv'
<1>1. /\ exec[r].pc = "enter" /\ exec[r] \in TaskType /\ phase = "up" /\ status[r] # "none"
      /\ Typed /\ Quiet /\ UNCHANGED <<thread, rows, ran, told>>
      /\ exec[r].parked /\ exec[r].resumed /\ ~exec[r].asked /\ exec[r].i >= 1
      /\ status[r] \in Status /\ EndKnown(status[r], told[r])
      /\ TaskKnown(phase, status[r], thread[r], rows[r], exec[r], token[r], ran[r], told[r])
  BY RunFacts, Driven DEF Enter, At, Inv, TaskKnown
<1>2. Undisturbed => status[r] = "awaiting" \/ status[r] \in Terminal
  BY <1>1, RunFacts DEF DriveKnown, StatusKnown
<1>3. ASSUME NEW x \in TaskType, NEW l \in {"calls", "finish", "end"}, Go(r, x, l),
             SameTask(x, exec[r]), l = "finish" => x.to = "failed",
             NEW s \in Status, s # "none", EndKnown(s, told[r]), BudgetStep,
             status' = [status EXCEPT ![r] = s],
             Undisturbed' => s \in Terminal \/ (s = "running" /\ l # "end"),
             Undisturbed' => status[r] = "awaiting" \/ l = "end"
      PROVE  Inv'
  <2>. DEFINE e == [x EXCEPT !.pc = l]
  <2>1. exec' = [exec EXCEPT ![r] = e] /\ l \in Pcs
    BY <1>3 DEF Go, Pcs
  <2>2. e \in TaskType /\ e.pc = l /\ e.to = x.to /\ SameTask(e, x)
    BY <1>3, <2>1, GoFacts
  <2>. HIDE DEF e
  <2>3. /\ e.i = exec[r].i /\ e.row = exec[r].row /\ e.parked /\ e.resumed /\ ~e.asked
    BY <1>1, <1>3, <2>2 DEF SameTask
  <2>4. TaskKnown(phase, status[r], thread[r], rows[r], e, token[r], ran[r], told[r])
    BY <1>1, <1>3, <2>2, <2>3 DEF TaskKnown, OnCall, Terminal
  <2>5. TaskKnown(phase, s, thread[r], rows[r], e, token[r], ran[r], told[r])
    BY <1>1, <1>3, <2>4, TaskMoved
  <2>6. PendingKnown(rows[r], e)
    BY <1>1, RunFacts DEF PendingKnown
  <2>7. ASSUME r \in PlanRuns, ~PlanApproved(rows[r])
        PROVE  PlanKnown(thread[r], rows[r], e, ran[r])
    BY <1>1, <1>3, <2>2, <2>3, <2>7, RunFacts DEF PlanKnown
  <2>8. ASSUME Undisturbed' PROVE DriveKnown(phase, s, thread[r], rows[r], e, ran[r])
    <3>1. DriveKnown(phase, status[r], thread[r], rows[r], exec[r], ran[r])
      BY <1>3, <2>8, RunFacts DEF BudgetStep
    <3>2. StatusKnown(phase, s, e)
      BY <1>3, <2>2, <2>8 DEF StatusKnown, Legal, Terminal
    <3>3. l # "end" => /\ rows[r][e.row].call = CallIn(thread[r], e)
                       /\ ParkedAt(thread[r], CallIn(thread[r], e), ran[r])
      BY <1>1, <1>3, <2>3, <2>8, <3>1 DEF DriveKnown, CallIn
    <3>4. l # "end" => e.i \in DOMAIN thread[r].turn /\ UpTo(thread[r], e.i, e.i, ran[r])
      BY <3>3 DEF ParkedAt, CallIn
    <3>. QED  BY <1>3, <2>2, <3>1, <3>2, <3>3, <3>4 DEF DriveKnown
  <2>9. RunKnown(r, phase, s, thread[r], rows[r], e, token[r], ran[r], told[r])
    BY <1>3, <2>5, <2>6, <2>7 DEF RunKnown
  <2>10. told' = [told EXCEPT ![r] = told[r]] /\ told[r] \in Seq(Terminal)
    BY <1>1, RunFacts DEF Typed
  <2>. QED  BY <1>1, <1>3, <2>1, <2>2, <2>8, <2>9, <2>10, MoveKeeps
<1>4. CASE ~Legal(status[r], "running")
  <2>1. Go(r, exec[r], "end") /\ NoFault /\ UNCHANGED status
    BY <1>4 DEF Enter
  <2>2. /\ status' = [status EXCEPT ![r] = status[r]] /\ BudgetStep /\ (Undisturbed' => Undisturbed)
    BY <1>1, <2>1, BudgetKept DEF Typed, BudgetStep
  <2>3. Undisturbed' => status[r] \in Terminal
    BY <1>2, <1>4, <2>2 DEF Legal
  <2>. QED  BY <1>1, <1>3, <2>1, <2>2, <2>3 DEF SameTask
<1>5. CASE Legal(status[r], "running")
  <2>1. /\ Move(r, "running")
        /\ \/ Go(r, exec[r], IF status'[r] = "running" THEN "calls" ELSE "end")
           \/ Go(r, [exec[r] EXCEPT !.to = "failed"],
                 IF status'[r] = "running" THEN "finish" ELSE "end")
    BY <1>5 DEF Enter
  <2>2. /\ BudgetStep
        /\ \E s \in Status :
              /\ status' = [status EXCEPT ![r] = s] /\ status'[r] = s
              /\ s # "none" /\ EndKnown(s, told[r])
              /\ (Undisturbed' /\ Legal(status[r], "running") => s = "running")
    BY <1>1, <2>1, MoveFacts
  <2>3. PICK s \in Status :
              /\ status' = [status EXCEPT ![r] = s] /\ status'[r] = s
              /\ s # "none" /\ EndKnown(s, told[r])
              /\ (Undisturbed' /\ Legal(status[r], "running") => s = "running")
    BY <2>2
  <2>4. Undisturbed' => s = "running" /\ status[r] = "awaiting"
    BY <1>2, <1>5, <2>2, <2>3 DEF BudgetStep, Legal, Terminal
  <2>5. CASE Go(r, exec[r], IF status'[r] = "running" THEN "calls" ELSE "end")
    <3>1. CASE s = "running"
      BY <1>1, <1>3, <2>2, <2>3, <2>4, <2>5, <3>1 DEF SameTask
    <3>2. CASE s # "running"
      BY <1>1, <1>3, <2>2, <2>3, <2>4, <2>5, <3>2 DEF SameTask
    <3>. QED  BY <3>1, <3>2
  <2>6. CASE Go(r, [exec[r] EXCEPT !.to = "failed"], IF status'[r] = "running" THEN "finish" ELSE "end")
    <3>. DEFINE x == [exec[r] EXCEPT !.to = "failed"]
    <3>1. x \in TaskType /\ SameTask(x, exec[r]) /\ x.to = "failed"
      BY <1>1 DEF TaskType, SameTask, Terminal
    <3>2. Go(r, x, IF status'[r] = "running" THEN "finish" ELSE "end")
      BY <2>6
    <3>. HIDE DEF x
    <3>3. CASE s = "running"
      BY <1>3, <2>2, <2>3, <2>4, <3>1, <3>2, <3>3
    <3>4. CASE s # "running"
      BY <1>3, <2>2, <2>3, <2>4, <3>1, <3>2, <3>4
    <3>. QED  BY <3>3, <3>4
  <2>. QED  BY <2>1, <2>5, <2>6
<1>. QED  BY <1>4, <1>5

LEMMA SettleParkedKeeps == ASSUME Inv, NEW r \in RunIds, SettleParked(r) PROVE Inv'
<1>. DEFINE y == [exec[r] EXCEPT !.parked = FALSE]
            x == [y EXCEPT !.pre = TRUE]
            s == rows[r][exec[r].row].status
            k == KindOf(r)
<1>1. /\ exec[r].pc = "calls" /\ exec[r].parked /\ exec[r] \in TaskType /\ phase = "up"
      /\ Typed /\ Quiet /\ UNCHANGED <<tables, ran, told, budget>> /\ status[r] # "none"
      /\ exec[r].i <= Len(thread[r].turn) /\ thread[r].turn \in Seq(Kind) /\ exec[r].i \in Nat
      /\ exec[r].i >= 1 /\ ~exec[r].asked /\ exec[r].row \in DOMAIN rows[r]
      /\ "cancelled" \in Terminal /\ ran[r] \in Seq(CallType)
  BY RunFacts, Driven, TaskFacts
     DEF SettleParked, InTurn, At, Inv, ThreadType, TaskKnown, Terminal
<1>2. exec[r].i \in DOMAIN thread[r].turn /\ k = thread[r].turn[exec[r].i]
  BY <1>1 DEF KindOf
<1>3. BudgetStep /\ (Undisturbed' => Undisturbed)
  BY <1>1, BudgetKept DEF NoFault, BudgetStep
<1>4. \/ k = "plan" /\ s # "approved" /\ Go(r, x, "reject")
      \/ k = "plan" /\ s = "approved" /\ Go(r, x, "answer")
      \/ k # "plan" /\ s = "approved" /\ Go(r, x, "run")
      \/ k # "plan" /\ s = "denied" /\ Go(r, x, "answer")
      \/ Finish(r, "cancelled")
  BY DEF SettleParked
<1>. HIDE DEF k
<1>5. y \in TaskType /\ y.i = exec[r].i /\ y.row = exec[r].row /\ ~y.parked /\ ~y.asked
  BY <1>1 DEF TaskType
<1>. HIDE DEF y
<1>6. x \in TaskType /\ x.i = exec[r].i /\ x.row = exec[r].row /\ ~x.parked /\ ~x.asked
  BY <1>5 DEF TaskType
<1>. HIDE DEF x
<1>7. CASE Finish(r, "cancelled")
  <2>1. Undisturbed' => Legal(status[r], "cancelled") \/ status[r] \in Terminal
    BY <1>1, <1>3, RunFacts DEF Legal, DriveKnown, StatusKnown
  <2>. QED  BY <1>1, <1>3, <1>7, <2>1, FinishKeeps
<1>8. ASSUME NEW l \in {"run", "answer", "reject"}, Go(r, x, l),
             l = "run" => k # "plan" /\ s = "approved",
             l = "answer" => k # "plan" \/ s = "approved"
      PROVE  Inv'
  <2>. DEFINE e == [x EXCEPT !.pc = l]
  <2>1. exec' = [exec EXCEPT ![r] = e] /\ l \in Pcs
    BY <1>8 DEF Go, Pcs
  <2>2. /\ e \in TaskType /\ e.pc = l /\ e.i = exec[r].i /\ e.row = exec[r].row
        /\ ~e.parked /\ ~e.asked
    BY <1>6, <2>1, GoFacts DEF SameTask
  <2>. HIDE DEF e
  <2>3. TaskKnown(phase, status[r], thread[r], rows[r], e, token[r], ran[r], told[r])
    BY <1>1, <1>2, <2>2, RunFacts DEF TaskKnown, OnCall
  <2>4. PendingKnown(rows[r], e)
    BY <1>1, RunFacts DEF PendingKnown
  <2>5. ASSUME r \in PlanRuns, ~PlanApproved(rows[r])
        PROVE  PlanKnown(thread[r], rows[r], e, ran[r])
    <3>1. PlanKnown(thread[r], rows[r], exec[r], ran[r])
      BY <2>5, RunFacts
    <3>2. k = "plan"
      BY <1>1, <1>2, <3>1 DEF PlanKnown
    <3>3. s # "approved"
      BY <1>1, <2>5, <3>1 DEF PlanKnown, PlanApproved
    <3>. QED  BY <1>8, <2>2, <3>1, <3>2, <3>3 DEF PlanKnown
  <2>6. ASSUME Undisturbed' PROVE DriveKnown(phase, status[r], thread[r], rows[r], e, ran[r])
    <3>1. DriveKnown(phase, status[r], thread[r], rows[r], exec[r], ran[r])
      BY <1>3, <2>6, RunFacts
    <3>2. UpTo(thread[r], e.i, e.i, ran[r]) /\ UpTo(thread[r], e.i, e.i + 1, ran[r])
      BY <1>1, <2>2, <3>1, UpToNext DEF DriveKnown
    <3>3. l = "run" => ApprovedFor(rows[r], CallIn(thread[r], e))
      BY <1>1, <1>8, <2>2, <3>1 DEF ApprovedFor, CallIn, DriveKnown
    <3>. QED  BY <1>1, <1>8, <2>2, <3>1, <3>2, <3>3 DEF DriveKnown, StatusKnown
  <2>. QED  BY <1>1, <1>3, <2>1, <2>2, <2>3, <2>4, <2>5, <2>6, PlaceKeeps
<1>9. CASE k = "plan" /\ s # "approved" /\ Go(r, x, "reject")
  BY <1>8, <1>9
<1>10. CASE k = "plan" /\ s = "approved" /\ Go(r, x, "answer")
  BY <1>8, <1>10
<1>11. CASE k # "plan" /\ s = "approved" /\ Go(r, x, "run")
  BY <1>8, <1>11
<1>12. CASE k # "plan" /\ s = "denied" /\ Go(r, x, "answer")
  BY <1>8, <1>12
<1>. QED  BY <1>4, <1>7, <1>9, <1>10, <1>11, <1>12

\* Every step of a task.
LEMMA TaskKeeps == ASSUME Inv, NEW r \in RunIds, TaskStep(r) PROVE Inv'
<1>1. CASE Boot(r) \/ Prepare(r) \/ ModelStops(r) \/ ToolTurn(r) \/ FinalAnswer(r)
  BY <1>1, BootKeeps, PrepareKeeps, ModelStopsKeeps, ToolTurnKeeps, FinalAnswerKeeps
<1>2. CASE Remember(r) \/ FinishStep(r) \/ EndTask(r) \/ TurnDone(r) \/ CallCancelled(r)
  BY <1>2, ModelStopsKeeps, FinishStepKeeps, EndTaskKeeps, TurnDoneKeeps, CancelledKeeps
<1>3. CASE Refuse(r) \/ CallTool(r) \/ Gate(r) \/ Verdict(r) \/ WaitCancelled(r)
  BY <1>3, RefuseKeeps, CallToolKeeps, GateKeeps, VerdictKeeps, WaitCancelledKeeps
<1>4. CASE BeginTool(r) \/ StaleGrant(r) \/ EndTool(r) \/ ToolCancelled(r) \/ Back(r)
  BY <1>4, BeginToolKeeps, StaleGrantKeeps, EndToolKeeps, CancelledKeeps, BackKeeps
<1>5. CASE Answer(r) \/ Reject(r) \/ Assess(r) \/ Enter(r) \/ SettleParked(r)
  BY <1>5, AnswerKeeps, RejectKeeps, AssessKeeps, EnterKeeps, SettleParkedKeeps
<1>. QED  BY <1>1, <1>2, <1>3, <1>4, <1>5 DEF TaskStep

-----------------------------------------------------------------------------
(* The answers from outside the task.                                      *)

Decided(r, j) == [pc |-> "decided", run |-> r, row |-> j]

\* An approval is settled by a timer or by an answer, whoever waits for it.
LEMMA SettleKeeps ==
    ASSUME Inv, NEW r \in RunIds, NEW j \in DOMAIN rows[r], IsPending(rows[r], j),
           NEW s \in ApprovalStatus \ {"pending"}, SetRow(r, j, s), phase = "up",
           UNCHANGED <<status, thread, exec, token, scan, phase, ran, told>>, BudgetStep,
           rest' \in [Clients -> RestType],
           \A c \in Clients : rest'[c] = rest[c] \/ rest'[c] = Decided(r, j)
    PROVE  Inv'
<1>. DEFINE v == rows[r]
            e == exec[r]
            t == thread[r]
<1>1. PICK w \in Seq(ApprovalType) : rows' = [rows EXCEPT ![r] = w] /\ Settled(v, w, j, s)
  BY SettleFacts
<1>2. /\ v \in Seq(ApprovalType) /\ Typed /\ j \in DOMAIN v /\ v # <<>>
      /\ TaskKnown(phase, status[r], t, v, e, token[r], ran[r], told[r])
      /\ PendingKnown(v, e) /\ (Undisturbed' => Undisturbed)
      /\ token[r] \in {"none", "live", "cancelled"}
  BY RunFacts DEF Inv, BudgetStep
<1>3. /\ Grown(v, w) /\ \A i \in DOMAIN w : w[i].call = v[i].call
      /\ \A i \in DOMAIN w : IsPending(w, i) => i # j /\ IsPending(v, i)
      /\ \A c : ApprovedFor(v, c) => ApprovedFor(w, c)
      /\ \A n : RanAllowed(v, n) => RanAllowed(w, n)
      /\ DOMAIN w = DOMAIN v /\ Len(w) = Len(v)
  BY <1>1, <1>2, SettledKeeps DEF Settled
<1>4. \A i \in DOMAIN w : ~IsPending(w, i)
  BY <1>2, <1>3 DEF PendingKnown
<1>5. TaskKnown(phase, status[r], t, w, e, token[r], ran[r], told[r])
  BY <1>2, <1>3 DEF TaskKnown
<1>6. PendingKnown(w, e)
  BY <1>4 DEF PendingKnown
<1>7. ASSUME r \in PlanRuns, ~PlanApproved(w)
      PROVE  PlanKnown(t, w, e, ran[r])
  <2>1. PlanKnown(t, v, e, ran[r])
    BY <1>3, <1>7, RunFacts DEF Grown
  <2>. QED  BY <1>2, <1>3, <2>1 DEF PlanKnown, Planning
<1>8. ASSUME Undisturbed' PROVE DriveKnown(phase, status[r], t, w, e, ran[r])
  <2>1. DriveKnown(phase, status[r], t, v, e, ran[r])
    BY <1>2, <1>8, RunFacts
  <2>2. e.pc = "run" /\ t.turn[e.i] \in {"gated", "module"} => ApprovedFor(w, CallIn(t, e))
    BY <1>3, <2>1 DEF DriveKnown
  <2>3. e.pc \in {"assess", "enter"} \/ (e.pc = "calls" /\ e.parked) =>
            w[e.row].call = v[e.row].call
    BY <1>2, <1>3 DEF TaskKnown
  <2>4. RanAllowed(w, ran[r])
    BY <1>3, <2>1 DEF DriveKnown
  <2>. QED  BY <1>4, <2>1, <2>2, <2>3, <2>4 DEF DriveKnown
<1>9. RunKnown(r, phase, status[r], t, w, e, token[r], ran[r], told[r])
  BY <1>5, <1>6, <1>7, RunFacts DEF RunKnown
<1>10. /\ Wrote(r, status[r], t, w, e, ran[r], told[r])
       /\ ValuesTyped(status[r], t, w, e, ran[r], told[r])
       /\ token' = [token EXCEPT ![r] = token[r]]
  BY <1>1, <1>2, RunFacts DEF Typed, Wrote, ValuesTyped
<1>11. OthersLinked(r)
  BY OtherTypes DEF OthersLinked, Decided
<1>12. Linked(r, status[r], t, w, token[r], ran[r])
  <2>1. SUFFICES ASSUME NEW c \in Clients, Resumes(rest'[c]), rest'[c].run = r
        PROVE  /\ LinkKnown(r, t, w, token[r], rest'[c])
               /\ Undisturbed' => LinkExact(status[r], t, w, token[r], ran[r], rest'[c])
    BY DEF Linked
  <2>2. CASE rest'[c] = rest[c]
    <3>1. /\ LinkKnown(r, t, v, token[r], rest[c])
          /\ Undisturbed => LinkExact(status[r], t, v, token[r], ran[r], rest[c])
      BY <2>1, <2>2 DEF Inv, LinkOK
    <3>2. rest[c].row \in DOMAIN v /\ w[rest[c].row].call = v[rest[c].row].call
      BY <1>3, <3>1 DEF LinkKnown
    <3>. QED  BY <1>2, <1>3, <1>4, <2>2, <3>1, <3>2 DEF LinkKnown, LinkExact, Grown
  <2>3. CASE rest'[c] = Decided(r, j)
    <3>1. rest'[c].row = j /\ rest'[c].pc = "decided"
      BY <2>3 DEF Decided
    <3>2. LinkKnown(r, t, w, token[r], rest'[c])
      BY <1>2, <1>3, <1>4, <3>1 DEF LinkKnown
    <3>3. ASSUME Undisturbed', token[r] = "none", status[r] = "awaiting"
          PROVE  ParkedAt(t, w[j].call, ran[r])
      <4>1. e.pc = "idle" /\ w[j].call = v[j].call
        BY <1>2, <1>3, <3>3 DEF TaskKnown
      <4>. QED  BY <1>2, <3>3, <4>1, RunFacts DEF DriveKnown
    <3>. QED  BY <3>1, <3>2, <3>3 DEF LinkExact
  <2>. QED  BY <2>2, <2>3
<1>. QED  BY <1>2, <1>8, <1>9, <1>10, <1>11, <1>12, RunStepKeeps

LEMMA TimeoutKeeps ==
    ASSUME Inv, NEW r \in RunIds, NEW j \in DOMAIN rows[r], Timeout(r, j)
    PROVE  Inv'
<1>1. /\ IsPending(rows[r], j) /\ "timed_out" \in ApprovalStatus \ {"pending"} /\ Typed
  BY DEF Timeout, IsPending, ApprovalStatus, Inv
<1>2. BudgetStep
  BY <1>1, BudgetKept DEF Timeout, NoFault
<1>. QED  BY <1>1, <1>2, SettleKeeps, OtherTypes DEF Timeout

\* A REST call comes in.
LEMMA CalledFacts ==
    ASSUME Inv, NEW c \in Clients, Called(c)
    PROVE  phase = "up" /\ BudgetStep /\ rest[c] = Idle
  BY DEF Called, Inv, Typed, BudgetStep, Undisturbed

LEMMA DecideKeeps ==
    ASSUME Inv, NEW c \in Clients, NEW r \in RunIds, NEW j \in DOMAIN rows[r],
           NEW d \in Decisions, Decide(c, r, j, d)
    PROVE  Inv'
<1>1. /\ IsPending(rows[r], j) /\ d \in ApprovalStatus \ {"pending"} /\ Typed
      /\ SetRow(r, j, d) /\ rows[r] \in Seq(ApprovalType)
      /\ UNCHANGED <<status, thread, exec, token, scan, phase, ran, told>>
  BY RunFacts DEF Decide, IsPending, ApprovalStatus, Decisions, Inv
<1>2. phase = "up" /\ BudgetStep
  BY CalledFacts DEF Decide
<1>3. Decided(r, j) \in RestType
  <2>1. j \in Nat
    BY <1>1
  <2>. QED  BY <2>1 DEF Decided, RestType
<1>4. /\ rest' \in [Clients -> RestType]
      /\ \A b \in Clients : rest'[b] = rest[b] \/ rest'[b] = Decided(r, j)
  BY <1>3, OtherTypes DEF Decide, Decided
<1>. QED  BY <1>1, <1>2, <1>4, SettleKeeps

-----------------------------------------------------------------------------
(* REST calls and the scan.                                                *)

\* The fields of a REST call, by where it is.
LEMMA RestFacts ==
    ASSUME NEW x \in RestType
    PROVE  /\ Resumes(x) => x.run \in RunIds /\ x.row \in Nat
           /\ x.pc = "read" => x.snap \in ThreadType
           /\ x.pc \in {"cancel", "land"} => x.run \in RunIds
           /\ x.pc # "idle" => x # Idle
  BY DEF RestType, Resumes, Idle

\* Only what is in progress beside the runs changes.
LEMMA AsideKeeps ==
    ASSUME Inv, UNCHANGED <<tables, exec, token, phase, ran, told>>, BudgetStep,
           rest' \in [Clients -> RestType],
           scan' \in ScanType, scan'.pc # "idle" => scan'.at \in RunIds,
           phase # "up" => \A c \in Clients : rest'[c] = Idle,
           \A c \in Clients : rest'[c] # rest[c] /\ Resumes(rest'[c]) =>
               LET r == rest'[c].run IN
               /\ LinkKnown(r, thread[r], rows[r], token[r], rest'[c])
               /\ Undisturbed =>
                      LinkExact(status[r], thread[r], rows[r], token[r], ran[r], rest'[c])
    PROVE  Inv'
<1>1. /\ status' = status /\ thread' = thread /\ rows' = rows /\ exec' = exec
      /\ token' = token /\ phase' = phase /\ ran' = ran /\ told' = told
      /\ (Undisturbed' => Undisturbed)
  BY DEF tables, BudgetStep
<1>2. Typed'
  BY <1>1 DEF Inv, Typed, BudgetStep
<1>3. \A r \in RunIds : RunOK(r)'
  <2>1. TAKE r \in RunIds
  <2>2. RunOK(r)
    BY DEF Inv
  <2>. QED  BY <1>1, <2>2 DEF RunOK
<1>4. \A c \in Clients, r \in RunIds : LinkOK(c, r)'
  <2>1. TAKE c \in Clients, r \in RunIds
  <2>2. SUFFICES ASSUME Resumes(rest'[c]), rest'[c].run = r
        PROVE  /\ LinkKnown(r, thread[r], rows[r], token[r], rest'[c])
               /\ Undisturbed' =>
                      LinkExact(status[r], thread[r], rows[r], token[r], ran[r], rest'[c])
    BY <1>1 DEF LinkOK
  <2>3. CASE rest'[c] = rest[c]
    <3>1. LinkOK(c, r)
      BY DEF Inv
    <3>. QED  BY <1>1, <2>2, <2>3, <3>1 DEF LinkOK
  <2>4. CASE rest'[c] # rest[c]
    BY <1>1, <2>2, <2>4
  <2>. QED  BY <2>3, <2>4
<1>. QED  BY <1>1, <1>2, <1>3, <1>4 DEF Inv

\* A REST call in progress: the daemon is up, and what it knows of its run.
LEMMA CallProgress ==
    ASSUME Inv, NEW c \in Clients, rest[c].pc # "idle"
    PROVE  /\ phase = "up" /\ rest[c] \in RestType /\ rest \in [Clients -> RestType] /\ Typed
           /\ Resumes(rest[c]) \/ rest[c].pc \in {"cancel", "land"} => rest[c].run \in RunIds
           /\ Resumes(rest[c]) => LET r == rest[c].run IN
                 /\ rest[c].row \in Nat
                 /\ LinkKnown(r, thread[r], rows[r], token[r], rest[c])
                 /\ Undisturbed =>
                        LinkExact(status[r], thread[r], rows[r], token[r], ran[r], rest[c])
           /\ rest[c].pc = "read" => rest[c].snap \in ThreadType
<1>1. rest[c] \in RestType /\ rest \in [Clients -> RestType] /\ Typed
  BY OtherTypes
<1>2. phase = "up"
  BY <1>1, RestFacts DEF Inv
<1>3. /\ Resumes(rest[c]) => rest[c].run \in RunIds /\ rest[c].row \in Nat
      /\ rest[c].pc \in {"cancel", "land"} => rest[c].run \in RunIds
      /\ rest[c].pc = "read" => rest[c].snap \in ThreadType
  BY <1>1, RestFacts
<1>4. ASSUME Resumes(rest[c])
      PROVE  LET r == rest[c].run IN
             /\ LinkKnown(r, thread[r], rows[r], token[r], rest[c])
             /\ Undisturbed =>
                    LinkExact(status[r], thread[r], rows[r], token[r], ran[r], rest[c])
  BY <1>3, <1>4 DEF Inv, LinkOK
<1>. QED  BY <1>1, <1>2, <1>3, <1>4

\* A REST call goes on or ends, and nothing else happens.
LEMMA CallKeeps ==
    ASSUME Inv, NEW c \in Clients, phase = "up", NEW x \in RestType,
           rest' = [rest EXCEPT ![c] = x], BudgetStep,
           UNCHANGED <<tables, exec, token, scan, phase, ran, told>>,
           Resumes(x) => LET r == x.run IN
               /\ LinkKnown(r, thread[r], rows[r], token[r], x)
               /\ Undisturbed => LinkExact(status[r], thread[r], rows[r], token[r], ran[r], x)
    PROVE  Inv'
<1>1. /\ rest' \in [Clients -> RestType] /\ rest'[c] = x
      /\ \A b \in Clients : b # c => rest'[b] = rest[b]
  BY OtherTypes
<1>2. /\ scan' \in ScanType
      /\ scan'.pc # "idle" => scan'.at \in RunIds
  BY OtherTypes
<1>3. UNCHANGED <<tables, exec, token, phase, ran, told>>
  OBVIOUS
<1>4. \A b \in Clients : rest'[b] # rest[b] /\ Resumes(rest'[b]) =>
          LET r == rest'[b].run IN
          /\ LinkKnown(r, thread[r], rows[r], token[r], rest'[b])
          /\ Undisturbed =>
                 LinkExact(status[r], thread[r], rows[r], token[r], ran[r], rest'[b])
  BY <1>1
<1>. QED  BY <1>1, <1>2, <1>3, <1>4, AsideKeeps

LEMMA IdleFacts == Idle \in RestType /\ ~Resumes(Idle) /\ Idle.pc = "idle"
  BY DEF Idle, RestType, Resumes

LEMMA ResumeReadKeeps == ASSUME Inv, NEW c \in Clients, ResumeRead(c) PROVE Inv'
<1>. DEFINE x == rest[c]
            y == [x EXCEPT !.pc = "parked"]
            r == x.run
<1>1. /\ x.pc = "decided" /\ Resumes(x) /\ phase = "up" /\ x \in RestType /\ Typed
      /\ rest \in [Clients -> RestType] /\ x.run \in RunIds /\ x.row \in Nat
      /\ LinkKnown(r, thread[r], rows[r], token[r], x)
      /\ Undisturbed => LinkExact(status[r], thread[r], rows[r], token[r], ran[r], x)
  BY CallProgress DEF ResumeRead, Resumes
<1>2. BudgetStep /\ UNCHANGED <<tables, exec, token, scan, phase, ran, told>>
  BY <1>1, BudgetKept DEF ResumeRead, NoFault
<1>3. rest' = [rest EXCEPT ![c] = y] \/ rest' = [rest EXCEPT ![c] = Idle]
  BY <1>1 DEF ResumeRead
<1>4. y \in RestType /\ y.pc = "parked" /\ y.run = x.run /\ y.row = x.row
  <2>1. x \in [pc : {"decided", "parked"}, run : RunIds, row : Nat]
    BY <1>1 DEF RestType, Idle
  <2>2. /\ y \in [pc : {"decided", "parked"}, run : RunIds, row : Nat]
        /\ y.pc = "parked" /\ y.run = x.run /\ y.row = x.row
    BY <2>1
  <2>. QED  BY <2>2 DEF RestType
<1>. HIDE DEF y
<1>5. /\ LinkKnown(r, thread[r], rows[r], token[r], y)
      /\ Undisturbed => LinkExact(status[r], thread[r], rows[r], token[r], ran[r], y)
  BY <1>1, <1>4 DEF LinkKnown, LinkExact
<1>. QED  BY <1>1, <1>2, <1>3, <1>4, <1>5, IdleFacts, CallKeeps

LEMMA ResumeThreadKeeps == ASSUME Inv, NEW c \in Clients, ResumeThread(c) PROVE Inv'
<1>. DEFINE x == rest[c]
            r == x.run
            y == [pc |-> "read", run |-> r, row |-> x.row, snap |-> thread[r]]
<1>1. /\ x.pc = "parked" /\ Resumes(x) /\ phase = "up" /\ x \in RestType /\ Typed
      /\ rest \in [Clients -> RestType] /\ r \in RunIds /\ x.row \in Nat
      /\ LinkKnown(r, thread[r], rows[r], token[r], x)
      /\ Undisturbed => LinkExact(status[r], thread[r], rows[r], token[r], ran[r], x)
  BY CallProgress DEF ResumeThread, Resumes
<1>2. BudgetStep /\ UNCHANGED <<tables, exec, token, scan, phase, ran, told>>
  BY <1>1, BudgetKept DEF ResumeThread, NoFault
<1>3. rest' = [rest EXCEPT ![c] = y] /\ thread[r] \in ThreadType
  BY <1>1, RunFacts DEF ResumeThread
<1>4. y \in RestType /\ y.pc = "read" /\ y.run = r /\ y.row = x.row /\ y.snap = thread[r]
  BY <1>1, <1>3 DEF RestType
<1>. HIDE DEF y
<1>5. /\ LinkKnown(r, thread[r], rows[r], token[r], y)
      /\ Undisturbed => LinkExact(status[r], thread[r], rows[r], token[r], ran[r], y)
  BY <1>1, <1>4 DEF LinkKnown, LinkExact
<1>. QED  BY <1>1, <1>2, <1>3, <1>4, <1>5, CallKeeps

\* A store error or a closed connection ends a call.
LEMMA CallEnds ==
    ASSUME Inv, NEW c \in Clients, ResumeFails(c) \/ DropCall(c) PROVE Inv'
<1>1. /\ rest' = [rest EXCEPT ![c] = Idle]
      /\ UNCHANGED <<tables, exec, token, scan, phase, ran, told>> /\ Typed
  BY DEF ResumeFails, DropCall, Inv
<1>2. BudgetStep
  BY <1>1, BudgetKept DEF ResumeFails, DropCall, BudgetStep, Undisturbed, Typed
<1>3. phase = "up"
  BY IdleFacts DEF ResumeFails, DropCall, Inv
<1>. QED  BY <1>1, <1>2, <1>3, IdleFacts, CallKeeps

LEMMA CancelReadKeeps ==
    ASSUME Inv, NEW c \in Clients, NEW r \in RunIds, CancelRead(c, r) PROVE Inv'
<1>. DEFINE x == [pc |-> "cancel", run |-> r]
<1>1. phase = "up" /\ BudgetStep
  BY CalledFacts DEF CancelRead
<1>2. /\ x \in RestType /\ ~Resumes(x) /\ rest' = [rest EXCEPT ![c] = x]
      /\ UNCHANGED <<tables, exec, token, scan, phase, ran, told>>
  BY DEF CancelRead, RestType, Resumes
<1>. HIDE DEF x
<1>. QED  BY <1>1, <1>2, CallKeeps

\* The task in whose place an answer goes on.
Resumed(row, snap) == [NoExec EXCEPT !.pc = "assess", !.row = row, !.snap = snap]

LEMMA ResumedFacts ==
    ASSUME NEW row \in Nat, NEW snap \in ThreadType, NEW e, e = Resumed(row, snap)
    PROVE  /\ e \in TaskType /\ e.pc = "assess" /\ e.row = row /\ e.snap = snap
           /\ ~e.parked /\ ~e.asked
<1>. DEFINE x == [NoExec EXCEPT !.pc = "assess"]
            y == [x EXCEPT !.row = row]
            z == [y EXCEPT !.snap = snap]
<1>1. x \in TaskType /\ x.pc = "assess" /\ ~x.parked /\ ~x.asked
  BY NoExecFacts DEF TaskType, Pcs
<1>2. e = z
  BY DEF Resumed
<1>. HIDE DEF x
<1>3. y \in TaskType /\ y.pc = "assess" /\ ~y.parked /\ ~y.asked /\ y.row = row
  BY <1>1 DEF TaskType
<1>. HIDE DEF y
<1>4. z \in TaskType /\ z.pc = "assess" /\ ~z.parked /\ ~z.asked /\ z.row = row /\ z.snap = snap
  BY <1>3 DEF TaskType
<1>. QED  BY <1>2, <1>4

LEMMA ResumeSpawnKeeps == ASSUME Inv, NEW c \in Clients, ResumeSpawn(c) PROVE Inv'
<1>. DEFINE x == rest[c]
            r == x.run
            e == Resumed(x.row, x.snap)
            s == status[r]
            t == thread[r]
            w == rows[r]
            n == ran[r]
<1>1. /\ x.pc = "read" /\ Resumes(x) /\ phase = "up" /\ x \in RestType /\ Typed
      /\ rest \in [Clients -> RestType] /\ r \in RunIds /\ x.row \in Nat
      /\ x.snap \in ThreadType
      /\ LinkKnown(r, t, w, token[r], x)
      /\ Undisturbed => LinkExact(s, t, w, token[r], n, x)
  BY CallProgress DEF ResumeSpawn, Resumes
<1>2. /\ BudgetStep /\ UNCHANGED <<tables, scan, phase, ran, told>>
      /\ rest' = [rest EXCEPT ![c] = Idle] /\ (Undisturbed' => Undisturbed)
  BY <1>1, BudgetKept DEF ResumeSpawn, NoFault, BudgetStep
<1>3. CASE token[r] # "none"
  <2>1. UNCHANGED <<token, exec>>
    BY <1>3 DEF ResumeSpawn, Spawns
  <2>. QED  BY <1>1, <1>2, <2>1, IdleFacts, CallKeeps
<1>4. CASE token[r] = "none"
  <2>1. token' = [token EXCEPT ![r] = "live"] /\ exec' = [exec EXCEPT ![r] = e]
    BY <1>4 DEF ResumeSpawn, Spawns, Resumed
  <2>2. e \in TaskType /\ e.pc = "assess" /\ e.row = x.row /\ e.snap = x.snap /\ ~e.parked /\ ~e.asked
    BY <1>1, ResumedFacts
  <2>. HIDE DEF e
  <2>3. /\ x.row \in DOMAIN w /\ \A j \in DOMAIN w : ~IsPending(w, j)
        /\ r \in PlanRuns /\ ~PlanApproved(w) => x.snap.turn = t.turn
    BY <1>1, <1>4 DEF LinkKnown
  <2>4. /\ TaskKnown(phase, s, t, w, exec[r], token[r], n, told[r]) /\ w \in Seq(ApprovalType)
        /\ exec[r].pc = "idle" /\ s # "none"
    BY <1>1, <1>4, <2>3, RunFacts DEF TaskKnown
  <2>5. TaskKnown(phase, s, t, w, e, "live", n, told[r])
    BY <1>1, <2>2, <2>3, <2>4 DEF TaskKnown, OnCall
  <2>6. PendingKnown(w, e)
    BY <2>3 DEF PendingKnown
  <2>7. ASSUME r \in PlanRuns, ~PlanApproved(w) PROVE PlanKnown(t, w, e, n)
    BY <1>1, <2>2, <2>3, <2>7, RunFacts DEF PlanKnown
  <2>8. ASSUME Undisturbed' PROVE DriveKnown(phase, s, t, w, e, n)
    <3>1. DriveKnown(phase, s, t, w, exec[r], n) /\ LinkExact(s, t, w, token[r], n, x)
      BY <1>1, <1>2, <2>8, RunFacts
    <3>2. s = "awaiting" \/ s \in Terminal
      BY <1>1, <2>4, <3>1 DEF DriveKnown, StatusKnown
    <3>3. s = "awaiting" => e.snap = t /\ ParkedAt(t, w[e.row].call, n)
      BY <1>1, <1>4, <2>2, <3>1 DEF LinkExact
    <3>. QED  BY <2>2, <3>1, <3>2, <3>3 DEF DriveKnown, StatusKnown
  <2>9. RunKnown(r, phase, s, t, w, e, "live", n, told[r])
    BY <1>1, <2>5, <2>6, <2>7, RunFacts DEF RunKnown
  <2>10. /\ Wrote(r, s, t, w, e, n, told[r]) /\ ValuesTyped(s, t, w, e, n, told[r])
    BY <1>1, <1>2, <2>1, <2>2, RunFacts DEF Typed, Wrote, ValuesTyped, tables
  <2>11. /\ rest' \in [Clients -> RestType] /\ rest'[c] = Idle
         /\ \A b \in Clients : b # c => rest'[b] = rest[b]
    BY <1>1, <1>2, IdleFacts
  <2>12. OthersLinked(r)
    BY <1>1, <1>2, <2>11, IdleFacts, OtherTypes DEF OthersLinked
  <2>13. Linked(r, s, t, w, "live", n)
    <3>1. SUFFICES ASSUME NEW b \in Clients, Resumes(rest'[b]), rest'[b].run = r
          PROVE  LinkKnown(r, t, w, "live", rest'[b])
      BY DEF Linked, LinkExact
    <3>2. rest'[b] = rest[b]
      BY <2>11, <3>1, IdleFacts
    <3>3. LinkKnown(r, t, w, token[r], rest[b])
      BY <1>1, <3>1, <3>2 DEF Inv, LinkOK
    <3>. QED  BY <3>2, <3>3 DEF LinkKnown
  <2>. QED  BY <1>1, <1>2, <2>1, <2>8, <2>9, <2>10, <2>12, <2>13, RunStepKeeps
<1>. QED  BY <1>3, <1>4

LEMMA CancelTokenKeeps == ASSUME Inv, NEW c \in Clients, CancelToken(c) PROVE Inv'
<1>. DEFINE x == rest[c]
            r == x.run
<1>1. /\ x.pc = "cancel" /\ phase = "up" /\ x \in RestType /\ Typed /\ r \in RunIds
      /\ rest \in [Clients -> RestType]
  BY CallProgress DEF CancelToken
<1>2. /\ BudgetStep /\ UNCHANGED <<tables, exec, scan, phase, ran, told>>
      /\ (Undisturbed' => Undisturbed)
  BY <1>1, BudgetKept DEF CancelToken, NoFault, BudgetStep
<1>3. CASE token[r] = "none"
  <2>. DEFINE y == [x EXCEPT !.pc = "land"]
  <2>1. rest' = [rest EXCEPT ![c] = y] /\ UNCHANGED token
    BY <1>1, <1>3 DEF CancelToken
  <2>2. y \in RestType /\ ~Resumes(y)
    <3>1. x \in [pc : {"cancel", "land"}, run : RunIds]
      BY <1>1 DEF RestType, Idle
    <3>2. y \in [pc : {"cancel", "land"}, run : RunIds] /\ y.pc = "land"
      BY <3>1
    <3>. QED  BY <3>2 DEF RestType, Resumes
  <2>. HIDE DEF y
  <2>. QED  BY <1>1, <1>2, <2>1, <2>2, CallKeeps
<1>4. CASE token[r] # "none"
  <2>1. token' = [token EXCEPT ![r] = "cancelled"] /\ rest' = [rest EXCEPT ![c] = Idle]
    BY <1>4 DEF CancelToken
  <2>2. TaskKnown(phase, status[r], thread[r], rows[r], exec[r], "cancelled", ran[r], told[r])
    BY <1>1, <1>4, RunFacts DEF TaskKnown
  <2>3. RunKnown(r, phase, status[r], thread[r], rows[r], exec[r], "cancelled", ran[r], told[r])
    BY <1>1, <2>2, RunFacts DEF RunKnown
  <2>4. Undisturbed' => DriveKnown(phase, status[r], thread[r], rows[r], exec[r], ran[r])
    BY <1>1, <1>2, RunFacts
  <2>5. /\ Wrote(r, status[r], thread[r], rows[r], exec[r], ran[r], told[r])
        /\ ValuesTyped(status[r], thread[r], rows[r], exec[r], ran[r], told[r])
    BY <1>1, <1>2, RunFacts DEF Typed, Wrote, ValuesTyped, tables
  <2>6. /\ rest' \in [Clients -> RestType] /\ rest'[c] = Idle
        /\ \A b \in Clients : b # c => rest'[b] = rest[b]
    BY <1>1, <2>1, IdleFacts
  <2>7. OthersLinked(r)
    BY <1>1, <1>2, <2>6, IdleFacts, OtherTypes DEF OthersLinked
  <2>8. Linked(r, status[r], thread[r], rows[r], "cancelled", ran[r])
    <3>1. SUFFICES ASSUME NEW b \in Clients, Resumes(rest'[b]), rest'[b].run = r
          PROVE  LinkKnown(r, thread[r], rows[r], "cancelled", rest'[b])
      BY DEF Linked, LinkExact
    <3>2. rest'[b] = rest[b]
      BY <2>6, <3>1, IdleFacts
    <3>3. LinkKnown(r, thread[r], rows[r], token[r], rest[b])
      BY <1>1, <3>1, <3>2 DEF Inv, LinkOK
    <3>. QED  BY <3>2, <3>3 DEF LinkKnown
  <2>. QED  BY <1>1, <1>2, <2>1, <2>3, <2>4, <2>5, <2>7, <2>8, RunStepKeeps
<1>. QED  BY <1>3, <1>4

-----------------------------------------------------------------------------
(* Runs landed from outside their task.                                    *)

\* The event of a run that had not ended is its first.
LEMMA FirstEvent ==
    ASSUME NEW s \in Status \ Terminal, NEW l, EndKnown(s, l)
    PROVE  /\ l = <<>> /\ Append(l, "cancelled") = <<"cancelled">>
           /\ <<>> \in Seq(Terminal) /\ <<"cancelled">> \in Seq(Terminal)
<1>1. l = <<>>
  BY DEF EndKnown
<1>2. Append(<<>>, "cancelled") = <<"cancelled">>
  OBVIOUS
<1>3. <<"cancelled">> \in Seq(Terminal) /\ <<>> \in Seq(Terminal)
  BY DEF Terminal
<1>. QED  BY <1>1, <1>2, <1>3

\* What a status and an event written from outside leave of a run.
LEMMA LandedRun ==
    ASSUME NEW r, NEW p, NEW s, NEW t, NEW w, NEW e, NEW k, NEW n, NEW l, s # "none",
           RunKnown(r, p, s, t, w, e, k, n, l), NEW l1 \in {<<>>, <<"cancelled">>}
    PROVE  RunKnown(r, p, "cancelled", t, w, e, k, n, l1)
<1>1. EndKnown("cancelled", l1)
  BY DEF EndKnown, Terminal
<1>2. TaskKnown(p, "cancelled", t, w, e, k, n, l1)
  BY DEF RunKnown, TaskKnown
<1>. QED  BY <1>1, <1>2 DEF RunKnown

LEMMA LandKeeps ==
    ASSUME Inv, NEW r \in RunIds,
           (NoFault /\ Land(r, "cancelled")) \/ (Fault /\ UNCHANGED <<status, told>>),
           UNCHANGED <<thread, rows, exec, token, phase, ran>>,
           rest' \in [Clients -> RestType],
           \A c \in Clients : rest'[c] = rest[c] \/ ~Resumes(rest'[c]),
           scan' \in ScanType, scan'.pc # "idle" => scan'.at \in RunIds,
           phase # "up" => \A c \in Clients : rest'[c] = Idle
    PROVE  Inv'
<1>1. /\ Typed /\ BudgetStep /\ (Undisturbed' => Undisturbed)
  BY BudgetKept DEF BudgetStep, Inv
<1>2. CASE UNCHANGED <<status, told>>
  <2>1. UNCHANGED <<tables, exec, token, phase, ran, told>>
    BY <1>2 DEF tables
  <2>. QED  BY <1>1, <2>1, AsideKeeps
<1>3. CASE Legal(status[r], "cancelled") /\ Land(r, "cancelled")
  <2>. DEFINE l == Append(told[r], "cancelled")
  <2>1. /\ status' = [status EXCEPT ![r] = "cancelled"] /\ told' = [told EXCEPT ![r] = l]
        /\ status[r] \in Status \ (Terminal \cup {"none"}) /\ "cancelled" \in Status
    BY <1>1, <1>3 DEF Land, Legal, Status, Terminal, Typed
  <2>2. RunKnown(r, phase, status[r], thread[r], rows[r], exec[r], token[r], ran[r], told[r])
    BY DEF Inv, RunOK
  <2>3. l = <<"cancelled">> /\ l \in Seq(Terminal) /\ status[r] # "none"
    BY <2>1, FirstEvent, RunFacts
  <2>. HIDE DEF l
  <2>4. RunKnown(r, phase, "cancelled", thread[r], rows[r], exec[r], token[r], ran[r], l)
    BY <2>2, <2>3, LandedRun
  <2>5. Undisturbed' => DriveKnown(phase, "cancelled", thread[r], rows[r], exec[r], ran[r])
    BY <1>1, RunFacts DEF DriveKnown, StatusKnown, Terminal
  <2>6. /\ Wrote(r, "cancelled", thread[r], rows[r], exec[r], ran[r], l)
        /\ ValuesTyped("cancelled", thread[r], rows[r], exec[r], ran[r], l)
        /\ token' = [token EXCEPT ![r] = token[r]]
        /\ token[r] \in {"none", "live", "cancelled"}
    BY <1>1, <2>1, <2>3, RunFacts DEF Typed, Wrote, ValuesTyped
  <2>7. OthersLinked(r)
    BY DEF OthersLinked
  <2>8. Linked(r, "cancelled", thread[r], rows[r], token[r], ran[r])
    <3>1. SUFFICES ASSUME NEW b \in Clients, Resumes(rest'[b]), rest'[b].run = r
          PROVE  LinkKnown(r, thread[r], rows[r], token[r], rest'[b])
      BY DEF Linked, LinkExact
    <3>2. rest'[b] = rest[b]
      BY <3>1
    <3>. QED  BY <3>1, <3>2 DEF Inv, LinkOK
  <2>. QED  BY <1>1, <2>4, <2>5, <2>6, <2>7, <2>8, RunStepKeeps
<1>. QED  BY <1>2, <1>3 DEF Land

LEMMA CancelLandKeeps == ASSUME Inv, NEW c \in Clients, CancelLand(c) PROVE Inv'
<1>1. /\ rest[c].pc = "land" /\ phase = "up" /\ rest[c].run \in RunIds
      /\ rest \in [Clients -> RestType]
  BY CallProgress DEF CancelLand
<1>2. /\ rest' \in [Clients -> RestType]
      /\ \A b \in Clients : rest'[b] = rest[b] \/ ~Resumes(rest'[b])
  BY <1>1, IdleFacts DEF CancelLand
<1>3. /\ scan' \in ScanType
      /\ scan'.pc # "idle" => scan'.at \in RunIds
  BY OtherTypes DEF CancelLand
<1>. QED  BY <1>1, <1>2, <1>3, LandKeeps DEF CancelLand

LEMMA CallStepKeeps == ASSUME Inv, NEW c \in Clients, CallStep(c) \/ DropCall(c) PROVE Inv'
  BY ResumeReadKeeps, ResumeThreadKeeps, CallEnds, ResumeSpawnKeeps, CancelTokenKeeps,
     CancelLandKeeps DEF CallStep

-----------------------------------------------------------------------------
(* The scan.                                                               *)

LEMMA ScanMoves ==
    ASSUME Inv, UNCHANGED <<tables, exec, token, rest, phase, ran, told, budget>>,
           scan' \in ScanType, scan'.pc # "idle" => scan'.at \in RunIds
    PROVE  Inv'
<1>1. BudgetStep
  BY BudgetKept DEF NoFault, Inv
<1>. QED  BY <1>1, AsideKeeps, OtherTypes

LEMMA ScanLandKeeps == ASSUME Inv, ScanLand PROVE Inv'
<1>. DEFINE x == [scan EXCEPT !.at = NULL]
            y == [x EXCEPT !.pc = "idle"]
<1>1. scan \in ScanType /\ scan.pc = "land" /\ scan.at \in RunIds
  BY OtherTypes DEF ScanLand
<1>2. x \in ScanType
  BY <1>1 DEF ScanType
<1>3. scan' = y
  BY DEF ScanLand
<1>. HIDE DEF x
<1>4. y \in ScanType /\ y.pc = "idle"
  BY <1>2 DEF ScanType
<1>. HIDE DEF y
<1>5. /\ rest' \in [Clients -> RestType] /\ rest' = rest
      /\ phase # "up" => \A c \in Clients : rest'[c] = Idle
  BY OtherTypes DEF ScanLand
<1>. QED  BY <1>1, <1>3, <1>4, <1>5, LandKeeps DEF ScanLand

LEMMA ScanningKeeps == ASSUME Inv, Scanning PROVE Inv'
<1>1. scan \in ScanType /\ (scan.pc # "idle" => scan.at \in RunIds)
  BY OtherTypes
<1>2. CASE ScanList
  <2>. DEFINE x == [scan EXCEPT !.todo = {r \in RunIds : TimedOut(r)}]
  <2>1. {r \in RunIds : TimedOut(r)} \in SUBSET RunIds
    OBVIOUS
  <2>2. scan.pc = "idle"
    BY <1>2 DEF ScanList, NoScan
  <2>3. x \in ScanType /\ x.pc = "idle"
    BY <1>1, <2>1, <2>2 DEF ScanType
  <2>. HIDE DEF x
  <2>4. scan' = x /\ UNCHANGED <<tables, exec, token, rest, phase, ran, told, budget>>
    BY <1>2 DEF ScanList, x
  <2>. QED  BY <2>3, <2>4, ScanMoves
<1>3. ASSUME NEW r \in RunIds, ScanCheck(r) PROVE Inv'
  <2>1. UNCHANGED <<tables, exec, token, rest, phase, ran, told, budget>>
    BY <1>3 DEF ScanCheck
  <2>. DEFINE x == [scan EXCEPT !.todo = @ \ {r}]
  <2>2. x \in ScanType
    BY <1>1 DEF ScanType
  <2>3. CASE token[r] = "none"
    <3>. DEFINE y == [x EXCEPT !.at = r]
                z == [y EXCEPT !.pc = "read"]
    <3>1. scan' = z
      BY <1>3, <2>3 DEF ScanCheck
    <3>. HIDE DEF x
    <3>2. y \in ScanType /\ y.at = r
      BY <2>2 DEF ScanType
    <3>. HIDE DEF y
    <3>3. z \in ScanType /\ z.at = r
      BY <3>2 DEF ScanType
    <3>. QED  BY <2>1, <3>1, <3>3, ScanMoves
  <2>4. CASE token[r] # "none"
    <3>. DEFINE y == [x EXCEPT !.at = NULL]
                z == [y EXCEPT !.pc = "idle"]
    <3>1. scan' = z
      BY <1>3, <2>4 DEF ScanCheck
    <3>. HIDE DEF x
    <3>2. y \in ScanType
      BY <2>2 DEF ScanType
    <3>. HIDE DEF y
    <3>3. z \in ScanType /\ z.pc = "idle"
      BY <3>2 DEF ScanType
    <3>. QED  BY <2>1, <3>1, <3>3, ScanMoves
  <2>. QED  BY <2>3, <2>4
<1>4. CASE ScanRead
  <2>1. UNCHANGED <<tables, exec, token, rest, phase, ran, told, budget>> /\ scan.pc = "read"
    BY <1>4 DEF ScanRead
  <2>. DEFINE x == [scan EXCEPT !.pc = "land"]
              y == [scan EXCEPT !.at = NULL]
              z == [y EXCEPT !.pc = "idle"]
  <2>2. scan' = x \/ scan' = z
    BY <1>4 DEF ScanRead
  <2>3. x \in ScanType /\ x.at \in RunIds
    BY <1>1, <2>1 DEF ScanType
  <2>4. y \in ScanType
    BY <1>1 DEF ScanType
  <2>. HIDE DEF x, y
  <2>5. z \in ScanType /\ z.pc = "idle"
    BY <2>4 DEF ScanType
  <2>. HIDE DEF z
  <2>. QED  BY <2>1, <2>2, <2>3, <2>5, ScanMoves
<1>. QED  BY <1>2, <1>3, <1>4, ScanLandKeeps DEF Scanning

-----------------------------------------------------------------------------
(* A crash and the startup sweeps.                                         *)

\* What a crash leaves of a run: the parked call of a wait that it cut off.
LEMMA CrashedRun ==
    ASSUME Inv, NEW r \in RunIds
    PROVE  /\ RunKnown(r, "down", status[r], thread[r], rows[r], NoExec, "none", ran[r], told[r])
           /\ Undisturbed =>
                  DriveKnown("down", status[r], thread[r], rows[r], NoExec, ran[r])
<1>. DEFINE s == status[r]
            t == thread[r]
            w == rows[r]
            e == exec[r]
            n == ran[r]
<1>1. /\ TaskKnown(phase, s, t, w, e, token[r], n, told[r]) /\ PendingKnown(w, e)
      /\ EndKnown(s, told[r]) /\ w \in Seq(ApprovalType) /\ t \in ThreadType
      /\ NoExec.pc = "idle" /\ NoExec.row = 0 /\ ~NoExec.parked /\ ~NoExec.asked
  BY RunFacts, NoExecFacts
<1>2. TaskKnown("down", s, t, w, NoExec, "none", n, told[r])
  <2>1. 0 \in 0..Len(w)
    BY <1>1
  <2>. QED  BY <1>1, <2>1 DEF TaskKnown, OnCall
<1>3. PendingKnown(w, NoExec)
  BY <1>1 DEF PendingKnown
<1>4. ASSUME r \in PlanRuns, ~PlanApproved(w) PROVE PlanKnown(t, w, NoExec, n)
  BY <1>1, <1>4, RunFacts DEF PlanKnown
<1>5. ASSUME Undisturbed PROVE DriveKnown("down", s, t, w, NoExec, n)
  <2>1. DriveKnown(phase, s, t, w, e, n)
    BY <1>5, RunFacts
  <2>2. ASSUME s = "awaiting", NEW j \in DOMAIN w, IsPending(w, j)
        PROVE  ParkedAt(t, w[j].call, n)
    <3>1. CASE e.pc = "idle"
      BY <2>1, <2>2, <3>1 DEF DriveKnown
    <3>2. CASE e.pc = "wait" /\ j = e.row
      <4>1. /\ w[j].call = CallIn(t, e) /\ e.i \in DOMAIN t.turn
            /\ UpTo(t, e.i, e.i, n)
        BY <1>1, <2>1, <3>2 DEF TaskKnown, DriveKnown, OnCall
      <4>. QED  BY <4>1 DEF ParkedAt, CallIn
    <3>. QED  BY <1>1, <2>2, <3>1, <3>2 DEF PendingKnown
  <2>3. StatusKnown("down", s, NoExec)
    BY <1>1 DEF StatusKnown
  <2>. QED  BY <1>1, <2>1, <2>2, <2>3 DEF DriveKnown
<1>. QED  BY <1>1, <1>2, <1>3, <1>4, <1>5 DEF RunKnown

LEMMA CrashKeeps == ASSUME Inv, Crash PROVE Inv'
<1>1. /\ Typed /\ phase' = "down" /\ status' = status /\ thread' = thread /\ rows' = rows
      /\ ran' = ran /\ told' = told /\ (Undisturbed' => Undisturbed)
  BY DEF Crash, Inv, tables, Undisturbed
<1>2. /\ exec' = [r \in RunIds |-> NoExec] /\ token' = [r \in RunIds |-> "none"]
      /\ rest' = [c \in Clients |-> Idle] /\ scan' = NoScan
  BY DEF Crash
<1>3. NoScan \in ScanType /\ NoScan.pc = "idle"
  BY DEF NoScan, ScanType
<1>4. faults' \in Nat /\ crashes' \in Nat /\ panics' \in Nat /\ drops' \in Nat /\ calls' \in Nat
  BY <1>1 DEF Crash, Typed
<1>5. Typed'
  BY <1>1, <1>2, <1>3, <1>4, NoExecFacts, IdleFacts DEF Typed
<1>6. \A r \in RunIds : RunOK(r)'
  <2>1. TAKE r \in RunIds
  <2>2. exec'[r] = NoExec /\ token'[r] = "none"
    BY <1>2
  <2>. QED  BY <1>1, <2>2, CrashedRun DEF RunOK
<1>7. \A c \in Clients : rest'[c] = Idle
  BY <1>2
<1>8. \A c \in Clients, r \in RunIds : LinkOK(c, r)'
  BY <1>7, IdleFacts DEF LinkOK
<1>. QED  BY <1>5, <1>6, <1>7, <1>8 DEF Inv

\* What a sweep leaves of the approvals of a run.
Swept(v, w) ==
    /\ DOMAIN w = DOMAIN v /\ Len(w) = Len(v)
    /\ \A j \in DOMAIN v :
          /\ w[j].call = v[j].call
          /\ IsPending(w, j) => IsPending(v, j)
          /\ v[j].status = "approved" => w[j].status = "approved"

\* A run after a sweep: its status stays, or it had not ended and is cancelled.
SweptRun(s, l, s1, l1) ==
    \/ s1 = s /\ l1 = l
    \/ s \in Status \ (Terminal \cup {"none"}) /\ s1 = "cancelled"
       /\ l1 \in {l, Append(l, "cancelled")}

LEMMA SweptKeeps ==
    ASSUME Inv, NEW r \in RunIds, phase # "up",
           NEW w \in Seq(ApprovalType), Swept(rows[r], w),
           NEW s, NEW l, SweptRun(status[r], told[r], s, l),
           NEW p, p = "up" => s \in Terminal \cup {"none", "awaiting"}
    PROVE  /\ s \in Status /\ l \in Seq(Terminal)
           /\ RunKnown(r, p, s, thread[r], w, exec[r], token[r], ran[r], l)
           /\ Undisturbed => DriveKnown(p, s, thread[r], w, exec[r], ran[r])
<1>. DEFINE v == rows[r]
            e == exec[r]
            t == thread[r]
            n == ran[r]
<1>1. /\ TaskKnown(phase, status[r], t, v, e, token[r], n, told[r]) /\ PendingKnown(v, e)
      /\ EndKnown(status[r], told[r]) /\ v \in Seq(ApprovalType) /\ status[r] \in Status
      /\ told[r] \in Seq(Terminal)
  BY RunFacts
<1>2. e.pc = "idle"
  BY <1>1 DEF TaskKnown
<1>3. /\ s \in Status /\ l \in Seq(Terminal) /\ EndKnown(s, l)
      /\ s = "none" => status[r] = "none" /\ l = told[r]
      /\ s = "awaiting" => status[r] = "awaiting"
  <2>1. CASE s = status[r] /\ l = told[r]
    BY <1>1, <2>1
  <2>2. CASE status[r] \in Status \ (Terminal \cup {"none"}) /\ s = "cancelled"
             /\ l \in {told[r], Append(told[r], "cancelled")}
    <3>1. l \in {<<>>, <<"cancelled">>} /\ l \in Seq(Terminal)
      BY <1>1, <2>2, FirstEvent
    <3>. QED  BY <2>2, <3>1 DEF EndKnown, Status, Terminal
  <2>. QED  BY <2>1, <2>2 DEF SweptRun
<1>4. v = <<>> => w = <<>>
  BY <1>1 DEF Swept
<1>5. TaskKnown(p, s, t, w, e, token[r], n, l)
  BY <1>1, <1>2, <1>3, <1>4 DEF TaskKnown, Swept, OnCall
<1>6. PendingKnown(w, e)
  BY <1>1, <1>2 DEF PendingKnown, Swept
<1>7. ASSUME r \in PlanRuns, ~PlanApproved(w) PROVE PlanKnown(t, w, e, n)
  <2>1. ~PlanApproved(v)
    BY <1>7 DEF PlanApproved, Swept
  <2>2. PlanKnown(t, v, e, n)
    BY <1>7, <2>1, RunFacts
  <2>3. ~(e.parked /\ e.pc \in {"enter", "calls"})
    BY <1>2
  <2>. QED  BY <1>2, <2>2, <2>3 DEF PlanKnown, Swept
<1>8. ASSUME Undisturbed PROVE DriveKnown(p, s, t, w, e, n)
  <2>1. DriveKnown(phase, status[r], t, v, e, n)
    BY <1>8, RunFacts
  <2>2. \A c : ApprovedFor(v, c) => ApprovedFor(w, c)
    BY DEF ApprovedFor, Swept
  <2>3. RanAllowed(w, n)
    BY <2>1, <2>2 DEF RanAllowed, DriveKnown
  <2>4. s = "awaiting" => \A j \in DOMAIN w : IsPending(w, j) => ParkedAt(t, w[j].call, n)
    BY <1>2, <1>3, <2>1 DEF DriveKnown, Swept
  <2>5. StatusKnown(p, s, e)
    BY <1>2 DEF StatusKnown
  <2>. QED  BY <1>2, <2>1, <2>3, <2>4, <2>5 DEF DriveKnown
<1>. QED  BY <1>3, <1>5, <1>6, <1>7, <1>8 DEF RunKnown

LEMMA SweepKeeps ==
    ASSUME Inv, phase # "up", phase' \in {"restore", "sweep", "up"},
           UNCHANGED <<thread, exec, token, rest, scan, ran, budget>>,
           DOMAIN status' = RunIds, DOMAIN rows' = RunIds, DOMAIN told' = RunIds,
           status' = [r \in RunIds |-> status'[r]], rows' = [r \in RunIds |-> rows'[r]],
           told' = [r \in RunIds |-> told'[r]],
           \A r \in RunIds :
               /\ rows'[r] \in Seq(ApprovalType) /\ Swept(rows[r], rows'[r])
               /\ SweptRun(status[r], told[r], status'[r], told'[r])
               /\ phase' = "up" => status'[r] \in Terminal \cup {"none", "awaiting"}
    PROVE  Inv'
<1>1. /\ Typed /\ BudgetStep /\ (Undisturbed' => Undisturbed)
      /\ \A c \in Clients : rest[c] = Idle
  BY BudgetKept DEF Inv, NoFault, BudgetStep
<1>2. ASSUME NEW r \in RunIds
      PROVE  /\ status'[r] \in Status /\ told'[r] \in Seq(Terminal)
             /\ RunKnown(r, phase', status'[r], thread[r], rows'[r], exec[r], token[r], ran[r],
                         told'[r])
             /\ Undisturbed => DriveKnown(phase', status'[r], thread[r], rows'[r], exec[r], ran[r])
  BY SweptKeeps
<1>3. /\ status' \in [RunIds -> Status] /\ told' \in [RunIds -> Seq(Terminal)]
      /\ rows' \in [RunIds -> Seq(ApprovalType)]
  BY <1>2
<1>4. Typed'
  BY <1>1, <1>3 DEF Typed, BudgetStep
<1>5. \A r \in RunIds : RunOK(r)'
  BY <1>1, <1>2 DEF RunOK
<1>6. \A c \in Clients : rest'[c] = Idle
  BY <1>1
<1>7. \A c \in Clients, r \in RunIds : LinkOK(c, r)'
  BY <1>6, IdleFacts DEF LinkOK
<1>. QED  BY <1>4, <1>5, <1>6, <1>7 DEF Inv

\* A sweep settles the approvals Q of a run as s.
SweptRows(v, Q, s) ==
    [j \in DOMAIN v |-> IF j \in Q THEN [v[j] EXCEPT !.status = s] ELSE v[j]]

LEMMA SweptRowsFacts ==
    ASSUME NEW v \in Seq(ApprovalType), NEW Q \in SUBSET DOMAIN v,
           \A j \in Q : IsPending(v, j), NEW s \in ApprovalStatus \ {"pending"},
           NEW w, w = SweptRows(v, Q, s)
    PROVE  w \in Seq(ApprovalType) /\ Swept(v, w)
<1>1. ASSUME NEW j \in DOMAIN v
      PROVE  /\ w[j] \in ApprovalType /\ w[j].call = v[j].call
             /\ IsPending(w, j) => IsPending(v, j)
             /\ v[j].status = "approved" => w[j].status = "approved"
  <2>. DEFINE x == v[j]
              y == [x EXCEPT !.status = s]
  <2>1. x \in ApprovalType
    BY RowFacts
  <2>2. y \in ApprovalType /\ y.call = x.call /\ y.status = s
    BY <2>1 DEF ApprovalType, ApprovalStatus
  <2>3. w[j] = IF j \in Q THEN y ELSE x
    BY DEF SweptRows
  <2>. HIDE DEF y
  <2>4. CASE j \in Q
    BY <2>2, <2>3, <2>4 DEF IsPending
  <2>5. CASE j \notin Q
    BY <2>1, <2>3, <2>5 DEF IsPending
  <2>. QED  BY <2>4, <2>5
<1>2. DOMAIN w = DOMAIN v /\ DOMAIN v = 1..Len(v) /\ Len(v) \in Nat
  BY DEF SweptRows
<1>3. w \in [1..Len(v) -> ApprovalType]
  BY <1>1, <1>2 DEF SweptRows
<1>4. w \in Seq(ApprovalType) /\ Len(w) = Len(v)
  BY <1>2, <1>3
<1>. QED  BY <1>1, <1>2, <1>4 DEF Swept

LEMMA SweepExpiredKeeps == ASSUME Inv, SweepExpired PROVE Inv'
<1>1. /\ phase = "down" /\ phase' = "restore"
      /\ UNCHANGED <<thread, exec, token, rest, scan, ran, budget>>
      /\ status' = [r \in RunIds |-> IF ParkedTimedOut(status[r], rows'[r])
                                     THEN "cancelled" ELSE status[r]]
      /\ told' = [r \in RunIds |-> IF status'[r] # status[r]
                                   THEN Append(told[r], "cancelled") ELSE told[r]]
  BY DEF SweepExpired
<1>2. PICK late \in SUBSET RunIds :
         rows' = [r \in RunIds |-> [k \in DOMAIN rows[r] |->
             IF r \in late /\ rows[r][k].status = "pending"
             THEN [rows[r][k] EXCEPT !.status = "timed_out"] ELSE rows[r][k]]]
  BY DEF SweepExpired
<1>3. ASSUME NEW r \in RunIds
      PROVE  rows'[r] \in Seq(ApprovalType) /\ Swept(rows[r], rows'[r])
  <2>. DEFINE Q == {k \in DOMAIN rows[r] : r \in late /\ rows[r][k].status = "pending"}
  <2>1. /\ rows[r] \in Seq(ApprovalType) /\ Q \in SUBSET DOMAIN rows[r]
        /\ \A k \in Q : IsPending(rows[r], k)
        /\ "timed_out" \in ApprovalStatus \ {"pending"}
    BY RunFacts DEF IsPending, ApprovalStatus
  <2>2. rows'[r] = SweptRows(rows[r], Q, "timed_out")
    BY <1>2 DEF SweptRows
  <2>. HIDE DEF Q
  <2>. QED  BY <2>1, <2>2, SweptRowsFacts
<1>4. ASSUME NEW r \in RunIds
      PROVE  SweptRun(status[r], told[r], status'[r], told'[r])
  <2>1. CASE ParkedTimedOut(status[r], rows'[r])
    <3>1. status[r] = "awaiting" /\ status'[r] = "cancelled"
      BY <1>1, <2>1 DEF ParkedTimedOut
    <3>2. told'[r] = Append(told[r], "cancelled")
      BY <1>1, <3>1
    <3>. QED  BY <3>1, <3>2 DEF SweptRun, Status, Terminal
  <2>2. CASE ~ParkedTimedOut(status[r], rows'[r])
    BY <1>1, <2>2 DEF SweptRun
  <2>. QED  BY <2>1, <2>2
<1>5. /\ status' = [r \in RunIds |-> status'[r]] /\ rows' = [r \in RunIds |-> rows'[r]]
      /\ told' = [r \in RunIds |-> told'[r]]
      /\ DOMAIN status' = RunIds /\ DOMAIN rows' = RunIds /\ DOMAIN told' = RunIds
  BY <1>1, <1>2
<1>. QED  BY <1>1, <1>3, <1>4, <1>5, SweepKeeps

LEMMA RestorePendingKeeps == ASSUME Inv, RestorePending PROVE Inv'
<1>1. /\ phase = "restore" /\ phase' = "sweep" /\ status' = status /\ told' = told
      /\ UNCHANGED <<thread, exec, token, rest, scan, ran, budget>> /\ Typed
  BY DEF RestorePending, Inv
<1>2. PICK drift \in SUBSET RunIds :
         rows' = [r \in RunIds |-> [k \in DOMAIN rows[r] |->
             IF /\ rows[r][k].status = "pending"
                /\ r \in drift \/ ~Restorable(status[r], thread[r], rows[r][k])
             THEN [rows[r][k] EXCEPT !.status = "aborted"] ELSE rows[r][k]]]
  BY DEF RestorePending
<1>3. ASSUME NEW r \in RunIds
      PROVE  rows'[r] \in Seq(ApprovalType) /\ Swept(rows[r], rows'[r])
  <2>. DEFINE Q == {k \in DOMAIN rows[r] :
                       /\ rows[r][k].status = "pending"
                       /\ r \in drift \/ ~Restorable(status[r], thread[r], rows[r][k])}
  <2>1. /\ rows[r] \in Seq(ApprovalType) /\ Q \in SUBSET DOMAIN rows[r]
        /\ \A k \in Q : IsPending(rows[r], k)
        /\ "aborted" \in ApprovalStatus \ {"pending"}
    BY RunFacts DEF IsPending, ApprovalStatus
  <2>2. rows'[r] = SweptRows(rows[r], Q, "aborted")
    BY <1>2 DEF SweptRows
  <2>. HIDE DEF Q
  <2>. QED  BY <2>1, <2>2, SweptRowsFacts
<1>4. \A r \in RunIds : SweptRun(status[r], told[r], status'[r], told'[r])
  BY <1>1 DEF SweptRun
<1>5. /\ status' = [r \in RunIds |-> status'[r]] /\ rows' = [r \in RunIds |-> rows'[r]]
      /\ told' = [r \in RunIds |-> told'[r]]
      /\ DOMAIN status' = RunIds /\ DOMAIN rows' = RunIds /\ DOMAIN told' = RunIds
  BY <1>1, <1>2 DEF Typed
<1>. QED  BY <1>1, <1>3, <1>4, <1>5, SweepKeeps

LEMMA SweepOrphansKeeps == ASSUME Inv, SweepOrphans PROVE Inv'
<1>1. /\ phase = "sweep" /\ phase' = "up" /\ told' = told /\ rows' = rows
      /\ UNCHANGED <<thread, exec, token, rest, scan, ran, budget>> /\ Typed
      /\ status' = [r \in RunIds |-> IF Orphan(r) THEN "cancelled" ELSE status[r]]
  BY DEF SweepOrphans, Inv
<1>2. ASSUME NEW r \in RunIds
      PROVE  /\ rows'[r] \in Seq(ApprovalType) /\ Swept(rows[r], rows'[r])
             /\ SweptRun(status[r], told[r], status'[r], told'[r])
             /\ status'[r] \in Terminal \cup {"none", "awaiting"}
  <2>1. rows[r] \in Seq(ApprovalType) /\ status[r] \in Status
    BY RunFacts
  <2>2. CASE Orphan(r)
    BY <1>1, <2>1, <2>2 DEF Orphan, Swept, SweptRun, Status, Terminal
  <2>3. CASE ~Orphan(r)
    BY <1>1, <2>1, <2>3 DEF Orphan, Swept, SweptRun, Status, Terminal
  <2>. QED  BY <2>2, <2>3
<1>3. /\ status' = [r \in RunIds |-> status'[r]] /\ rows' = [r \in RunIds |-> rows'[r]]
      /\ told' = [r \in RunIds |-> told'[r]]
      /\ DOMAIN status' = RunIds /\ DOMAIN rows' = RunIds /\ DOMAIN told' = RunIds
  BY <1>1 DEF Typed
<1>. QED  BY <1>1, <1>2, <1>3, SweepKeeps

-----------------------------------------------------------------------------
(* The invariant.                                                          *)

LEMMA InitInv == ASSUME Init PROVE Inv
<1>1. /\ status = [r \in RunIds |-> "none"] /\ thread = [r \in RunIds |-> NoThread]
      /\ rows = [r \in RunIds |-> <<>>] /\ exec = [r \in RunIds |-> NoExec]
      /\ token = [r \in RunIds |-> "none"] /\ rest = [c \in Clients |-> Idle]
      /\ scan = NoScan /\ phase = "up"
      /\ ran = [r \in RunIds |-> <<>>] /\ told = [r \in RunIds |-> <<>>]
      /\ faults = 0 /\ crashes = 0 /\ panics = 0 /\ drops = 0 /\ calls = 0
  BY DEF Init
<1>2. NoScan \in ScanType /\ NoScan.pc = "idle"
  BY DEF NoScan, ScanType
<1>3. Typed
  <2>1. <<>> \in Seq(ApprovalType) /\ <<>> \in Seq(CallType) /\ <<>> \in Seq(Terminal)
        /\ "none" \in Status
    BY DEF Status
  <2>. QED  BY <1>1, <1>2, <2>1, NoExecFacts, IdleFacts DEF Typed
<1>4. \A r \in RunIds : RunOK(r)
  <2>1. TAKE r \in RunIds
  <2>2. /\ status[r] = "none" /\ thread[r] = NoThread /\ rows[r] = <<>> /\ exec[r] = NoExec
        /\ token[r] = "none" /\ ran[r] = <<>> /\ told[r] = <<>>
    BY <1>1
  <2>3. TaskKnown("up", "none", NoThread, <<>>, NoExec, "none", <<>>, <<>>)
    BY NoExecFacts DEF TaskKnown, NoThread, OnCall
  <2>4. PendingKnown(<<>>, NoExec) /\ EndKnown("none", <<>>)
    BY DEF PendingKnown, EndKnown
  <2>5. PlanKnown(NoThread, <<>>, NoExec, <<>>)
    BY NoExecFacts DEF PlanKnown
  <2>6. DriveKnown("up", "none", NoThread, <<>>, NoExec, <<>>)
    BY NoExecFacts DEF DriveKnown, StatusKnown, RanOnce, RanAllowed
  <2>. QED  BY <1>1, <2>2, <2>3, <2>4, <2>5, <2>6 DEF RunOK, RunKnown
<1>5. \A c \in Clients, r \in RunIds : LinkOK(c, r)
  BY <1>1, IdleFacts DEF LinkOK
<1>. QED  BY <1>1, <1>3, <1>4, <1>5 DEF Inv

LEMMA NextKeeps == ASSUME Inv, [Next]_vars PROVE Inv'
<1>1. ASSUME NEW r \in RunIds, Start(r) \/ TaskStep(r) \/ Panic(r) PROVE Inv'
  BY <1>1, StartKeeps, TaskKeeps, PanicKeeps
<1>2. ASSUME NEW r \in RunIds, NEW k \in DOMAIN rows[r], Timeout(r, k) PROVE Inv'
  BY <1>2, TimeoutKeeps
<1>3. ASSUME NEW c \in Clients, NEW r \in RunIds, CancelRead(c, r) PROVE Inv'
  BY <1>3, CancelReadKeeps
<1>4. ASSUME NEW c \in Clients, NEW r \in RunIds, NEW k \in DOMAIN rows[r], NEW d \in Decisions,
             Decide(c, r, k, d)
      PROVE  Inv'
  BY <1>4, DecideKeeps
<1>5. ASSUME NEW c \in Clients, CallStep(c) \/ DropCall(c) PROVE Inv'
  BY <1>5, CallStepKeeps
<1>6. CASE Scanning \/ Crash
  BY <1>6, ScanningKeeps, CrashKeeps
<1>7. CASE Startup
  BY <1>7, SweepExpiredKeeps, RestorePendingKeeps, SweepOrphansKeeps DEF Startup
<1>8. CASE UNCHANGED vars
  <2>1. UNCHANGED <<tables, exec, token, rest, phase, ran, told, budget>> /\ scan' = scan
    BY <1>8 DEF vars
  <2>. QED  BY <2>1, ScanMoves, OtherTypes
<1>. QED  BY <1>1, <1>2, <1>3, <1>4, <1>5, <1>6, <1>7, <1>8 DEF Next

-----------------------------------------------------------------------------
(* The theorems.                                                           *)

\* Whatever the clients, the timers, the scan, the panics and the crashes do, each run's
\* row, thread, approvals and task agree with each other (lib.rs, resume.rs).
THEOREM RunsInvariant == Spec => []Inv
  BY InitInv, NextKeeps, PTL DEF Spec

\* Every variable keeps its type, a task's approval row exists, and a task that is at a
\* call is at a call of the turn on disk.
THEOREM RunsTypeCorrect == Spec => []TypeOK
<1>1. ASSUME Inv PROVE TypeOK
  <2>1. phase \in {"up", "down", "restore", "sweep"} /\ scan.todo \subseteq RunIds
    BY <1>1 DEF Inv, Typed, ScanType
  <2>2. ASSUME NEW r \in RunIds
        PROVE  /\ status[r] \in Status /\ token[r] \in {"none", "live", "cancelled"}
               /\ exec[r].pc \in Pcs /\ exec[r].row \in 0..Len(rows[r])
               /\ thread[r].done \subseteq DOMAIN thread[r].turn
               /\ exec[r].pc \in OnCall => exec[r].i \in DOMAIN thread[r].turn
    BY <1>1, RunFacts, TaskFacts DEF TaskKnown
  <2>. QED  BY <2>1, <2>2 DEF TypeOK, OnCall
<1>. QED  BY <1>1, RunsInvariant, PTL

\* No call of a turn is executed twice, whatever crashes, is answered late or is resumed in
\* between, for any number of runs, answers and turns (resume_run, drive_resume).
THEOREM CallsRunAtMostOnce == Spec => []AtMostOnce
<1>1. ASSUME Inv PROVE AtMostOnce
  BY <1>1, RunFacts DEF AtMostOnce, DriveKnown, RanOnce, IsInjective
<1>. QED  BY <1>1, RunsInvariant, PTL

\* A gated call runs only on an approval that was asked for that very call, although a
\* resume ties the two by tool and arguments only (assess_restore).
THEOREM CallsRunOnOwnApproval == Spec => []OwnApproval
<1>1. ASSUME Inv PROVE OwnApproval
  <2>1. SUFFICES ASSUME Undisturbed, NEW r \in RunIds, NEW a \in ToSet(ran[r]),
                        a.kind \in {"gated", "module"}
                 PROVE  ApprovedFor(rows[r], a)
    BY DEF OwnApproval, ApprovedFor
  <2>2. PICK j \in DOMAIN ran[r] : a = ran[r][j]
    BY DEF ToSet
  <2>. QED  BY <1>1, <2>1, <2>2, RunFacts DEF DriveKnown, RanAllowed
<1>. QED  BY <1>1, RunsInvariant, PTL

\* A run started in plan mode does nothing but read until a human approved a plan of its
\* own, whatever fails, panics or crashes in between (run_loop, drive_resume).
THEOREM PlansComeFirst == Spec => []PlanFirst
<1>1. ASSUME Inv PROVE PlanFirst
  <2>1. SUFFICES ASSUME NEW r \in PlanRuns, NEW a \in ToSet(ran[r]), a.kind # "read"
                 PROVE  PlanApproved(rows[r])
    BY DEF PlanFirst, PlanApproved
  <2>2. r \in RunIds
    BY RunsAssumption
  <2>3. PICK j \in DOMAIN ran[r] : a = ran[r][j]
    BY DEF ToSet
  <2>. QED  BY <1>1, <2>1, <2>2, <2>3, RunFacts DEF PlanKnown
<1>. QED  BY <1>1, RunsInvariant, PTL

\* At most one terminal event, and it is the row's status, with the task, the canceller,
\* the scan and the panic handler racing for it (transition_terminal).
THEOREM RunsEndOnce == Spec => []OneEnding
<1>1. ASSUME Inv PROVE OneEnding
  <2>1. ASSUME NEW r \in RunIds
        PROVE  Len(told[r]) <= 1 /\ (told[r] # <<>> => told[r] = <<status[r]>>)
    <3>1. told[r] = <<>> \/ told[r] = <<status[r]>>
      BY <1>1, RunFacts DEF EndKnown
    <3>2. Len(<<>>) = 0 /\ Len(<<status[r]>>) = 1
      OBVIOUS
    <3>3. CASE told[r] = <<>>
      BY <3>2, <3>3
    <3>4. CASE told[r] = <<status[r]>>
      BY <3>2, <3>4
    <3>. QED  BY <3>1, <3>3, <3>4
  <2>. QED  BY <2>1 DEF OneEnding
<1>. QED  BY <1>1, RunsInvariant, PTL

=============================================================================
