---------------------------- MODULE DeliveryPump ----------------------------
(***************************************************************************)
(* The delivery pump (deliveries.rs) over the tables of ModuleSchedules:   *)
(* one loop that sweeps expired fires, spawns an attempt per due fire      *)
(* within its concurrency caps, and applies the attempts' outcomes.  The   *)
(* attempts run concurrently with the loop, the tick, the module callbacks *)
(* and the REST handlers; between an attempt's fetch and its write the row *)
(* may be retired, superseded or deleted.                                  *)
(***************************************************************************)
EXTENDS ModuleSchedules

CONSTANTS
    PerOwner,       \* PER_OWNER_IN_FLIGHT (4 in the code)
    GlobalCap,      \* GLOBAL_IN_FLIGHT (16 in the code)
    DeferRecheck,   \* DEFER_RECHECK
    SweepInterval,  \* SWEEP_INTERVAL
    DbRetryAfter,   \* DB_WRITE_ERROR_RETRY_AFTER
    DbRetryMax,     \* DB_WRITE_ERROR_RETRY_MAX
    MaxFailures,    \* MAX_CONSECUTIVE_FAILURES (5 in the code)
    MaxFaults       \* bound: crashes and store errors

ASSUME PumpAssumption ==
    /\ PerOwner \in Nat \ {0} /\ GlobalCap \in Nat \ {0}
    /\ DeferRecheck \in Nat /\ SweepInterval \in Nat \ {0}
    /\ DbRetryAfter \in Nat /\ DbRetryMax \in Nat
    /\ MaxFailures \in Nat \ {0} /\ MaxFaults \in Nat
    /\ NULL \notin Outcome \cup Change

VARIABLES
    pump,     \* PumpState
    faults,   \* crashes and store errors so far
    closed,   \* history: fires that were outstanding and no longer are
    gaveUp,   \* history: fires that reached `failed`
    sends,    \* history: requests that may have reached the module, per fire
    dbFails   \* history: consecutive failed outcome writes per schedule

historyVars == <<closed, gaveUp, sends, dbFails>>
vars == <<tableVars, pump, faults, historyVars>>

Fires == Trigger \X Ids \X (0..MaxTime)
Attempt == [d : Delivery, outcome : Outcome \cup {NULL}]
Pump == [tasks : SUBSET Attempt,                        \* tasks, in_flight_task_rows
         busy  : SUBSET Ids,                            \* in_flight_schedules
         load  : [Owners -> Nat],                       \* in_flight_per_owner
         skip  : [Owners -> Instant],                   \* owner_skip_until, 0 without
         retry : [Ids -> [until : Instant, count : Nat]], \* schedule_retry_after
         swept : Instant]                               \* last_sweep

NoRetry == [until |-> 0, count |-> 0]

\* PumpState::new.
NewPump(now) ==
    [tasks |-> {}, busy |-> {}, load |-> [o \in Owners |-> 0], skip |-> [o \in Owners |-> 0],
     retry |-> [id \in Ids |-> NoRetry], swept |-> now]

Init ==
    /\ TableInit
    /\ pump = NewPump(clock) /\ faults = 0
    /\ closed = {} /\ gaveUp = {}
    /\ sends = [f \in Fires |-> 0] /\ dbFails = [id \in Ids |-> 0]

OpenFires == {FireId(d) : d \in {e \in deliv : Outstanding(e)}}
GivenUp == {FireId(d) : d \in {e \in deliv : e.status = "failed"}}

\* The histories of the delivery table, the same for every step.
Recorded ==
    /\ closed' = closed \cup (OpenFires \ OpenFires')
    /\ gaveUp' = gaveUp \cup GivenUp'

-----------------------------------------------------------------------------
(* fetch_and_spawn.                                                        *)

\* maybe_sweep's condition.
SweepDue == clock - pump.swept >= SweepInterval

\* prune_stale_caches.
PruneStaleCaches(p, now) ==
    [p EXCEPT !.skip  = [o \in Owners |-> IF p.skip[o] > now THEN p.skip[o] ELSE 0],
              !.retry = [id \in Ids |-> IF p.retry[id].until > now THEN p.retry[id]
                                        ELSE NoRetry]]

\* DUE_DELIVERIES_SQL's WHERE, with the owners of skip_owners_json.
DueDeliveries(p, table, now) ==
    {d \in table : /\ Outstanding(d) /\ d.due <= now /\ d.expires > now
                   /\ p.skip[OwnerOf[d.id]] <= now}

\* Oldest slot first; fires of one slot are ordered by a hash.
SlotOrdered(s) == \A i, j \in 1..Len(s) : i < j => s[i].slot <= s[j].slot

\* The positions of the PerOwner oldest rows of each owner, at most GlobalCap in all.
Window(s) ==
    LET Rank(i) == Cardinality({j \in 1..i : OwnerOf[s[j].id] = OwnerOf[s[i].id]})
        kept == {i \in DOMAIN s : Rank(i) <= PerOwner}
    IN  {i \in kept : Cardinality({j \in kept : j <= i}) <= GlobalCap}

\* begin_attempt and the spawn, for the rows D.
BeginAttempts(p, D) ==
    [p EXCEPT !.tasks = @ \cup {[d |-> d, outcome |-> NULL] : d \in D},
              !.busy = @ \cup {d.id : d \in D},
              !.load = [o \in Owners |-> p.load[o] + Cardinality({d \in D : OwnerOf[d.id] = o})]]

\* The caps, one attempt per schedule, and the schedule's own write backoff.
HasRoom(p, d, now) ==
    /\ Cardinality(p.tasks) < GlobalCap
    /\ p.load[OwnerOf[d.id]] < PerOwner
    /\ d.id \notin p.busy
    /\ p.retry[d.id].until <= now

\* The rows at the positions K.
Chosen(s, K) == {s[i] : i \in K}

\* The loop over the fetched rows starts those at the positions K: the ones that still had
\* room after those started before them.
Starts(p, s, K, now) ==
    \A i \in Window(s) :
        i \in K <=> HasRoom(BeginAttempts(p, Chosen(s, {k \in K : k < i})), s[i], now)

\* One wake of the loop.  The sweep and the query are two statements: the sweep retires
\* only rows the query leaves out, so nothing between them matters to either.
FetchAndSpawn ==
    /\ deliv' = IF SweepDue THEN ExpireDeliveries(deliv, clock) ELSE deliv
    /\ LET p == PruneStaleCaches([pump EXCEPT !.swept = IF SweepDue THEN clock ELSE @], clock)
           due == DueDeliveries(p, deliv', clock)
       IN  IF Cardinality(p.tasks) >= GlobalCap
           THEN pump' = p
           ELSE \E s \in {t \in SetToSeqs(due) : SlotOrdered(t)} :
                \E K \in SUBSET Window(s) :
                   Starts(p, s, K, clock) /\ pump' = BeginAttempts(p, Chosen(s, K))
    /\ Recorded
    /\ UNCHANGED <<clock, rows, used, installed, tickNow, todo, call,
                   faults, sends, dbFails>>

\* The sweep's write fails: last_sweep has moved, the next sweep is an interval away.
SweepError ==
    /\ faults < MaxFaults /\ SweepDue
    /\ faults' = faults + 1
    /\ pump' = [pump EXCEPT !.swept = clock]
    /\ UNCHANGED <<tableVars, historyVars>>

-----------------------------------------------------------------------------
(* Attempts.                                                               *)

\* run_attempt ends: the module answered 2xx, was not reached, failed, or the task
\* panicked.  A module that is not in this run's catalogue is never reached.
RunAttempt(t, outcome) ==
    /\ t \in pump.tasks /\ t.outcome = NULL
    /\ OwnerOf[t.d.id] \notin installed => outcome \in {"deferred", "panicked"}
    /\ pump' = [pump EXCEPT !.tasks = (@ \ {t}) \cup {[t EXCEPT !.outcome = outcome]}]
    /\ sends' = IF outcome = "deferred" THEN sends
                ELSE [sends EXCEPT ![FireId(t.d)] = @ + 1]
    /\ UNCHANGED <<tableVars, faults, closed, gaveUp, dbFails>>

\* release_slot, and the task leaves the join set.
ReleaseSlot(p, t) ==
    [p EXCEPT !.tasks = @ \ {t}, !.busy = @ \ {t.d.id},
              !.load[OwnerOf[t.d.id]] = IF @ > 0 THEN @ - 1 ELSE 0]

\* end_attempt, or release_slot alone after a panic, which says nothing of the owner.
EndAttempt(p, t, now) ==
    LET q == ReleaseSlot(p, t)
        owner == OwnerOf[t.d.id]
    IN  CASE t.outcome = "panicked" -> q
          [] t.outcome = "deferred" -> [q EXCEPT !.skip[owner] = now + DeferRecheck]
          [] OTHER                  -> [q EXCEPT !.skip[owner] = 0]

\* Mutant: the result is applied to whatever became of the row.
OutcomeBlind(e, d) == FireId(e) = FireId(d)

\* apply_delivery_outcome's WHERE, for the row d an attempt was spawned with.
OutcomeHolds(e, d) == FireId(e) = FireId(d) /\ Outstanding(e) /\ e.attempts = d.attempts

\* The schedule's side of a fire that failed for good.
CountFailure(row) ==
    LET disable == row.failures + 1 >= MaxFailures /\ ~row.sys
    IN  [row EXCEPT !.failures = @ + 1,
                    !.sys = @ \/ disable,
                    !.next = IF disable THEN NULL ELSE @,
                    !.revision = IF disable THEN @ + 1 ELSE @]

\* apply_delivery_outcome, on the row e that matched.
ApplyDeliveryOutcome(e, a, now) ==
    /\ deliv' = (deliv \ {e}) \cup
                  {[e EXCEPT !.status = a.status, !.attempts = a.attempts, !.due = a.due,
                             !.updated = now]}
    /\ rows' = CASE a.resets -> [rows EXCEPT ![e.id].failures = 0]
                 [] a.counts -> [rows EXCEPT ![e.id] = CountFailure(@)]
                 [] OTHER    -> rows

\* apply_joined, apply_attempt: the write landed, was not needed or lost its CAS.
ApplyAttempt(t) ==
    /\ t \in pump.tasks /\ t.outcome # NULL
    /\ LET a == ApplyOutcome(t.d.status, t.d.attempts, t.outcome, clock)
           held == {e \in deliv : OutcomeHolds(e, t.d)}
           p == EndAttempt(pump, t, clock)
       IN  /\ IF a # NULL /\ held # {}
              THEN \E e \in held : ApplyDeliveryOutcome(e, a, clock)
              ELSE UNCHANGED <<rows, deliv>>
           /\ pump' = IF a = NULL THEN p ELSE [p EXCEPT !.retry[t.d.id] = NoRetry]
           /\ dbFails' = IF a = NULL THEN dbFails ELSE [dbFails EXCEPT ![t.d.id] = 0]
    /\ Recorded
    /\ UNCHANGED <<clock, used, installed, tickNow, todo, call, faults, sends>>

\* db_write_backoff.
DbWriteBackoff(n) ==
    LET wait == DbRetryAfter * 2 ^ (IF n - 1 < 6 THEN n - 1 ELSE 6)
    IN  IF wait < DbRetryMax THEN wait ELSE DbRetryMax

\* apply_attempt whose write failed: the attempt is not counted, the schedule backs off.
ApplyError(t) ==
    /\ faults < MaxFaults
    /\ t \in pump.tasks /\ t.outcome # NULL
    /\ ApplyOutcome(t.d.status, t.d.attempts, t.outcome, clock) # NULL
    /\ LET n == pump.retry[t.d.id].count + 1
       IN  pump' = [EndAttempt(pump, t, clock) EXCEPT
                      !.retry[t.d.id] = [until |-> clock + DbWriteBackoff(n), count |-> n]]
    /\ dbFails' = [dbFails EXCEPT ![t.d.id] = @ + 1]
    /\ faults' = faults + 1
    /\ UNCHANGED <<tableVars, closed, gaveUp, sends>>

-----------------------------------------------------------------------------
(* Faults of the whole daemon, and the composition.                        *)

\* A StoreError in one row's fire during a tick.
TickError ==
    /\ faults < MaxFaults
    /\ \E s \in todo : FireError(s)
    /\ faults' = faults + 1
    /\ UNCHANGED <<pump, historyVars>>

\* The daemon dies or is stopped and starts again, maybe with other modules installed.
\* Attempts are aborted; a request on its way may still reach the module.
Crash ==
    /\ faults < MaxFaults
    /\ faults' = faults + 1
    /\ tickNow' = 0 /\ todo' = {} /\ call' = [c \in Clients |-> NULL]
    /\ installed' \in SUBSET Owners
    /\ pump' = NewPump(clock)
    /\ sends' = [f \in Fires |->
                   IF \E t \in pump.tasks : FireId(t.d) = f /\ t.outcome = NULL
                   THEN sends[f] + 1 ELSE sends[f]]
    /\ dbFails' = [id \in Ids |-> 0]
    /\ UNCHANGED <<clock, rows, used, deliv, closed, gaveUp>>

\* The tick, the callbacks and the REST handlers run beside the pump.
Table == TableStep /\ Recorded /\ UNCHANGED <<pump, faults, sends, dbFails>>

Attempts ==
    \E t \in pump.tasks :
        \/ \E outcome \in Outcome : RunAttempt(t, outcome)
        \/ ApplyAttempt(t)
        \/ ApplyError(t)

Next == Table \/ FetchAndSpawn \/ SweepError \/ Attempts \/ TickError \/ Crash

Spec == Init /\ [][Next]_vars

\* Time passes, the pump's loop wakes every PUMP_INTERVAL, an attempt ends within its
\* timeout, and the loop applies an attempt that ended.
FairSpec ==
    /\ Spec
    /\ WF_vars(AdvanceClock /\ Recorded /\ UNCHANGED <<pump, faults, sends, dbFails>>)
    /\ WF_vars(FetchAndSpawn)
    /\ WF_vars(\E t \in pump.tasks : \E outcome \in Outcome : RunAttempt(t, outcome))
    /\ WF_vars(\E t \in pump.tasks : ApplyAttempt(t))

-----------------------------------------------------------------------------
(* Properties.                                                             *)

\* Every variable has its type; next_attempt_at is set exactly on outstanding rows (the
\* CHECK of the schedule_deliveries table).
TypeOK ==
    /\ TableTypeOK
    /\ \A d \in deliv : d.due # NULL <=> Outstanding(d)
    /\ \A t \in pump.tasks : t.d \in Delivery /\ t.outcome \in Outcome \cup {NULL}
    /\ pump.busy \subseteq Ids /\ pump.load \in [Owners -> Nat]
    /\ pump.skip \in [Owners -> Instant] /\ pump.swept \in Instant
    /\ \A id \in Ids : pump.retry[id].until \in Instant /\ pump.retry[id].count \in Nat

\* A module sees a fire at most MaxSent times, plus one for each result that was lost to a
\* crash or a failed write; superseding, sweeping and re-declaring grant no extra attempts.
SendsBounded == \A f \in Fires : sends[f] <= MaxSent + faults

\* The kernel disables a schedule only after MaxFailures of its fires failed for good: a
\* fire's retries, or a result applied twice, do not count more than once.
SystemDisableEarned ==
    \A id \in Ids :
        (Exists(id) /\ rows[id].sys)
            => Cardinality({f \in gaveUp : f[2] = id}) >= MaxFailures

\* The fires of the delivery table, seen as a ledger.
Ledger == INSTANCE FireLedger WITH open <- OpenFires, Source <- LAMBDA f : <<f[1], f[2]>>

\* The tables and the pump together implement the ledger of fires: at most one open fire
\* per source, and a fire once closed never reopens, not by a late result, not by a slot
\* armed a second time.
LedgerSpec == Ledger!Spec

\* A fire with a sweep after its TTL still to come within the horizon does not stay
\* outstanding: it is delivered, fails, or the sweep retires it, even when its module
\* never comes up. Said of behaviours without a fault, since a restart puts the next
\* sweep off.
SweptInTime(id) ==
    \E d \in deliv : /\ d.id = id /\ Outstanding(d)
                    /\ d.expires + SweepInterval <= MaxTime
FireSettles ==
    \A id \in Ids :
        clock + SweepInterval <= MaxTime /\ SweptInTime(id)
            ~> faults > 0 \/ ~SweptInTime(id)

\* What PumpState's comment says of schedule_retry_after: it carries the number of
\* consecutive write failures of the schedule.
BackoffCountsFailures ==
    \A id \in Ids : pump.retry[id].count > 0 => pump.retry[id].count = dbFails[id]
=============================================================================
