---------------------------- MODULE UserSchedules ----------------------------
(***************************************************************************)
(* User (AgentRun) schedules of agent24-scheduler over the `schedules`     *)
(* table of agent24-store.                                                 *)
(*                                                                         *)
(* Three kinds of process share a row without a lock held across an await: *)
(*                                                                         *)
(*   - the tick loop lists the due rows, then for each one pre-advances    *)
(*     next_run_at (a CAS), triggers an agent run, and settles the failure *)
(*     counter (a second CAS);                                             *)
(*   - REST clients PATCH a row: read, recompute, CAS, at most             *)
(*     UpdateAttempts times, all with the instant taken when the request   *)
(*     arrived;                                                            *)
(*   - REST clients create and delete rows.                                *)
(*                                                                         *)
(* The daemon may crash between any two steps; the store may fail any      *)
(* write of the tick.  One step of the model is one store transaction or   *)
(* one call of the trigger.                                                *)
(***************************************************************************)
EXTENDS ScheduleSpecs

CONSTANTS
    Ids,             \* schedule ids (ULIDs: never issued twice)
    Clients,         \* concurrent REST callers of PATCH
    Specs,           \* the specs callers submit
    Bodies,          \* name, action and delivery, as one value
    Updates,         \* the PATCH bodies callers send
    Legacy,          \* rows left by an older build whose spec no longer computes
    MaxFailures,     \* MAX_CONSECUTIVE_FAILURES (5 in the code)
    UpdateAttempts,  \* the bound of the PATCH loop (3 in the code)
    MaxTime,         \* bound: the horizon of the clock
    MaxRevision,     \* bound: no PATCH arrives at a row past this revision
    MaxFaults        \* bound: crashes and store errors

ASSUME UserAssumption ==
    /\ Specs \subseteq AnySpec
    /\ Updates \subseteq [spec : Specs \cup {NULL}, enabled : BOOLEAN \cup {NULL},
                          body : Bodies \cup {NULL}]
    /\ Legacy \subseteq Ids
    /\ MaxFailures \in Nat \ {0}
    /\ UpdateAttempts \in Nat \ {0}
    /\ MaxTime \in Nat \ {0}
    /\ NULL \notin Specs /\ NULL \notin BOOLEAN /\ NULL \notin Bodies

VARIABLES
    clock,     \* the wall clock
    rows,      \* the schedules table: a row, or NULL for an id without one
    used,      \* ids issued so far
    phase,     \* where the tick loop is: idle, scan, trigger, succeeded, failed
    tickNow,   \* the instant of the current tick
    todo,      \* rows listed by the current tick and not yet fired
    cur,       \* the listed row being fired
    patch,     \* the PATCH each client has in progress
    faults,    \* crashes and store errors so far
    floor,     \* ghost: the last slot pre-advanced since the row was last re-armed
    failed,    \* ghost: triggers failed since the counter was last cleared by a PATCH
    announced  \* ghost: ids with a schedule.disabled event since last enabled

tickVars  == <<phase, tickNow, todo, cur>>
ghostVars == <<floor, failed, announced>>
vars == <<clock, rows, used, tickVars, patch, faults, ghostVars>>

Row == [enabled : BOOLEAN, spec : Specs \cup {BrokenSpec}, body : Bodies,
        last : InstantOrNull, next : InstantOrNull, failures : Nat, revision : Nat]
Snapshot == [id : Ids, row : Row]
Call == [id : Ids, upd : Updates, now : Instant, attempt : Nat, seen : Row \cup {NULL}]

Exists(id) == rows[id] # NULL

Init ==
    /\ clock = 1
    /\ \E b \in Bodies :
         rows = [id \in Ids |->
                   IF id \in Legacy
                   THEN [enabled |-> TRUE, spec |-> BrokenSpec, body |-> b, last |-> NULL,
                         next |-> 1, failures |-> 0, revision |-> 1]
                   ELSE NULL]
    /\ used = Legacy
    /\ phase = "idle" /\ tickNow = 0 /\ todo = {} /\ cur = NULL
    /\ patch = [c \in Clients |-> NULL]
    /\ faults = 0
    /\ floor = [id \in Ids |-> 0]
    /\ failed = [id \in Ids |-> 0]
    /\ announced = {}

AdvanceClock ==
    /\ clock < MaxTime
    /\ clock' = clock + 1
    /\ UNCHANGED <<rows, used, tickVars, patch, faults, ghostVars>>

-----------------------------------------------------------------------------
(* REST create and delete.                                                 *)

\* The row Scheduler::create builds and upsert_schedule inserts.
NewRow(spec, enabled, body, now) ==
    [enabled |-> enabled, spec |-> spec, body |-> body, last |-> NULL,
     next |-> IF enabled THEN InitialFire(spec, now) ELSE NULL,
     failures |-> 0, revision |-> 1]

\* Scheduler::create under a fresh id.
Create(id, spec, enabled, body) ==
    /\ id \notin used
    /\ ValidAtTime(spec, clock)
    /\ rows' = [rows EXCEPT ![id] = NewRow(spec, enabled, body, clock)]
    /\ used' = used \cup {id}
    /\ UNCHANGED <<clock, tickVars, patch, faults, ghostVars>>

\* Scheduler::delete: the unconditional delete_schedule.
Delete(id) ==
    /\ Exists(id)
    /\ rows' = [rows EXCEPT ![id] = NULL]
    /\ UNCHANGED <<clock, used, tickVars, patch, faults, ghostVars>>

-----------------------------------------------------------------------------
(* REST PATCH: update_inner, apply_user_update, update_user_schedule_cas.  *)

Given(field, stored) == IF field = NULL THEN stored ELSE field

\* Whether apply_user_update recomputes the slot: a spec was sent, or enabled is toggled.
Recomputes(row, upd) == upd.spec # NULL \/ Given(upd.enabled, row.enabled) # row.enabled

\* Whether it clears the counter: an unchanged "at" keeps its failure signal.
Clears(row, upd) == Recomputes(row, upd) /\ (upd.spec # NULL \/ ~IsAt(row.spec))

\* Mutant: switching a row back on forgets its slot.
RearmedOnSpecOnly(row, upd, now) ==
    IF upd.spec # NULL /\ Given(upd.enabled, row.enabled)
    THEN InitialFire(upd.spec, now) ELSE NULL

\* The next_run_at of a recompute.
Rearmed(row, upd, now) ==
    LET spec == Given(upd.spec, row.spec)
    IN  IF Given(upd.enabled, row.enabled) = FALSE THEN NULL
        ELSE IF upd.spec # NULL THEN InitialFire(spec, now)
        ELSE IF IsAt(spec) /\ row.failures > 0 THEN now
        ELSE NextFire(spec, now)

\* apply_user_update: the row a PATCH wants, a pure function of the row it read.
ApplyUserUpdate(row, upd, now) ==
    [row EXCEPT
       !.spec     = Given(upd.spec, row.spec),
       !.enabled  = Given(upd.enabled, row.enabled),
       !.body     = Given(upd.body, row.body),
       !.next     = IF Recomputes(row, upd) THEN Rearmed(row, upd, now) ELSE row.next,
       !.failures = IF Clears(row, upd) THEN 0 ELSE row.failures]

\* apply_user_update answers Ok: the spec is within the skew, and the slot computes.
UpdateAccepted(row, upd, now) ==
    /\ upd.spec # NULL => ValidAtTime(upd.spec, now)
    /\ (upd.spec = NULL /\ Recomputes(row, upd) /\ Given(upd.enabled, row.enabled))
         => Computes(row.spec)

\* Mutant: the CAS pins the revision only.
UserCasRevisionOnly(id, seen) ==
    Exists(id) /\ rows[id].revision = seen.revision

\* UPDATE_USER_SCHEDULE_CAS_SQL's WHERE: the pre-advance does not bump the revision,
\* so next_run_at and last_run_at are pinned as well.
UserCasHolds(id, seen) ==
    /\ Exists(id)
    /\ rows[id].revision = seen.revision
    /\ rows[id].next = seen.next
    /\ rows[id].last = seen.last

\* The handler takes `now` on arrival, before its first read.
PatchCall(c, id, upd) ==
    /\ patch[c] = NULL
    /\ Exists(id) /\ rows[id].revision < MaxRevision
    /\ patch' = [patch EXCEPT ![c] =
                   [id |-> id, upd |-> upd, now |-> clock, attempt |-> 1, seen |-> NULL]]
    /\ UNCHANGED <<clock, rows, used, tickVars, faults, ghostVars>>

\* One attempt's read; NotFound and a refused update end the call.
PatchRead(c) ==
    /\ patch[c] # NULL /\ patch[c].seen = NULL
    /\ LET p == patch[c]
       IN  patch' = [patch EXCEPT ![c] =
             IF Exists(p.id) /\ UpdateAccepted(rows[p.id], p.upd, p.now)
             THEN [p EXCEPT !.seen = rows[p.id]]
             ELSE NULL]
    /\ UNCHANGED <<clock, rows, used, tickVars, faults, ghostVars>>

\* The attempt's write landed: the call is over and the revision moves.
PatchLand(c) ==
    /\ patch[c] # NULL /\ patch[c].seen # NULL
    /\ LET p == patch[c]
           new == ApplyUserUpdate(p.seen, p.upd, p.now)
       IN  /\ UserCasHolds(p.id, p.seen)
           /\ rows' = [rows EXCEPT ![p.id] =
                         [new EXCEPT !.revision = rows[p.id].revision + 1]]
           /\ floor' = IF Recomputes(p.seen, p.upd) THEN [floor EXCEPT ![p.id] = 0] ELSE floor
           /\ failed' = IF Clears(p.seen, p.upd) THEN [failed EXCEPT ![p.id] = 0] ELSE failed
           /\ announced' = IF new.enabled THEN announced \ {p.id} ELSE announced
    /\ patch' = [patch EXCEPT ![c] = NULL]
    /\ UNCHANGED <<clock, used, tickVars, faults>>

\* The attempt's CAS lost: read again, or give up with 409 schedule_conflict.
PatchLose(c) ==
    /\ patch[c] # NULL /\ patch[c].seen # NULL
    /\ ~UserCasHolds(patch[c].id, patch[c].seen)
    /\ LET p == patch[c]
       IN  patch' = [patch EXCEPT ![c] =
             IF p.attempt < UpdateAttempts
             THEN [p EXCEPT !.attempt = p.attempt + 1, !.seen = NULL]
             ELSE NULL]
    /\ UNCHANGED <<clock, rows, used, tickVars, faults, ghostVars>>

-----------------------------------------------------------------------------
(* The tick loop.                                                          *)

Due(row, now) == row.enabled /\ row.next # NULL /\ row.next <= now

\* Scheduler::tick: list_schedules_for_tick and the exact `due <= now` check.
TickList ==
    /\ phase = "idle"
    /\ LET due == {id \in Ids : Exists(id) /\ Due(rows[id], clock)}
       IN  /\ todo' = {[id |-> id, row |-> rows[id]] : id \in due}
           /\ phase' = IF due = {} THEN "idle" ELSE "scan"
           /\ tickNow' = IF due = {} THEN tickNow ELSE clock
    /\ UNCHANGED <<clock, rows, used, cur, patch, faults, ghostVars>>

\* The slot the fire in progress advanced to.
Advanced == NextFire(cur.row.spec, tickNow)

\* Done with the row being fired: on to the next listed one, or back to sleep.
NextListed(rest) ==
    /\ cur' = NULL
    /\ todo' = rest
    /\ phase' = IF rest = {} THEN "idle" ELSE "scan"
    /\ tickNow' = IF rest = {} THEN 0 ELSE tickNow

\* advance_and_record_fire's WHERE for the row a tick listed.
AdvanceHolds(s) ==
    /\ Exists(s.id)
    /\ rows[s.id].revision = s.row.revision
    /\ rows[s.id].next = s.row.next
    /\ rows[s.id].enabled

\* advance_and_record_fire's SET: the revision does not move.
AdvanceWrite(row, now, next) == [row EXCEPT !.last = now, !.next = next]

\* The pre-advance landed; the run is triggered next.
FireAdvance(s) ==
    /\ phase = "scan" /\ s \in todo
    /\ Computes(s.row.spec)
    /\ AdvanceHolds(s)
    /\ rows' = [rows EXCEPT ![s.id] =
                   AdvanceWrite(@, tickNow, NextFire(s.row.spec, tickNow))]
    /\ cur' = s /\ todo' = todo \ {s} /\ phase' = "trigger"
    /\ floor' = [floor EXCEPT ![s.id] = s.row.next]
    /\ UNCHANGED <<clock, used, tickNow, patch, faults, failed, announced>>

\* Mutant: a lost row is tried again within the same tick.
FireLostRetries(s) ==
    /\ phase = "scan" /\ s \in todo
    /\ Computes(s.row.spec)
    /\ ~AdvanceHolds(s)
    /\ NextListed(todo)
    /\ UNCHANGED <<clock, rows, used, patch, faults, ghostVars>>

\* The pre-advance lost: nothing is written, this tick skips the row.
FireLost(s) ==
    /\ phase = "scan" /\ s \in todo
    /\ Computes(s.row.spec)
    /\ ~AdvanceHolds(s)
    /\ NextListed(todo \ {s})
    /\ UNCHANGED <<clock, rows, used, patch, faults, ghostVars>>

\* Mutant: the pre-CAS update_schedule_runtime, which only needs the row to exist.
RuntimeBlind(id, revision, next, last) == Exists(id)

\* Mutant: the settle write pins the slot but not the revision.
RuntimeSlotOnly(id, revision, next, last) ==
    Exists(id) /\ rows[id].next = next /\ rows[id].last = last

\* update_schedule_runtime_cas' WHERE, against what the caller last saw.
RuntimeCasHolds(id, revision, next, last) ==
    /\ Exists(id)
    /\ rows[id].revision = revision
    /\ rows[id].next = next
    /\ rows[id].last = last

\* update_schedule_runtime_cas' SET: only a disable touches next_run_at and the revision.
RuntimeWrite(row, failures, enabled, disable) ==
    [row EXCEPT !.failures = failures, !.enabled = enabled,
                !.next = IF disable THEN NULL ELSE @,
                !.revision = IF disable THEN @ + 1 ELSE @]

\* fire_agent_run_inner's next_fire error arm: disable, and announce it if that landed.
FireBroken(s) ==
    /\ phase = "scan" /\ s \in todo
    /\ ~Computes(s.row.spec)
    /\ NextListed(todo \ {s})
    /\ IF RuntimeCasHolds(s.id, s.row.revision, s.row.next, s.row.last)
       THEN /\ rows' = [rows EXCEPT ![s.id] = RuntimeWrite(@, s.row.failures, FALSE, TRUE)]
            /\ announced' = announced \cup {s.id}
       ELSE UNCHANGED <<rows, announced>>
    /\ UNCHANGED <<clock, used, patch, faults, floor, failed>>

\* RunTrigger::trigger answers: a run was created, or not.
Trigger(ok) ==
    /\ phase = "trigger"
    /\ phase' = IF ok THEN "succeeded" ELSE "failed"
    /\ failed' = [failed EXCEPT ![cur.id] = IF ok THEN @ ELSE @ + 1]
    /\ UNCHANGED <<clock, rows, used, tickNow, todo, cur, patch, faults, floor, announced>>

\* record_schedule_result on the counter this tick listed.
Failures == cur.row.failures + 1
MustDisable == Failures >= MaxFailures

\* schedule.disabled goes out only for a disable that landed.
Announces(landed) == landed /\ MustDisable

SettleHolds == RuntimeCasHolds(cur.id, cur.row.revision, Advanced, tickNow)

\* After a success: the counter is cleared, unless it was zero or the CAS loses.
SettleSuccess ==
    /\ phase = "succeeded"
    /\ rows' = IF cur.row.failures # 0 /\ SettleHolds
               THEN [rows EXCEPT ![cur.id] = RuntimeWrite(@, 0, TRUE, FALSE)]
               ELSE rows
    /\ NextListed(todo)
    /\ UNCHANGED <<clock, used, patch, faults, ghostVars>>

\* After a failure: count it, disable at the limit, announce a disable that landed.
SettleFailure ==
    /\ phase = "failed"
    /\ rows' = IF SettleHolds
               THEN [rows EXCEPT ![cur.id] =
                       RuntimeWrite(@, Failures, ~MustDisable, MustDisable)]
               ELSE rows
    /\ announced' = IF Announces(SettleHolds) THEN announced \cup {cur.id} ELSE announced
    /\ NextListed(todo)
    /\ UNCHANGED <<clock, used, patch, faults, floor, failed>>

-----------------------------------------------------------------------------
(* Faults.                                                                 *)

\* A StoreError in one row's fire: the row is skipped, the batch goes on.
StoreError ==
    /\ faults < MaxFaults
    /\ faults' = faults + 1
    /\ \/ phase = "scan" /\ \E s \in todo : NextListed(todo \ {s})
       \/ phase \in {"succeeded", "failed"} /\ NextListed(todo)
    /\ UNCHANGED <<clock, rows, used, patch, ghostVars>>

\* The daemon dies and restarts: only the tables survive.
Crash ==
    /\ faults < MaxFaults
    /\ faults' = faults + 1
    /\ NextListed({})
    /\ patch' = [c \in Clients |-> NULL]
    /\ UNCHANGED <<clock, rows, used, ghostVars>>

TickStep ==
    \/ \E s \in todo : FireAdvance(s) \/ FireLost(s) \/ FireBroken(s)
    \/ \E ok \in BOOLEAN : Trigger(ok)
    \/ SettleSuccess
    \/ SettleFailure

PatchStep(c) == PatchRead(c) \/ PatchLand(c) \/ PatchLose(c)

Next ==
    \/ AdvanceClock
    \/ \E id \in Ids : \/ \E spec \in Specs, enabled \in BOOLEAN, body \in Bodies :
                            Create(id, spec, enabled, body)
                       \/ Delete(id)
                       \/ \E c \in Clients, upd \in Updates : PatchCall(c, id, upd)
    \/ \E c \in Clients : PatchStep(c)
    \/ TickList
    \/ TickStep
    \/ StoreError
    \/ Crash

Spec == Init /\ [][Next]_vars

\* The tick loop is a live task: it wakes every few seconds and its awaits complete.
FairSpec == Spec /\ WF_vars(TickList) /\ WF_vars(TickStep)

-----------------------------------------------------------------------------
(* Properties.                                                             *)

\* Every variable has its type.
TypeOK ==
    /\ clock \in Instant
    /\ rows \in [Ids -> Row \cup {NULL}]
    /\ used \subseteq Ids
    /\ phase \in {"idle", "scan", "trigger", "succeeded", "failed"}
    /\ tickNow \in Instant
    /\ todo \subseteq Snapshot
    /\ cur \in Snapshot \cup {NULL}
    /\ patch \in [Clients -> Call \cup {NULL}]
    /\ faults \in Nat
    /\ floor \in [Ids -> Instant]
    /\ failed \in [Ids -> Nat]
    /\ announced \subseteq Ids

\* A disabled row is never armed, whatever PATCH, settle write or crash produced it:
\* tick's due query and the desktop's "next run" both read next_run_at.
DormantUnarmed ==
    \A id \in Ids : Exists(id) /\ ~rows[id].enabled => rows[id].next = NULL

\* An enabled row without a slot has no firing left to wait for: no interleaving of a
\* PATCH, a tick and a lost settle write strands a live schedule.
NeverStranded ==
    \A id \in Ids :
        (Exists(id) /\ rows[id].enabled /\ Computes(rows[id].spec) /\ rows[id].next = NULL)
            => NextFire(rows[id].spec, clock) = NULL

\* Once a slot is pre-advanced, nothing short of a PATCH that recomputes the slot arms it
\* (or an earlier one) again: not a rename that read the row before the tick, not a crash
\* between the pre-advance and the trigger (UPDATE_USER_SCHEDULE_CAS_SQL's extra pins).
ConsumedSlotStaysConsumed ==
    \A id \in Ids : Exists(id) /\ rows[id].next # NULL => rows[id].next > floor[id]

\* The persisted counter never exceeds the triggers that really failed since a PATCH
\* cleared it, so no auto-disable happens on invented failures.
FailureCountHonest ==
    \A id \in Ids : Exists(id) => rows[id].failures <= failed[id]

\* A schedule.disabled event on the bus is true: the row is disabled until a PATCH
\* enables it again (emit_disabled only after a CAS that landed).
AnnouncedIsDisabled ==
    \A id \in announced : Exists(id) => ~rows[id].enabled

\* Only a PATCH turns a disabled row on: no settle write of a tick that listed the row
\* while it was enabled undoes the user's switch.
UserDisableSticks ==
    [][\A id \in Ids :
          (Exists(id) /\ ~rows[id].enabled /\ rows'[id] # NULL /\ rows'[id].enabled)
              => patch' # patch]_vars

\* A due row is served: no row stays due for ever, whatever becomes of the others in
\* its batch.
DueIsServed == \A id \in Ids : []<>~(Exists(id) /\ Due(rows[id], clock))

=============================================================================
