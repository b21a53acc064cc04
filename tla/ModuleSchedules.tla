--------------------------- MODULE ModuleSchedules ---------------------------
(***************************************************************************)
(* Module-owned schedules: the `schedules` rows a domain module declares   *)
(* through _a24/scheduler/upsert, the REST switches a user has over them,  *)
(* and the tick that turns a due slot into a delivery row.                 *)
(*                                                                         *)
(* Every handler but two is one BEGIN IMMEDIATE transaction and one step   *)
(* here.  upsert computes the slot from the instant it took before its     *)
(* transaction, resume from a row it read before it: each is a call that   *)
(* is in progress for a while (the variable call).  The delivery pump,     *)
(* which moves the delivery rows on, is DeliveryPump.                      *)
(***************************************************************************)
EXTENDS Deliveries

CONSTANTS
    Owners,        \* modules
    OwnerOf,       \* the owner of each schedule id
    KeyOf,         \* the key each schedule id was issued for
    Clients,       \* concurrent callers of upsert and resume
    Specs,         \* the specs modules declare
    Labels,        \* the labels modules declare
    Quota,         \* MODULE_SCHEDULE_QUOTA, rows per owner
    ResumeTries,   \* the bound of the resume loop (3 in the code)
    CallTimeout,   \* bound: the time from a call's `now` to its transaction (bind_to_lifecycle
                   \* enforces one for upsert; for resume it is an assumption)
    MaxTime,       \* bound: the horizon of the clock
    MaxRevision,   \* bound: no upsert, suspend or resume past this revision
    MaxRunNow      \* bound: the horizon of run_now calls

Row == [enabled : BOOLEAN, suspended : BOOLEAN, sys : BOOLEAN, spec : Specs, label : Labels,
        next : InstantOrNull, failures : Nat, revision : Nat]
Desired == [spec : Specs, enabled : BOOLEAN, label : Labels]

ASSUME ModuleAssumption ==
    /\ NULL \notin Row
    /\ OwnerOf \in [Ids -> Owners]
    /\ Specs \subseteq AnySpec
    /\ ResumeTries \in Nat \ {0}
    /\ Quota \in Nat /\ CallTimeout \in Nat /\ MaxTime \in Nat \ {0}

VARIABLES
    clock,      \* the wall clock
    rows,       \* the module rows of the schedules table, NULL without one
    used,       \* ids issued so far
    deliv,      \* the schedule_deliveries table
    installed,  \* the owners in this run's catalogue (InstalledOwners)
    tickNow,    \* the instant of the current tick
    todo,       \* rows listed by the current tick and not yet fired
    call        \* the upsert or resume each client has in progress

tableVars == <<clock, rows, used, deliv, installed, tickNow, todo, call>>

\* A row as a tick listed it, and the two calls a client can have in progress.
Snapshot == [id : Ids, row : Row]
Upserting == [kind : {"upsert"}, owner : Owners, key : {KeyOf[id] : id \in Ids},
              desired : Desired, now : Instant, next : InstantOrNull]
Resuming == [kind : {"resume"}, id : Ids, now : Instant, attempt : Nat,
             next : InstantOrNull, revision : Nat]

TableTypeOK ==
    /\ clock \in Instant /\ tickNow \in Instant
    /\ rows \in [Ids -> Row \cup {NULL}]
    /\ used \subseteq Ids /\ installed \subseteq Owners
    /\ deliv \subseteq Delivery /\ todo \subseteq Snapshot
    /\ call \in [Clients -> Upserting \cup Resuming \cup {NULL}]

Exists(id) == rows[id] # NULL

\* The three switches of a row: the module's, the user's and the kernel's.
Eligible(row) == row.enabled /\ ~row.suspended /\ ~row.sys

\* The row of an owner's key, if any.
RowsOf(owner) == {id \in Ids : Exists(id) /\ OwnerOf[id] = owner}
Holder(owner, key) == {id \in RowsOf(owner) : KeyOf[id] = key}

TableInit ==
    /\ clock = 1
    /\ rows = [id \in Ids |-> NULL] /\ used = {}
    /\ deliv = {} /\ installed = Owners
    /\ tickNow = 0 /\ todo = {}
    /\ call = [c \in Clients |-> NULL]

AdvanceClock ==
    /\ clock < MaxTime
    /\ clock' = clock + 1
    /\ UNCHANGED <<rows, used, deliv, installed, tickNow, todo, call>>

-----------------------------------------------------------------------------
(* _a24/scheduler/upsert and delete.                                       *)

\* SchedulerUpsertHandler::call takes `now` and computes the slot.  A cron or an every
\* without a next firing is refused by validate_module_spec.
UpsertCall(c, owner, key, desired) ==
    /\ call[c] = NULL /\ owner \in installed
    /\ \E id \in Ids : OwnerOf[id] = owner /\ KeyOf[id] = key
    /\ \A id \in Holder(owner, key) : rows[id].revision < MaxRevision
    /\ IsAt(desired.spec) \/ NextFire(desired.spec, clock) # NULL
    /\ call' = [call EXCEPT ![c] =
                  [kind |-> "upsert", owner |-> owner, key |-> key, desired |-> desired,
                   now |-> clock, next |-> NextFire(desired.spec, clock)]]
    /\ UNCHANGED <<clock, rows, used, deliv, installed, tickNow, todo>>

\* Mutant: the quota admits one row too many.
UnderQuotaByOne(owner) == Cardinality(RowsOf(owner)) <= Quota

UnderQuota(owner) == Cardinality(RowsOf(owner)) < Quota

\* Answers Unchanged: nothing is written.
SameDeclaration(row, want) ==
    row.spec = want.spec /\ row.enabled = want.enabled /\ row.label = want.label /\ ~row.sys

SlotMoves(row, want) == row.spec # want.spec \/ row.enabled # want.enabled \/ row.sys

\* Mutant: a changed spec keeps the slot of the old one.
UpsertNextOnToggleOnly(row, want, next) ==
    IF row.enabled = want.enabled /\ ~row.sys THEN row.next
    ELSE IF want.enabled /\ ~row.suspended THEN next ELSE NULL

\* The next_run_at an upsert stores.
UpsertNext(row, want, next) ==
    IF ~SlotMoves(row, want) THEN row.next
    ELSE IF want.enabled /\ ~row.suspended THEN next ELSE NULL

Declared(row, want, next) ==
    [row EXCEPT !.label = want.label, !.enabled = want.enabled, !.spec = want.spec,
                !.next = UpsertNext(row, want, next),
                !.failures = IF SlotMoves(row, want) THEN 0 ELSE @,
                !.sys = FALSE, !.revision = @ + 1]

\* Mutant: a changed spec leaves the fires of the old one outstanding.
RetiresOnDisableOnly(row, want) == row.enabled /\ ~want.enabled

\* Whether the upsert retires the schedule's outstanding fires.
Retires(row, want) == row.spec # want.spec \/ (row.enabled /\ ~want.enabled)

\* upsert_module_schedule of a new key, under a fresh id.
UpsertCreate(c, id) ==
    LET u == call[c]
    IN  /\ id \notin used /\ OwnerOf[id] = u.owner /\ KeyOf[id] = u.key
        /\ Holder(u.owner, u.key) = {} /\ UnderQuota(u.owner)
        /\ rows' = [rows EXCEPT ![id] =
                      [enabled |-> u.desired.enabled, suspended |-> FALSE, sys |-> FALSE,
                       spec |-> u.desired.spec, label |-> u.desired.label,
                       next |-> IF u.desired.enabled THEN u.next ELSE NULL,
                       failures |-> 0, revision |-> 1]]
        /\ used' = used \cup {id}
        /\ UNCHANGED deliv

\* upsert_module_schedule of a key that has a row.
UpsertUpdate(c, id) ==
    LET u == call[c]
    IN  /\ id \in Holder(u.owner, u.key)
        /\ IF SameDeclaration(rows[id], u.desired)
           THEN UNCHANGED <<rows, deliv>>
           ELSE /\ rows' = [rows EXCEPT ![id] = Declared(@, u.desired, u.next)]
                /\ deliv' = IF Retires(rows[id], u.desired)
                            THEN ExpireOutstanding(deliv, id, u.now) ELSE deliv
        /\ UNCHANGED used

\* The transaction of an upsert in progress.
UpsertLand(c) ==
    /\ call[c] # NULL /\ call[c].kind = "upsert"
    /\ clock <= call[c].now + CallTimeout
    /\ \E id \in Ids : UpsertCreate(c, id) \/ UpsertUpdate(c, id)
    /\ call' = [call EXCEPT ![c] = NULL]
    /\ UNCHANGED <<clock, installed, tickNow, todo>>

\* Refused by the quota, or cut off by the callback's lifecycle.
UpsertDrop(c) ==
    /\ call[c] # NULL /\ call[c].kind = "upsert"
    /\ \/ Holder(call[c].owner, call[c].key) = {} /\ ~UnderQuota(call[c].owner)
       \/ clock > call[c].now + CallTimeout
    /\ call' = [call EXCEPT ![c] = NULL]
    /\ UNCHANGED <<clock, rows, used, deliv, installed, tickNow, todo>>

\* delete_module_schedule, or the REST delete: deliveries go with the row.
Delete(id) ==
    /\ Exists(id)
    /\ rows' = [rows EXCEPT ![id] = NULL]
    /\ deliv' = {d \in deliv : d.id # id}
    /\ UNCHANGED <<clock, used, installed, tickNow, todo, call>>

-----------------------------------------------------------------------------
(* REST suspend and resume (set_user_suspended).                           *)

\* A suspend retires every outstanding fire of the schedule.
SuspendedDeliveries(id) == ExpireOutstanding(deliv, id, clock)

\* SET_USER_SUSPENDED_SQL's assignments, for a suspend and for a resume.
SuspendedRow(row) ==
    [row EXCEPT !.suspended = TRUE, !.next = NULL, !.revision = @ + 1]
ResumedRow(row, next) ==
    [row EXCEPT !.suspended = FALSE, !.sys = FALSE, !.failures = 0,
                !.next = IF row.enabled THEN next ELSE NULL, !.revision = @ + 1]

\* Scheduler::suspend: no guard on the revision; a no-op on a suspended row.
Suspend(id) ==
    /\ Exists(id) /\ ~rows[id].suspended /\ rows[id].revision < MaxRevision
    /\ rows' = [rows EXCEPT ![id] = SuspendedRow(@)]
    /\ deliv' = SuspendedDeliveries(id)
    /\ UNCHANGED <<clock, used, installed, tickNow, todo, call>>

\* Scheduler::resume takes `now`; one attempt's read computes the slot from the spec.
ResumeCall(c, id) ==
    /\ call[c] = NULL
    /\ Exists(id) /\ rows[id].revision < MaxRevision
    /\ call' = [call EXCEPT ![c] =
                  [kind |-> "resume", id |-> id, now |-> clock, attempt |-> 1,
                   next |-> IF rows[id].enabled THEN NextFire(rows[id].spec, clock) ELSE NULL,
                   revision |-> rows[id].revision]]
    /\ UNCHANGED <<clock, rows, used, deliv, installed, tickNow, todo>>

Resumable(row) == row.suspended \/ row.sys

\* Mutant: the resume arm does not pin the revision (the bug review M-2 closed).
ResumeBlind(c) == Exists(call[c].id) /\ Resumable(rows[call[c].id])

\* SET_USER_SUSPENDED_SQL's WHERE for a resume.
ResumeHolds(c) ==
    /\ Exists(call[c].id)
    /\ Resumable(rows[call[c].id])
    /\ rows[call[c].id].revision = call[c].revision

ResumeWrite(c) ==
    /\ call[c] # NULL /\ call[c].kind = "resume"
    /\ clock <= call[c].now + CallTimeout
    /\ ResumeHolds(c)
    /\ rows' = [rows EXCEPT ![call[c].id] = ResumedRow(@, call[c].next)]
    /\ call' = [call EXCEPT ![c] = NULL]
    /\ UNCHANGED <<clock, used, deliv, installed, tickNow, todo>>

\* The write matched no row: Conflict reads again, NoOp and NotFound end the call.
ResumeMiss(c) ==
    /\ call[c] # NULL /\ call[c].kind = "resume"
    /\ ~ResumeHolds(c) \/ clock > call[c].now + CallTimeout
    /\ LET r == call[c]
           again == /\ Exists(r.id) /\ Resumable(rows[r.id]) /\ r.attempt < ResumeTries
                    /\ clock <= r.now + CallTimeout
       IN  call' = [call EXCEPT ![c] =
             IF again
             THEN [r EXCEPT !.attempt = r.attempt + 1, !.revision = rows[r.id].revision,
                            !.next = IF rows[r.id].enabled
                                     THEN NextFire(rows[r.id].spec, r.now) ELSE NULL]
             ELSE NULL]
    /\ UNCHANGED <<clock, rows, used, deliv, installed, tickNow, todo>>

-----------------------------------------------------------------------------
(* Fires: run_now and the tick.                                            *)

\* Scheduler::run_now on a module row: no switch is consulted, next_run_at stays.
RunNow(id) ==
    /\ Exists(id) /\ clock <= MaxRunNow
    /\ deliv' = RecordFireIn(deliv, NewFire(id, "run_now", clock, clock), clock)
    /\ UNCHANGED <<clock, rows, used, installed, tickNow, todo, call>>

\* Scheduler::tick: the listing does not look at suspended or system-disabled.
TickList ==
    /\ todo = {}
    /\ LET due == {id \in Ids : /\ Exists(id) /\ rows[id].enabled
                                /\ rows[id].next # NULL /\ rows[id].next <= clock}
       IN  /\ todo' = {[id |-> id, row |-> rows[id]] : id \in due}
           /\ tickNow' = IF due = {} THEN 0 ELSE clock
    /\ UNCHANGED <<clock, rows, used, deliv, installed, call>>

\* advance_and_record_fire's WHERE.
AdvanceHolds(s) ==
    /\ Exists(s.id)
    /\ rows[s.id].revision = s.row.revision
    /\ rows[s.id].next = s.row.next
    /\ Eligible(rows[s.id])

\* Done with one listed row.
Done(s) ==
    /\ todo' = todo \ {s}
    /\ tickNow' = IF todo' = {} THEN 0 ELSE tickNow

\* fire_module: the pre-advance and the delivery row in one transaction.
FireModule(s) ==
    /\ s \in todo /\ Done(s)
    /\ IF AdvanceHolds(s)
       THEN LET fire == NewFire(s.id, "tick", s.row.next, tickNow)
                record == OwnerOf[s.id] \in installed
            IN  /\ rows' = [rows EXCEPT ![s.id].next = NextFire(s.row.spec, tickNow)]
                /\ deliv' = IF record THEN RecordFireIn(deliv, fire, tickNow) ELSE deliv
       ELSE UNCHANGED <<rows, deliv>>
    /\ UNCHANGED <<clock, used, installed, call>>

\* A StoreError in one row's fire: the row is skipped, the batch goes on.
FireError(s) ==
    /\ s \in todo /\ Done(s)
    /\ UNCHANGED <<clock, rows, used, deliv, installed, call>>

TableStep ==
    \/ AdvanceClock
    \/ \E c \in Clients :
         \/ \E id \in Ids, desired \in Desired : UpsertCall(c, OwnerOf[id], KeyOf[id], desired)
         \/ UpsertLand(c) \/ UpsertDrop(c)
         \/ \E id \in Ids : ResumeCall(c, id)
         \/ ResumeWrite(c) \/ ResumeMiss(c)
    \/ \E id \in Ids : Delete(id) \/ Suspend(id) \/ RunNow(id)
    \/ TickList
    \/ \E s \in todo : FireModule(s)

TableSpec == TableInit /\ [][TableStep]_tableVars

-----------------------------------------------------------------------------
(* Properties.                                                             *)

\* A row one of whose three switches is off is never armed: not by an upsert that took its
\* slot before the user suspended, not by a resume of a row the module disabled meanwhile,
\* not by a system disable racing a tick.
DormantUnarmed ==
    \A id \in Ids : Exists(id) /\ ~Eligible(rows[id]) => rows[id].next = NULL

\* An eligible row without a slot has no firing left: no interleaving of upsert, suspend,
\* resume, system disable and tick strands a live schedule.
NeverStranded ==
    \A id \in Ids :
        (Exists(id) /\ Eligible(rows[id]) /\ rows[id].next = NULL)
            => NextFire(rows[id].spec, clock) = NULL

\* The slot a row waits for belongs to the spec it has now, although upsert and resume
\* compute it before their transaction (SET_USER_SUSPENDED_SQL pins the revision for this).
SlotMatchesSpec ==
    \A id \in Ids :
        (Exists(id) /\ rows[id].next # NULL /\ rows[id].spec.type = "cron")
            => rows[id].next \in rows[id].spec.slots

\* A tick fire still to be delivered is one the module and the user want: its schedule is
\* enabled and not suspended, and its slot belongs to the declared spec.
TickFireIsCurrent ==
    \A d \in deliv :
        (Outstanding(d) /\ d.trigger = "tick")
            => /\ Exists(d.id) /\ rows[d.id].enabled /\ ~rows[d.id].suspended
               /\ rows[d.id].spec.type = "cron" => d.slot \in rows[d.id].spec.slots

\* Each owner stays within its quota, although several of its upserts may be in progress:
\* the count is taken inside the transaction that inserts.
QuotaHolds == \A o \in Owners : Cardinality(RowsOf(o)) <= Quota
=============================================================================
