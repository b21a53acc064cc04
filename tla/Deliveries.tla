----------------------------- MODULE Deliveries -----------------------------
(***************************************************************************)
(* The schedule_deliveries table of agent24-store: what each SQL statement *)
(* of module_schedules.rs does to the set of rows, and the transition      *)
(* table of the delivery pump (apply_outcome in deliveries.rs).            *)
(*                                                                         *)
(* A fire is <<trigger, schedule, slot>>: FireId::derive hashes exactly    *)
(* these three, so the same slot of the same schedule is the same fire.    *)
(***************************************************************************)
EXTENDS ScheduleSpecs, SequencesExt

CONSTANTS
    Ids,        \* schedule ids (ULIDs: never issued twice)
    Keep,       \* KEEP_TERMINAL_PER_SOURCE (4 in the code)
    Ttl,        \* DELIVERY_TTL, from fired_at
    MaxSent,    \* MAX_SENT_ATTEMPTS (3 in the code)
    Backoff     \* RETRY_BACKOFF: the wait before sent attempt 2, 3, ...

ASSUME DeliveryAssumption ==
    /\ Keep \in Nat \ {0}
    /\ Ttl \in Nat \ {0}
    /\ MaxSent \in Nat \ {0}
    /\ Backoff \in Seq(Nat) \ {<<>>}

Trigger  == {"tick", "run_now"}
Outcome  == {"delivered", "deferred", "failed", "panicked"}
Delivery == [id : Ids, trigger : Trigger, slot : Instant, attempts : Nat,
             status : {"pending", "deferred", "delivered", "failed", "expired"},
             due : InstantOrNull, expires : Instant, updated : Instant]

FireId(d) == <<d.trigger, d.id, d.slot>>
Outstanding(d) == d.status \in {"pending", "deferred"}

-----------------------------------------------------------------------------
(* The statements.                                                         *)

\* A row retired without having been delivered.
Retired(d, now) == [d EXCEPT !.status = "expired", !.due = NULL, !.updated = now]

\* EXPIRE_OUTSTANDING_SQL: an upsert or a suspend retires every fire of one schedule.
ExpireOutstanding(rows, id, now) ==
    {IF d.id = id /\ Outstanding(d) THEN Retired(d, now) ELSE d : d \in rows}

\* Mutant: the sweep forgets deferred rows.
ExpirePendingOnly(rows, now) ==
    {IF d.status = "pending" /\ d.expires <= now THEN Retired(d, now) ELSE d : d \in rows}

\* EXPIRE_SQL: the TTL sweep.
ExpireDeliveries(rows, now) ==
    {IF Outstanding(d) /\ d.expires <= now THEN Retired(d, now) ELSE d : d \in rows}

\* The row record_fire_in inserts.
NewFire(id, trigger, slot, now) ==
    [id |-> id, trigger |-> trigger, slot |-> slot, attempts |-> 0, status |-> "pending",
     due |-> now, expires |-> now + Ttl, updated |-> now]

\* Outstanding fires of the same schedule and trigger, other than this one.
Rivals(rows, fire) ==
    {d \in rows : d.id = fire.id /\ d.trigger = fire.trigger /\ Outstanding(d)
                  /\ FireId(d) # FireId(fire)}

\* A rival never attempted is deleted, one attempted is retired.
Supersede(rows, fire, now) ==
    (rows \ Rivals(rows, fire))
       \cup {Retired(d, now) : d \in {r \in Rivals(rows, fire) : r.attempts > 0}}

\* INSERT ... ON CONFLICT (fire_id) DO NOTHING.
InsertFire(rows, fire) ==
    IF \E d \in rows : FireId(d) = FireId(fire) THEN rows ELSE rows \cup {fire}

\* ORDER BY updated_at DESC, rowid DESC: within one source rowids follow fired_at, and
\* fires of one instant differ in their slot.
Newer(d, e) ==
    \/ d.updated > e.updated
    \/ d.updated = e.updated /\ d.expires > e.expires
    \/ d.updated = e.updated /\ d.expires = e.expires /\ d.slot > e.slot

Finished(rows, id, trigger) ==
    {d \in rows : d.id = id /\ d.trigger = trigger /\ ~Outstanding(d)}

\* PRUNE_TERMINAL_SQL: each source keeps its Keep latest terminal rows.
PruneTerminal(rows, id, trigger) ==
    LET done == Finished(rows, id, trigger)
    IN  rows \ {d \in done : Cardinality({e \in done : Newer(e, d)}) >= Keep}

\* record_fire_in: one transaction.
RecordFireIn(rows, fire, now) ==
    PruneTerminal(InsertFire(Supersede(rows, fire, now), fire), fire.id, fire.trigger)

-----------------------------------------------------------------------------
(* apply_outcome: what one attempt's outcome writes, NULL when nothing.    *)

\* What an outcome changes: the row's columns, and whether the schedule counts a failure
\* or forgets its failures.
Change == [status : {"pending", "deferred", "delivered", "failed"}, attempts : Nat,
           due : InstantOrNull, counts : BOOLEAN, resets : BOOLEAN]

Applied(status, attempts, due, counts, resets) ==
    [status |-> status, attempts |-> attempts, due |-> due, counts |-> counts, resets |-> resets]

\* Mutant: off by one, the last allowed attempt is retried as well.
GivesUpLate(sent) == sent > MaxSent

\* A sent attempt was the last one allowed.
GivesUp(sent) == sent >= MaxSent

\* The wait before the next attempt; past the table, its last entry.
Wait(sent) == Backoff[IF sent <= Len(Backoff) THEN sent ELSE Len(Backoff)]

\* Mutant: every failed attempt counts against the schedule, not every failed fire.
CountEveryAttempt(from, attempts, outcome, now) ==
    LET sent == attempts + 1
    IN  IF outcome = "deferred"
        THEN IF from = "deferred" THEN NULL
             ELSE Applied("deferred", attempts, now, FALSE, FALSE)
        ELSE IF outcome = "delivered" THEN Applied("delivered", sent, NULL, FALSE, TRUE)
        ELSE IF GivesUp(sent) THEN Applied("failed", sent, NULL, TRUE, FALSE)
        ELSE Applied("pending", sent, now + Wait(sent), TRUE, FALSE)

\* A deferral was not sent; it is written once, however often it repeats.
ApplyOutcome(from, attempts, outcome, now) ==
    LET sent == attempts + 1
    IN  IF outcome = "deferred"
        THEN IF from = "deferred" THEN NULL
             ELSE Applied("deferred", attempts, now, FALSE, FALSE)
        ELSE IF outcome = "delivered" THEN Applied("delivered", sent, NULL, FALSE, TRUE)
        ELSE IF GivesUp(sent) THEN Applied("failed", sent, NULL, TRUE, FALSE)
        ELSE Applied("pending", sent, now + Wait(sent), FALSE, FALSE)
=============================================================================
