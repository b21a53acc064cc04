---------------------------- MODULE ScheduleSpecs ----------------------------
(***************************************************************************)
(* The pure time arithmetic of agent24-scheduler (next_fire.rs).           *)
(*                                                                         *)
(* An instant is a natural number of ticks of an injected clock.  A        *)
(* schedule spec is one of                                                 *)
(*                                                                         *)
(*   [type |-> "cron",  slots |-> S]   fires at the instants of S (the set *)
(*                                     the cron expression and its time    *)
(*                                     zone denote; it may be exhausted);  *)
(*   [type |-> "every", secs |-> n]    fires n ticks after the reference;  *)
(*   [type |-> "at",    ts |-> t]      fires once, at t;                   *)
(*   [type |-> "broken"]               a stored spec that no longer        *)
(*                                     computes (its time zone is unknown  *)
(*                                     to this build, say).                *)
(***************************************************************************)
EXTENDS Integers, FiniteSetsExt

CONSTANTS
    NULL,   \* SQL NULL / Rust None
    Skew    \* the clock skew an "at" may lie in the past (60 s in the code)

ASSUME NullAssumption == NULL \notin Int
ASSUME SkewAssumption == Skew \in Nat

Instant == Nat
InstantOrNull == Nat \cup {NULL}

CronSpec   == [type : {"cron"},  slots : SUBSET Nat]
EverySpec  == [type : {"every"}, secs : Nat \ {0}]
AtSpec     == [type : {"at"},    ts : Nat]
BrokenSpec == [type |-> "broken"]

AnySpec == CronSpec \cup EverySpec \cup AtSpec

IsAt(spec) == spec.type = "at"

\* next_fire(spec, _) answers Ok: the spec parses.
Computes(spec) == spec.type # "broken"

-----------------------------------------------------------------------------
\* validate_at_time: an "at" beyond the skew allowance is refused (PastAt).
ValidAtTime(spec, now) == IsAt(spec) => spec.ts >= now - Skew

\* next_fire: the first firing strictly after the reference, NULL when none is left.
NextFire(spec, after) ==
    CASE spec.type = "cron" ->
           LET later == {slot \in spec.slots : slot > after}
           IN  IF later = {} THEN NULL ELSE Min(later)
      [] spec.type = "every" -> after + spec.secs
      [] spec.type = "at"    -> IF spec.ts > after THEN spec.ts ELSE NULL

\* initial_fire: an "at" within the skew allowance stays runnable.
InitialFire(spec, now) ==
    IF IsAt(spec) THEN (IF spec.ts > now THEN spec.ts ELSE now)
                  ELSE NextFire(spec, now)
=============================================================================
