------------------------- MODULE DeliveryPump_proofs -------------------------
(***************************************************************************)
(* The safety of module schedules, of their deliveries and of the pump,    *)
(* for every number of rows, owners, specs, callers, caps and faults.      *)
(*                                                                         *)
(* The tables alone come first (TableInv).  A tick and a resume write a    *)
(* slot computed from a row they read earlier, an upsert one computed from *)
(* an instant it took earlier.  The strengthening says what these copies   *)
(* are still worth: at equal revision a copy agrees with the stored row on *)
(* the spec and the module's switch (Agrees), and no call is from the      *)
(* future (CallInv).  Nothing there uses that the kernel's switch is off,  *)
(* so the lemmas hold beside the pump (PumpInv).                           *)
(*                                                                         *)
(* Then the fires: requests and failures are counted as long as no closed  *)
(* fire opens again (SendsInv, FailInv), and none does, because a slot is  *)
(* armed a second time only while the row of its fire is still there to    *)
(* refuse it (LedgerInv).                                                  *)
(***************************************************************************)
EXTENDS DeliveryPump, FiniteSetTheorems, WellFoundedInduction, TLAPS

-----------------------------------------------------------------------------
(* What next_fire guarantees, for every spec and instant.                  *)

\* A non-empty set of instants has an earliest one: Min is one of its members.
LEMMA EarliestInstant ==
    ASSUME NEW S \in SUBSET Nat, S # {}
    PROVE  Min(S) \in S /\ \A t \in S : Min(S) <= t
<1>1. PICK x \in S : \A y \in S : ~(<<y, x>> \in OpToRel(<, Nat))
  BY NatLessThanWellFounded, WFMin
<1>2. \A y \in S : x <= y
  <2>1. TAKE y \in S
  <2>2. y \in Nat /\ x \in Nat
    OBVIOUS
  <2>3. ~(y < x)
    BY <1>1, <2>2 DEF OpToRel
  <2>. QED  BY <2>2, <2>3
<1>. QED  BY <1>2 DEF Min

\* next_fire answers an instant strictly after its reference, or None: the pre-advance
\* always moves a slot into the future of the tick.
LEMMA NextFireLater ==
    ASSUME NEW spec \in AnySpec, NEW t \in Nat
    PROVE  /\ NextFire(spec, t) \in InstantOrNull
           /\ NextFire(spec, t) # NULL => NextFire(spec, t) \in Nat /\ NextFire(spec, t) > t
<1>1. CASE spec \in CronSpec
  <2>. DEFINE later == {u \in spec.slots : u > t}
  <2>1. spec.type = "cron" /\ spec.slots \in SUBSET Nat
    BY <1>1 DEF CronSpec
  <2>2. NextFire(spec, t) = IF later = {} THEN NULL ELSE Min(later)
    BY <2>1 DEF NextFire
  <2>3. later # {} => Min(later) \in later
    BY <2>1, EarliestInstant
  <2>. QED  BY <2>1, <2>2, <2>3 DEF InstantOrNull
<1>2. CASE spec \in EverySpec
  BY <1>2 DEF EverySpec, NextFire, InstantOrNull
<1>3. CASE spec \in AtSpec
  BY <1>3 DEF AtSpec, NextFire, InstantOrNull
<1>. QED  BY <1>1, <1>2, <1>3 DEF AnySpec

\* A spec with no firing left after t has none left after any later instant.
LEMMA NextFireExhausted ==
    ASSUME NEW spec \in AnySpec, NEW t \in Nat, NEW u \in Nat, t <= u,
           NextFire(spec, t) = NULL
    PROVE  NextFire(spec, u) = NULL
<1>1. CASE spec \in CronSpec
  <2>. DEFINE later(v) == {w \in spec.slots : w > v}
  <2>1. spec.type = "cron" /\ spec.slots \in SUBSET Nat
    BY <1>1 DEF CronSpec
  <2>2. \A v : NextFire(spec, v) = IF later(v) = {} THEN NULL ELSE Min(later(v))
    BY <2>1 DEF NextFire
  <2>3. later(t) = {}
    <3>1. SUFFICES ASSUME later(t) # {} PROVE FALSE
      OBVIOUS
    <3>2. Min(later(t)) \in later(t)
      BY <2>1, <3>1, EarliestInstant
    <3>3. Min(later(t)) \in Nat
      BY <2>1, <3>2
    <3>. QED  BY <2>2, <3>1, <3>3, NullAssumption
  <2>4. later(u) = {}
    BY <2>1, <2>3
  <2>. QED  BY <2>2, <2>4
<1>2. CASE spec \in EverySpec
  BY <1>2, NullAssumption DEF EverySpec, NextFire
<1>3. CASE spec \in AtSpec
  BY <1>3, NullAssumption DEF AtSpec, NextFire
<1>. QED  BY <1>1, <1>2, <1>3 DEF AnySpec

-----------------------------------------------------------------------------
(* What the strengthening says.                                            *)

\* A copy of row id read earlier, against what is stored now.
Agrees(id, copy) ==
    Exists(id) =>
        /\ copy.revision <= rows[id].revision
        /\ copy.revision = rows[id].revision =>
              copy.spec = rows[id].spec /\ copy.enabled = rows[id].enabled

UsedInv ==
    /\ IsFiniteSet(used)
    /\ \A id \in Ids : Exists(id) => id \in used

TodoInv ==
    /\ tickNow <= clock
    /\ \A s \in todo : s.id \in used /\ s.row.next \in Nat /\ Agrees(s.id, s.row)

\* The slot a row of this spec and switch waits for, seen from `now`.
SlotAt(row, now) == IF row.enabled THEN NextFire(row.spec, now) ELSE NULL

\* The slot of a call was right when it was computed, a resume's for the row it read.
CallOK(u) ==
    /\ u.now <= clock
    /\ u.kind = "upsert" => u.next = NextFire(u.desired.spec, u.now)
    /\ u.kind = "resume" =>
          /\ u.id \in used
          /\ Exists(u.id) =>
                /\ u.revision <= rows[u.id].revision
                /\ u.revision = rows[u.id].revision => u.next = SlotAt(rows[u.id], u.now)

CallInv == \A c \in Clients : call[c] # NULL => CallOK(call[c])

RowInv == DormantUnarmed /\ NeverStranded /\ SlotMatchesSpec

\* The inductive invariant.
TableInv ==
    /\ TableTypeOK /\ UsedInv /\ TodoInv /\ CallInv
    /\ RowInv /\ TickFireIsCurrent /\ QuotaHolds

\* The slot of one row, seen at an instant: what RowInv says of it.
SlotSound(row, now) ==
    /\ ~Eligible(row) => row.next = NULL
    /\ Eligible(row) /\ row.next = NULL => NextFire(row.spec, now) = NULL
    /\ row.next # NULL /\ row.spec.type = "cron" => row.next \in row.spec.slots

\* What one step can do to the row of one id: nothing, delete it, create it under an id
\* never used, write it under a new revision, or leave what copies are compared with.
RowMoves(id) ==
    \/ rows'[id] = rows[id]
    \/ rows'[id] = NULL
    \/ id \notin used
    \/ /\ Exists(id) /\ rows'[id].revision \in Nat
       /\ rows'[id].revision > rows[id].revision
    \/ /\ Exists(id) /\ rows'[id].revision = rows[id].revision
       /\ rows'[id].spec = rows[id].spec /\ rows'[id].enabled = rows[id].enabled

\* No step moves a row, an id, the clock or a copy in any other way than this.
Ages ==
    /\ \A id \in Ids : RowMoves(id)
    /\ used \subseteq used' /\ clock' \in Nat /\ clock <= clock'
    /\ todo' \subseteq todo /\ tickNow' \in {0, tickNow}

-----------------------------------------------------------------------------
(* Rows and their slots.                                                   *)

\* The fields of a stored row, and its spec.
LEMMA RowFacts ==
    ASSUME NEW row \in Row
    PROVE  /\ row # NULL
           /\ row.spec \in Specs /\ row.spec \in AnySpec /\ row.label \in Labels
           /\ row.enabled \in BOOLEAN /\ row.suspended \in BOOLEAN /\ row.sys \in BOOLEAN
           /\ row.next \in InstantOrNull /\ row.failures \in Nat /\ row.revision \in Nat
           /\ NULL \notin Nat
  BY ModuleAssumption, NullAssumption DEF Row

\* The next firing of a cron spec is one of its instants.
LEMMA CronFiresInItsSlots ==
    ASSUME NEW spec \in AnySpec, spec.type = "cron", NEW t \in Nat,
           NextFire(spec, t) # NULL
    PROVE  NextFire(spec, t) \in spec.slots
<1>. DEFINE later == {slot \in spec.slots : slot > t}
<1>1. spec.slots \in SUBSET Nat
  BY DEF AnySpec, CronSpec, EverySpec, AtSpec
<1>2. NextFire(spec, t) = IF later = {} THEN NULL ELSE Min(later)
  BY DEF NextFire
<1>3. later # {} => Min(later) \in later
  BY <1>1, EarliestInstant
<1>. QED  BY <1>2, <1>3

\* A slot that is sound stays sound as time passes.
LEMMA SlotAges ==
    ASSUME NEW row \in Row, NEW now \in Nat, NEW later \in Nat, now <= later,
           SlotSound(row, now)
    PROVE  SlotSound(row, later)
<1>1. NextFire(row.spec, now) = NULL => NextFire(row.spec, later) = NULL
  BY RowFacts, NextFireExhausted
<1>. QED  BY <1>1 DEF SlotSound

\* The slot every handler stores: the next firing after an instant of the past for a live
\* row, none for a dormant one.
LEMMA FreshSlot ==
    ASSUME NEW row \in Row, NEW t \in Nat, NEW now \in Nat, t <= now,
           row.next = IF Eligible(row) THEN NextFire(row.spec, t) ELSE NULL
    PROVE  SlotSound(row, now)
<1>1. row.spec \in AnySpec
  BY RowFacts
<1>2. NextFire(row.spec, t) = NULL => NextFire(row.spec, now) = NULL
  BY <1>1, NextFireExhausted
<1>3. row.next # NULL /\ row.spec.type = "cron" => row.next \in row.spec.slots
  BY <1>1, CronFiresInItsSlots
<1>. QED  BY <1>2, <1>3 DEF SlotSound

\* RowInv, row by row.
LEMMA RowInvBySlot ==
    RowInv <=> \A id \in Ids : Exists(id) => SlotSound(rows[id], clock)
  BY DEF RowInv, DormantUnarmed, NeverStranded, SlotMatchesSpec, SlotSound

\* The same of the next state.
LEMMA RowInvBySlotNext ==
    ASSUME \A id \in Ids : rows'[id] # NULL => SlotSound(rows'[id], clock')
    PROVE  RowInv'
  BY DEF RowInv, DormantUnarmed, NeverStranded, SlotMatchesSpec, SlotSound, Exists

-----------------------------------------------------------------------------
(* Copies of rows.                                                         *)

\* A copy of a row that agreed with it agrees with it after any step.
LEMMA CopiesAge ==
    ASSUME TableTypeOK, UsedInv, NEW id \in used, NEW copy, copy.revision \in Nat,
           RowMoves(id), Agrees(id, copy)
    PROVE  Agrees(id, copy)'
<1>1. id \in Ids /\ (Exists(id) => rows[id] \in Row)
  BY DEF TableTypeOK, Exists
<1>2. Exists(id) => rows[id].revision \in Nat
  BY <1>1, RowFacts
<1>3. rows'[id] # NULL => Exists(id)
  BY DEF RowMoves, Exists
<1>. QED  BY <1>1, <1>2, <1>3 DEF Agrees, RowMoves, Exists

\* A call in progress is as good after any step as before.
LEMMA CallsAge ==
    ASSUME TableTypeOK, UsedInv, Ages, NEW u \in Upserting \cup Resuming, CallOK(u)
    PROVE  CallOK(u)'
<1>1. u.now \in Nat /\ u.now <= clock'
  BY DEF Upserting, Resuming, TableTypeOK, Instant, CallOK, Ages
<1>2. u.kind = "upsert" => u.next = NextFire(u.desired.spec, u.now)
  BY DEF CallOK
<1>3. ASSUME u.kind = "resume" PROVE u.id \in used' /\ u.id \in used
  BY <1>3 DEF CallOK, Ages
<1>4. ASSUME u.kind = "resume", Exists(u.id)'
      PROVE  /\ u.revision <= rows'[u.id].revision
             /\ u.revision = rows'[u.id].revision => u.next = SlotAt(rows'[u.id], u.now)
  <2>1. u \in Resuming /\ u.id \in used /\ u.id \in Ids /\ u.revision \in Nat
    BY <1>3, <1>4 DEF Upserting, Resuming
  <2>2. RowMoves(u.id)
    BY <2>1 DEF Ages
  <2>3. Exists(u.id)
    BY <1>4, <2>1, <2>2 DEF RowMoves, Exists
  <2>4. rows[u.id].revision \in Nat
    BY <2>1, <2>3, RowFacts DEF TableTypeOK, Exists
  <2>5. /\ u.revision <= rows[u.id].revision
        /\ u.revision = rows[u.id].revision => u.next = SlotAt(rows[u.id], u.now)
    BY <1>4, <2>3 DEF CallOK
  <2>. QED  BY <1>4, <2>1, <2>2, <2>3, <2>4, <2>5 DEF RowMoves, SlotAt, Exists
<1>. QED  BY <1>1, <1>2, <1>3, <1>4 DEF CallOK

\* The rows a tick still holds stay as good as they were.
LEMMA TodoAges ==
    ASSUME TableTypeOK, UsedInv, TodoInv, Ages
    PROVE  TodoInv'
<1>1. tickNow' <= clock'
  BY DEF TableTypeOK, TodoInv, Ages, Instant
<1>2. ASSUME NEW s \in todo'
      PROVE  s.id \in used' /\ s.row.next \in Nat /\ Agrees(s.id, s.row)'
  <2>1. s \in todo /\ s.id \in used /\ s.row.next \in Nat /\ Agrees(s.id, s.row)
    BY <1>2 DEF Ages, TodoInv
  <2>2. s.id \in Ids /\ s.row \in Row
    BY <2>1 DEF TableTypeOK, Snapshot
  <2>3. s.row.revision \in Nat /\ RowMoves(s.id)
    BY <2>2, RowFacts DEF Ages
  <2>4. Agrees(s.id, s.row)'
    BY <2>1, <2>3, CopiesAge
  <2>. QED  BY <2>1, <2>4 DEF Ages
<1>. QED  BY <1>1, <1>2 DEF TodoInv

\* The calls a step leaves in progress stay as good as they were.
LEMMA CallInvAges ==
    ASSUME TableTypeOK, UsedInv, CallInv, Ages,
           \A c \in Clients : call'[c] \in {call[c], NULL}
    PROVE  CallInv'
<1>1. ASSUME NEW c \in Clients, NEW u \in Upserting \cup Resuming, call[c] = u,
             u # NULL
      PROVE  CallOK(u)'
  <2>1. CallOK(u)
    BY <1>1 DEF CallInv
  <2>. QED  BY <2>1, CallsAge
<1>2. \A c \in Clients : call[c] \in Upserting \cup Resuming \/ call[c] = NULL
  BY DEF TableTypeOK
<1>3. ASSUME NEW c \in Clients, call'[c] # NULL
      PROVE  /\ call'[c] = call[c] /\ call[c] \in Upserting \cup Resuming
  BY <1>2, <1>3
<1>. QED  BY <1>1, <1>3 DEF CallInv, CallOK, Exists, SlotAt

-----------------------------------------------------------------------------
(* What the statements leave outstanding.                                  *)

\* A retired row is a delivery, and not an outstanding one.
LEMMA RetiredIsClosed ==
    ASSUME NEW d \in Delivery, NEW now \in Nat
    PROVE  Retired(d, now) \in Delivery /\ ~Outstanding(Retired(d, now))
  BY DEF Retired, Delivery, Outstanding, Instant, InstantOrNull

\* A fire begins outstanding.
LEMMA NewFireFacts ==
    ASSUME NEW id \in Ids, NEW trigger \in Trigger, NEW slot \in Nat, NEW now \in Nat
    PROVE  /\ NewFire(id, trigger, slot, now) \in Delivery
           /\ NewFire(id, trigger, slot, now).id = id
           /\ NewFire(id, trigger, slot, now).trigger = trigger
           /\ NewFire(id, trigger, slot, now).slot = slot
  BY DeliveryAssumption DEF NewFire, Delivery, Instant, InstantOrNull

\* EXPIRE_OUTSTANDING_SQL leaves no fire of the schedule outstanding, and makes none so.
LEMMA ExpireFacts ==
    ASSUME NEW D \in SUBSET Delivery, NEW id \in Ids, NEW now \in Nat
    PROVE  /\ ExpireOutstanding(D, id, now) \subseteq Delivery
           /\ \A d \in ExpireOutstanding(D, id, now) :
                 Outstanding(d) => d \in D /\ d.id # id
<1>1. \A d \in D : Retired(d, now) \in Delivery /\ ~Outstanding(Retired(d, now))
  BY RetiredIsClosed
<1>2. \A d \in ExpireOutstanding(D, id, now) :
         \E e \in D : \/ e.id = id /\ Outstanding(e) /\ d = Retired(e, now)
                      \/ ~(e.id = id /\ Outstanding(e)) /\ d = e
  BY DEF ExpireOutstanding
<1>. QED  BY <1>1, <1>2

\* record_fire_in makes no fire outstanding but the new one.
LEMMA RecordFacts ==
    ASSUME NEW D \in SUBSET Delivery, NEW fire \in Delivery, NEW now \in Nat
    PROVE  /\ RecordFireIn(D, fire, now) \subseteq Delivery
           /\ \A d \in RecordFireIn(D, fire, now) :
                 Outstanding(d) => d \in D \/ d = fire
<1>. DEFINE S == Supersede(D, fire, now)
            I == InsertFire(S, fire)
<1>1. \A d \in D : Retired(d, now) \in Delivery /\ ~Outstanding(Retired(d, now))
  BY RetiredIsClosed
<1>2. \A d \in S : d \in D \/ (\E e \in D : d = Retired(e, now))
  BY DEF Supersede, Rivals
<1>3. \A d \in I : d \in S \/ d = fire
  BY DEF InsertFire
<1>4. RecordFireIn(D, fire, now) \subseteq I
  BY DEF RecordFireIn, PruneTerminal
<1>. QED  BY <1>1, <1>2, <1>3, <1>4

-----------------------------------------------------------------------------
(* What several handlers preserve the same way.                            *)

\* Rows and deliveries that do not change keep what is said of them, as time passes.
LEMMA SameRows ==
    ASSUME TableTypeOK, UsedInv, RowInv, TickFireIsCurrent, QuotaHolds,
           UNCHANGED <<rows, used, deliv>>, clock' \in Nat, clock <= clock'
    PROVE  UsedInv' /\ RowInv' /\ TickFireIsCurrent' /\ QuotaHolds'
<1>1. \A id \in Ids : Exists(id) => SlotSound(rows[id], clock)
  BY RowInvBySlot
<1>2. \A id \in Ids : Exists(id) => rows[id] \in Row
  BY DEF TableTypeOK, Exists
<1>3. clock \in Nat
  BY DEF TableTypeOK, Instant
<1>4. \A id \in Ids : Exists(id) => SlotSound(rows[id], clock')
  BY <1>1, <1>2, <1>3, SlotAges
<1>5. RowInv'
  BY <1>4, RowInvBySlotNext DEF Exists
<1>6. UsedInv' /\ TickFireIsCurrent' /\ QuotaHolds'
  BY DEF UsedInv, TickFireIsCurrent, QuotaHolds, RowsOf, Exists
<1>. QED  BY <1>5, <1>6

\* A step that writes one row with a sound slot.
LEMMA OneRowWritten ==
    ASSUME TableTypeOK, RowInv, NEW id \in Ids, NEW row \in Row,
           rows' = [rows EXCEPT ![id] = row], SlotSound(row, clock), clock' = clock
    PROVE  RowInv'
<1>1. \A i \in Ids : Exists(i) => SlotSound(rows[i], clock)
  BY RowInvBySlot
<1>2. \A i \in Ids : rows'[i] = IF i = id THEN row ELSE rows[i]
  BY DEF TableTypeOK
<1>3. \A i \in Ids : rows'[i] # NULL => SlotSound(rows'[i], clock')
  BY <1>1, <1>2 DEF Exists
<1>. QED  BY <1>3, RowInvBySlotNext

\* A step that adds no row.
LEMMA NoRowAdded ==
    ASSUME UsedInv, QuotaHolds, used' = used,
           \A id \in Ids : rows'[id] # NULL => Exists(id)
    PROVE  UsedInv' /\ QuotaHolds'
<1>1. UsedInv'
  BY DEF UsedInv, Exists
<1>2. ASSUME NEW o \in Owners PROVE Cardinality(RowsOf(o)') <= Quota
  <2>1. RowsOf(o)' \subseteq RowsOf(o) /\ RowsOf(o) \subseteq used
    BY DEF RowsOf, Exists, UsedInv
  <2>2. IsFiniteSet(RowsOf(o))
    BY <2>1, FS_Subset DEF UsedInv
  <2>3. /\ IsFiniteSet(RowsOf(o)')
        /\ Cardinality(RowsOf(o)') <= Cardinality(RowsOf(o))
    BY <2>1, <2>2, FS_Subset
  <2>4. Cardinality(RowsOf(o)') \in Nat /\ Cardinality(RowsOf(o)) \in Nat
    BY <2>2, <2>3, FS_CardinalityType
  <2>5. Cardinality(RowsOf(o)) <= Quota /\ Quota \in Nat
    BY ModuleAssumption DEF QuotaHolds
  <2>. QED  BY <2>3, <2>4, <2>5
<1>. QED  BY <1>1, <1>2 DEF QuotaHolds

\* A step that retires the fires of one schedule and leaves the other rows alone.
LEMMA FiresRetired ==
    ASSUME TableTypeOK, TickFireIsCurrent, NEW id \in Ids, NEW now \in Nat,
           deliv' = ExpireOutstanding(deliv, id, now),
           \A i \in Ids \ {id} : rows'[i] = rows[i]
    PROVE  deliv' \subseteq Delivery /\ TickFireIsCurrent'
<1>1. deliv \in SUBSET Delivery
  BY DEF TableTypeOK
<1>2. deliv' \subseteq Delivery /\ \A d \in deliv' : Outstanding(d) => d \in deliv /\ d.id # id
  BY <1>1, ExpireFacts
<1>3. \A d \in deliv : d.id \in Ids
  BY <1>1 DEF Delivery
<1>. QED  BY <1>2, <1>3 DEF TickFireIsCurrent, Exists

-----------------------------------------------------------------------------
(* The initial state and the handlers, one lemma each.                     *)

\* An empty table.
LEMMA InitTableInv ==
    ASSUME TableInit
    PROVE  TableInv
<1>1. TableTypeOK
  BY DEF TableInit, TableTypeOK, Instant
<1>2. UsedInv /\ TodoInv /\ CallInv
  BY FS_EmptySet DEF TableInit, UsedInv, TodoInv, CallInv, Exists
<1>3. RowInv /\ TickFireIsCurrent
  BY DEF TableInit, RowInv, DormantUnarmed, NeverStranded, SlotMatchesSpec,
         TickFireIsCurrent, Exists
<1>4. ASSUME NEW o \in Owners PROVE Cardinality(RowsOf(o)) <= Quota
  <2>1. RowsOf(o) = {}
    BY DEF RowsOf, Exists, TableInit
  <2>. QED  BY <2>1, FS_EmptySet, ModuleAssumption
<1>. QED  BY <1>1, <1>2, <1>3, <1>4 DEF TableInv, QuotaHolds

\* Nothing changes.
LEMMA StutterTable ==
    ASSUME TableInv, UNCHANGED tableVars
    PROVE  TableInv'
  BY DEF TableInv, tableVars, TableTypeOK, UsedInv, TodoInv, Agrees, CallInv, CallOK, SlotAt,
         RowInv, DormantUnarmed, NeverStranded, SlotMatchesSpec, TickFireIsCurrent,
         QuotaHolds, RowsOf, Exists

\* Time passes: a slot that was the next one still is, or is due.
LEMMA ClockKeeps ==
    ASSUME TableInv, AdvanceClock
    PROVE  TableInv'
<1>1. clock \in Nat /\ clock' \in Nat /\ clock <= clock'
  BY DEF TableInv, TableTypeOK, AdvanceClock, Instant
<1>2. Ages
  BY <1>1 DEF AdvanceClock, Ages, RowMoves
<1>3. TableTypeOK'
  BY <1>1 DEF TableInv, TableTypeOK, AdvanceClock, Instant
<1>4. UsedInv' /\ RowInv' /\ TickFireIsCurrent' /\ QuotaHolds'
  BY <1>1, SameRows DEF TableInv, AdvanceClock
<1>5. TodoInv' /\ CallInv'
  BY <1>2, TodoAges, CallInvAges DEF TableInv, AdvanceClock
<1>. QED  BY <1>3, <1>4, <1>5 DEF TableInv

\* What a step that only begins, ends or repeats one call keeps.
LEMMA OneCallKeeps ==
    ASSUME TableInv, NEW c \in Clients, NEW u \in Upserting \cup Resuming \cup {NULL},
           call' = [call EXCEPT ![c] = u], u # NULL => CallOK(u),
           UNCHANGED <<clock, rows, used, deliv, installed, tickNow, todo>>
    PROVE  TableInv'
<1>1. clock \in Nat /\ Ages
  BY DEF TableInv, TableTypeOK, Ages, RowMoves, Instant
<1>2. TableTypeOK'
  BY DEF TableInv, TableTypeOK
<1>3. UsedInv' /\ RowInv' /\ TickFireIsCurrent' /\ QuotaHolds'
  BY <1>1, SameRows DEF TableInv
<1>4. TodoInv'
  BY <1>1, TodoAges DEF TableInv
<1>5. \A x \in Clients : call'[x] # NULL => CallOK(call'[x])
  BY DEF TableInv, TableTypeOK, CallInv
<1>6. CallInv'
  BY <1>5 DEF CallInv, CallOK, Exists, SlotAt
<1>. QED  BY <1>2, <1>3, <1>4, <1>6 DEF TableInv

\* An upsert takes its instant and its slot.
LEMMA UpsertCallKeeps ==
    ASSUME TableInv, NEW c \in Clients, NEW id \in Ids, NEW desired \in Desired,
           UpsertCall(c, OwnerOf[id], KeyOf[id], desired)
    PROVE  TableInv'
<1>. DEFINE u == [kind |-> "upsert", owner |-> OwnerOf[id], key |-> KeyOf[id],
                  desired |-> desired, now |-> clock,
                  next |-> NextFire(desired.spec, clock)]
<1>1. clock \in Nat /\ OwnerOf[id] \in Owners /\ desired.spec \in AnySpec
  BY ModuleAssumption DEF TableInv, TableTypeOK, Desired, Instant
<1>2. NextFire(desired.spec, clock) \in InstantOrNull
  BY <1>1, NextFireLater
<1>3. u \in Upserting
  BY <1>1, <1>2 DEF Upserting, Instant
<1>4. CallOK(u)
  BY <1>1 DEF CallOK
<1>5. call' = [call EXCEPT ![c] = u]
  BY DEF UpsertCall
<1>. HIDE DEF u
<1>. QED  BY <1>3, <1>4, <1>5, OneCallKeeps DEF UpsertCall

\* An upsert is refused or cut off.
LEMMA UpsertDropKeeps ==
    ASSUME TableInv, NEW c \in Clients, UpsertDrop(c)
    PROVE  TableInv'
  BY OneCallKeeps DEF UpsertDrop

\* A resume reads a row and takes its slot from it.
LEMMA ResumeCallKeeps ==
    ASSUME TableInv, NEW c \in Clients, NEW id \in Ids, ResumeCall(c, id)
    PROVE  TableInv'
<1>. DEFINE row == rows[id]
            u == [kind |-> "resume", id |-> id, now |-> clock, attempt |-> 1,
                  next |-> IF row.enabled THEN NextFire(row.spec, clock) ELSE NULL,
                  revision |-> row.revision]
<1>1. clock \in Nat /\ row \in Row /\ id \in used
  BY DEF TableInv, TableTypeOK, Instant, ResumeCall, Exists, UsedInv
<1>2. row.revision \in Nat /\ NextFire(row.spec, clock) \in InstantOrNull
  BY <1>1, RowFacts, NextFireLater
<1>3. u \in Resuming
  BY <1>1, <1>2 DEF Resuming, Instant, InstantOrNull
<1>4. CallOK(u)
  BY <1>1, <1>2 DEF CallOK, SlotAt
<1>5. call' = [call EXCEPT ![c] = u]
  BY DEF ResumeCall
<1>. HIDE DEF u
<1>. QED  BY <1>3, <1>4, <1>5, OneCallKeeps DEF ResumeCall

\* A resume whose write matched no row reads again or ends.
LEMMA ResumeMissKeeps ==
    ASSUME TableInv, NEW c \in Clients, ResumeMiss(c)
    PROVE  TableInv'
<1>. DEFINE r == call[c]
            row == rows[r.id]
            u == [r EXCEPT !.attempt = r.attempt + 1, !.revision = row.revision,
                           !.next = IF row.enabled THEN NextFire(row.spec, r.now) ELSE NULL]
<1>1. call' = [call EXCEPT ![c] = NULL] \/ (Exists(r.id) /\ call' = [call EXCEPT ![c] = u])
  BY DEF ResumeMiss
<1>2. r \in Resuming /\ r.kind = "resume" /\ CallOK(r)
  BY DEF TableInv, TableTypeOK, ResumeMiss, CallInv, Upserting
<1>3. ASSUME Exists(r.id), call' = [call EXCEPT ![c] = u]
      PROVE  TableInv'
  <2>1. r.id \in Ids /\ r.now \in Nat /\ r.now <= clock /\ r.attempt \in Nat /\ r.id \in used
    BY <1>2 DEF Resuming, Instant, CallOK
  <2>2. row \in Row
    BY <1>3, <2>1 DEF TableInv, TableTypeOK, Exists
  <2>3. row.revision \in Nat /\ NextFire(row.spec, r.now) \in InstantOrNull
    BY <2>1, <2>2, RowFacts, NextFireLater
  <2>4. u \in Resuming
    <3>1. r.attempt + 1 \in Nat /\ row.revision \in Nat
      BY <2>1, <2>3
    <3>2. SlotAt(row, r.now) \in InstantOrNull
      <4>1. row.enabled \in BOOLEAN
        BY <2>2, RowFacts
      <4>. HIDE DEF row
      <4>. QED  BY <2>3, <4>1 DEF SlotAt, InstantOrNull
    <3>3. ASSUME NEW a \in Nat, NEW v \in Nat, NEW n \in InstantOrNull
          PROVE  [r EXCEPT !.attempt = a, !.revision = v, !.next = n] \in Resuming
      <4>. HIDE DEF r
      <4>. QED  BY <1>2 DEF Resuming
    <3>4. u = [r EXCEPT !.attempt = r.attempt + 1, !.revision = row.revision,
                        !.next = SlotAt(row, r.now)]
      BY DEF SlotAt
    <3>. HIDE DEF u, r, row
    <3>. QED  BY <3>1, <3>2, <3>3, <3>4
  <2>5. CallOK(u)
    BY <1>2, <2>1, <2>3 DEF CallOK, SlotAt, Resuming
  <2>. HIDE DEF u
  <2>. QED  BY <1>3, <2>4, <2>5, OneCallKeeps DEF ResumeMiss
<1>4. ASSUME call' = [call EXCEPT ![c] = NULL] PROVE TableInv'
  BY <1>4, OneCallKeeps DEF ResumeMiss
<1>. QED  BY <1>1, <1>3, <1>4

\* A declaration of a new key: under a fresh id, within the quota, with the slot computed
\* before the transaction.
LEMMA UpsertCreateKeeps ==
    ASSUME TableInv, NEW c \in Clients, NEW id \in Ids, UpsertLand(c), UpsertCreate(c, id)
    PROVE  TableInv'
<1>. DEFINE u == call[c]
            row == [enabled |-> u.desired.enabled, suspended |-> FALSE, sys |-> FALSE,
                    spec |-> u.desired.spec, label |-> u.desired.label,
                    next |-> IF u.desired.enabled THEN u.next ELSE NULL,
                    failures |-> 0, revision |-> 1]
<1>1. u \in Upserting /\ u # NULL /\ CallOK(u)
  BY DEF TableInv, TableTypeOK, UpsertLand, CallInv, Resuming
<1>2. /\ u.desired \in Desired /\ u.next \in InstantOrNull /\ u.now \in Nat
      /\ u.now <= clock /\ clock \in Nat /\ u.next = NextFire(u.desired.spec, u.now)
      /\ u.owner = OwnerOf[id] /\ u.owner \in Owners
  BY <1>1, ModuleAssumption
     DEF Upserting, Instant, CallOK, TableInv, TableTypeOK, UpsertCreate
<1>3. row \in Row /\ row.next = IF Eligible(row) THEN NextFire(row.spec, u.now) ELSE NULL
  <2>1. /\ u.desired.enabled \in BOOLEAN /\ u.desired.spec \in Specs
        /\ u.desired.label \in Labels
    BY <1>2 DEF Desired
  <2>2. (IF u.desired.enabled THEN u.next ELSE NULL) \in InstantOrNull
    BY <1>2, <2>1 DEF InstantOrNull
  <2>. QED  BY <1>2, <2>1, <2>2 DEF Row, Eligible
<1>4. rows' = [rows EXCEPT ![id] = row] /\ used' = used \cup {id} /\ deliv' = deliv
  BY DEF UpsertCreate
<1>5. id \notin used /\ rows[id] = NULL /\ rows \in [Ids -> Row \cup {NULL}]
  BY DEF UpsertCreate, TableInv, UsedInv, Exists, TableTypeOK
<1>. HIDE DEF row
<1>6. \A i \in Ids : rows'[i] = IF i = id THEN row ELSE rows[i]
  BY <1>4, <1>5
<1>7. Ages
  BY <1>2, <1>4, <1>5, <1>6 DEF Ages, RowMoves, UpsertLand
<1>8. call' = [call EXCEPT ![c] = NULL] /\ \A x \in Clients : call'[x] \in {call[x], NULL}
  BY DEF UpsertLand, TableInv, TableTypeOK
<1>9. TableTypeOK'
  <2>1. rows' \in [Ids -> Row \cup {NULL}] /\ used' \subseteq Ids
    BY <1>3, <1>4, <1>5 DEF TableInv, TableTypeOK
  <2>. QED  BY <1>4, <1>8, <2>1 DEF TableInv, TableTypeOK, UpsertLand
<1>10. UsedInv'
  <2>1. IsFiniteSet(used')
    BY <1>4, FS_AddElement DEF TableInv, UsedInv
  <2>. QED  BY <1>4, <1>6, <2>1 DEF TableInv, UsedInv, Exists
<1>11. RowInv'
  BY <1>2, <1>3, <1>4, FreshSlot, OneRowWritten DEF TableInv, UpsertLand
<1>12. TickFireIsCurrent'
  <2>1. \A d \in deliv : d.id \in Ids
    BY DEF TableInv, TableTypeOK, Delivery
  <2>2. \A d \in deliv : Outstanding(d) /\ d.trigger = "tick" => d.id # id
    BY <1>5 DEF TableInv, TickFireIsCurrent, Exists
  <2>. QED  BY <1>4, <1>6, <2>1, <2>2 DEF TableInv, TickFireIsCurrent, Exists
<1>13. ASSUME NEW o \in Owners PROVE Cardinality(RowsOf(o)') <= Quota
  <2>1. RowsOf(o)' \subseteq RowsOf(o) \cup (IF o = u.owner THEN {id} ELSE {})
    BY <1>2, <1>6 DEF RowsOf, Exists
  <2>2. IsFiniteSet(RowsOf(o)) /\ Cardinality(RowsOf(o)) <= Quota /\ Quota \in Nat
    <3>1. RowsOf(o) \subseteq used
      BY DEF RowsOf, TableInv, UsedInv
    <3>. QED  BY <3>1, FS_Subset, ModuleAssumption DEF TableInv, UsedInv, QuotaHolds
  <2>3. CASE o = u.owner
    <3>1. Cardinality(RowsOf(o)) < Quota
      BY <2>3 DEF UpsertCreate, UnderQuota
    <3>2. id \notin RowsOf(o)
      BY <1>5 DEF RowsOf, Exists
    <3>3. /\ IsFiniteSet(RowsOf(o) \cup {id})
          /\ Cardinality(RowsOf(o) \cup {id}) = Cardinality(RowsOf(o)) + 1
      BY <2>2, <3>2, FS_AddElement
    <3>4. /\ IsFiniteSet(RowsOf(o)')
          /\ Cardinality(RowsOf(o)') <= Cardinality(RowsOf(o) \cup {id})
      BY <2>1, <2>3, <3>3, FS_Subset
    <3>5. Cardinality(RowsOf(o)') \in Nat /\ Cardinality(RowsOf(o)) \in Nat
      BY <2>2, <3>4, FS_CardinalityType
    <3>. QED  BY <2>2, <3>1, <3>3, <3>4, <3>5
  <2>4. CASE o # u.owner
    <3>1. /\ IsFiniteSet(RowsOf(o)')
          /\ Cardinality(RowsOf(o)') <= Cardinality(RowsOf(o))
      BY <2>1, <2>2, <2>4, FS_Subset
    <3>2. Cardinality(RowsOf(o)') \in Nat /\ Cardinality(RowsOf(o)) \in Nat
      BY <2>2, <3>1, FS_CardinalityType
    <3>. QED  BY <2>2, <3>1, <3>2
  <2>. QED  BY <2>3, <2>4
<1>14. TodoInv' /\ CallInv'
  <2>1. todo' = todo /\ tickNow' = tickNow
    BY DEF UpsertLand
  <2>. QED  BY <1>7, <1>8, TodoAges, CallInvAges DEF TableInv
<1>. QED  BY <1>9, <1>10, <1>11, <1>12, <1>13, <1>14 DEF TableInv, QuotaHolds

\* What an upsert stores over a row it has.
LEMMA DeclaredFacts ==
    ASSUME NEW old \in Row, NEW want \in Desired, NEW next \in InstantOrNull
    PROVE  LET row == Declared(old, want, next)
           IN  /\ row \in Row /\ row.revision = old.revision + 1
               /\ row.spec = want.spec /\ row.enabled = want.enabled
               /\ row.suspended = old.suspended /\ row.sys = FALSE
               /\ row.next = UpsertNext(old, want, next)
<1>. DEFINE slot == UpsertNext(old, want, next)
            fails == IF SlotMoves(old, want) THEN 0 ELSE old.failures
            rev == old.revision + 1
            first == [old EXCEPT !.label = want.label, !.enabled = want.enabled,
                                 !.spec = want.spec]
            second == [first EXCEPT !.next = slot, !.failures = fails]
            row == [second EXCEPT !.sys = FALSE, !.revision = rev]
<1>1. want.enabled \in BOOLEAN /\ want.spec \in Specs /\ want.label \in Labels
  BY DEF Desired
<1>2. slot \in InstantOrNull /\ fails \in Nat /\ rev \in Nat
  BY <1>1, RowFacts DEF UpsertNext, InstantOrNull
<1>3. Declared(old, want, next) = row
  BY DEF Declared
<1>. HIDE DEF slot, fails, rev
<1>4. /\ first \in Row /\ first.spec = want.spec /\ first.enabled = want.enabled
      /\ first.suspended = old.suspended
  BY <1>1 DEF Row
<1>. HIDE DEF first
<1>5. /\ second \in Row /\ second.spec = want.spec /\ second.enabled = want.enabled
      /\ second.suspended = old.suspended /\ second.next = slot
  BY <1>2, <1>4 DEF Row
<1>. HIDE DEF second
<1>6. /\ row \in Row /\ row.spec = want.spec /\ row.enabled = want.enabled
      /\ row.suspended = old.suspended /\ row.next = slot
      /\ row.revision = rev /\ row.sys = FALSE
  BY <1>2, <1>5 DEF Row
<1>. QED  BY <1>3, <1>6 DEF slot, rev

\* A declaration of a key that has a row: the slot moves with the spec or a switch, and the
\* fires of a spec that is gone, or of a row that is disabled, are retired.
LEMMA UpsertUpdateKeeps ==
    ASSUME TableInv, NEW c \in Clients, NEW id \in Ids, UpsertLand(c), UpsertUpdate(c, id)
    PROVE  TableInv'
<1>. DEFINE u == call[c]
            old == rows[id]
            row == Declared(old, u.desired, u.next)
<1>1. u \in Upserting /\ u # NULL /\ CallOK(u)
  BY DEF TableInv, TableTypeOK, UpsertLand, CallInv, Resuming
<1>2. /\ u.desired \in Desired /\ u.next \in InstantOrNull /\ u.now \in Nat
      /\ u.now <= clock /\ clock \in Nat /\ u.next = NextFire(u.desired.spec, u.now)
  BY <1>1 DEF Upserting, Instant, CallOK, TableInv, TableTypeOK
<1>3. Exists(id) /\ old \in Row /\ old.revision \in Nat /\ SlotSound(old, clock)
  <2>1. Exists(id)
    BY DEF UpsertUpdate, Holder, RowsOf
  <2>. QED  BY <2>1, RowFacts, RowInvBySlot DEF TableInv, TableTypeOK, Exists
<1>4. call' = [call EXCEPT ![c] = NULL] /\ \A x \in Clients : call'[x] \in {call[x], NULL}
  BY DEF UpsertLand, TableInv, TableTypeOK
<1>5. used' = used /\ clock' = clock /\ todo' = todo /\ tickNow' = tickNow
      /\ installed' = installed
  BY DEF UpsertLand, UpsertUpdate
<1>6. CASE SameDeclaration(old, u.desired)
  <2>1. rows' = rows /\ deliv' = deliv
    BY <1>6 DEF UpsertUpdate
  <2>. QED  BY <1>4, <1>5, <2>1, OneCallKeeps
<1>7. CASE ~SameDeclaration(old, u.desired)
  <2>1. /\ rows' = [rows EXCEPT ![id] = row]
        /\ deliv' = IF Retires(old, u.desired)
                    THEN ExpireOutstanding(deliv, id, u.now) ELSE deliv
    BY <1>7 DEF UpsertUpdate
  <2>2. u.desired.enabled \in BOOLEAN
    BY <1>2 DEF Desired
  <2>3. /\ row \in Row /\ row.revision = old.revision + 1
        /\ row.spec = u.desired.spec /\ row.enabled = u.desired.enabled
        /\ row.suspended = old.suspended /\ row.sys = FALSE
        /\ row.next = UpsertNext(old, u.desired, u.next)
    BY <1>2, <1>3, DeclaredFacts
  <2>4. SlotSound(row, clock)
    <3>1. CASE SlotMoves(old, u.desired)
      <4>1. row.next = IF Eligible(row) THEN NextFire(row.spec, u.now) ELSE NULL
        BY <1>2, <2>3, <3>1 DEF UpsertNext, Eligible
      <4>. HIDE DEF row
      <4>. QED  BY <1>2, <2>3, <4>1, FreshSlot
    <3>2. CASE ~SlotMoves(old, u.desired)
      <4>1. /\ row.spec = old.spec /\ row.next = old.next
            /\ Eligible(row) = Eligible(old)
        BY <1>3, <2>2, <2>3, <3>2, RowFacts DEF UpsertNext, SlotMoves, Eligible
      <4>. HIDE DEF row
      <4>. QED  BY <1>3, <4>1 DEF SlotSound
    <3>. QED  BY <3>1, <3>2
  <2>. HIDE DEF row
  <2>5. \A i \in Ids : rows'[i] = IF i = id THEN row ELSE rows[i]
    BY <2>1 DEF TableInv, TableTypeOK
  <2>6. Ages
    BY <1>2, <1>3, <1>5, <2>3, <2>5 DEF Ages, RowMoves, Exists
  <2>7. RowInv'
    BY <1>5, <2>1, <2>3, <2>4, OneRowWritten DEF TableInv
  <2>8. UsedInv' /\ QuotaHolds'
    BY <1>3, <1>5, <2>5, NoRowAdded DEF TableInv, Exists
  <2>9. deliv' \subseteq Delivery /\ TickFireIsCurrent'
    <3>1. CASE Retires(old, u.desired)
      BY <1>2, <2>1, <2>5, <3>1, FiresRetired DEF TableInv
    <3>2. CASE ~Retires(old, u.desired)
      <4>1. deliv' = deliv /\ \A d \in deliv : d.id \in Ids
        BY <2>1, <3>2 DEF TableInv, TableTypeOK, Delivery
      <4>2. /\ row.spec = old.spec /\ row.suspended = old.suspended /\ row # NULL
            /\ old.enabled => row.enabled
        BY <2>3, <3>2, RowFacts DEF Retires
      <4>. QED  BY <2>5, <4>1, <4>2 DEF TableInv, TableTypeOK, TickFireIsCurrent, Exists
    <3>. QED  BY <3>1, <3>2
  <2>10. TableTypeOK'
    <3>1. rows' \in [Ids -> Row \cup {NULL}]
      BY <2>1, <2>3 DEF TableInv, TableTypeOK
    <3>. QED  BY <1>4, <1>5, <2>9, <3>1 DEF TableInv, TableTypeOK
  <2>11. TodoInv' /\ CallInv'
    BY <1>4, <2>6, TodoAges, CallInvAges DEF TableInv
  <2>. QED  BY <2>7, <2>8, <2>9, <2>10, <2>11 DEF TableInv
<1>. QED  BY <1>6, <1>7

\* The transaction of an upsert.
LEMMA UpsertLandKeeps ==
    ASSUME TableInv, NEW c \in Clients, UpsertLand(c)
    PROVE  TableInv'
<1>1. PICK id \in Ids : UpsertCreate(c, id) \/ UpsertUpdate(c, id)
  BY DEF UpsertLand
<1>. QED  BY <1>1, UpsertCreateKeeps, UpsertUpdateKeeps

\* A delete takes the deliveries with the row.
LEMMA DeleteKeeps ==
    ASSUME TableInv, NEW id \in Ids, Delete(id)
    PROVE  TableInv'
<1>1. \A i \in Ids : rows'[i] = IF i = id THEN NULL ELSE rows[i]
  BY DEF TableInv, TableTypeOK, Delete
<1>2. clock \in Nat
  BY DEF TableInv, TableTypeOK, Instant
<1>3. Ages
  BY <1>1, <1>2 DEF Ages, RowMoves, Delete
<1>4. TableTypeOK'
  BY DEF TableInv, TableTypeOK, Delete
<1>5. UsedInv' /\ QuotaHolds'
  BY <1>1, NoRowAdded DEF TableInv, Delete, Exists
<1>6. RowInv'
  BY <1>1, RowInvBySlot, RowInvBySlotNext DEF TableInv, Delete, Exists
<1>7. TickFireIsCurrent'
  <2>1. \A d \in deliv' : d \in deliv /\ d.id # id /\ d.id \in Ids
    BY DEF Delete, TableInv, TableTypeOK, Delivery
  <2>. QED  BY <1>1, <2>1 DEF TableInv, TickFireIsCurrent, Exists
<1>8. TodoInv' /\ CallInv'
  BY <1>3, TodoAges, CallInvAges DEF TableInv, Delete
<1>. QED  BY <1>4, <1>5, <1>6, <1>7, <1>8 DEF TableInv

\* What a suspend and a resume store.
LEMMA SwitchedFacts ==
    ASSUME NEW old \in Row, NEW next \in InstantOrNull
    PROVE  /\ SuspendedRow(old) \in Row
           /\ SuspendedRow(old).revision = old.revision + 1
           /\ SuspendedRow(old).suspended = TRUE /\ SuspendedRow(old).next = NULL
           /\ ResumedRow(old, next) \in Row
           /\ ResumedRow(old, next).revision = old.revision + 1
           /\ ResumedRow(old, next).next = IF old.enabled THEN next ELSE NULL
           /\ ResumedRow(old, next).spec = old.spec
           /\ ResumedRow(old, next).enabled = old.enabled
           /\ ResumedRow(old, next).suspended = FALSE /\ ResumedRow(old, next).sys = FALSE
<1>. DEFINE slot == IF old.enabled THEN next ELSE NULL
            rev == old.revision + 1
            cleared == [old EXCEPT !.suspended = FALSE, !.sys = FALSE, !.failures = 0]
<1>1. slot \in InstantOrNull /\ NULL \in InstantOrNull /\ rev \in Nat
  BY RowFacts DEF InstantOrNull
<1>2. /\ SuspendedRow(old) = [old EXCEPT !.suspended = TRUE, !.next = NULL, !.revision = rev]
      /\ ResumedRow(old, next) = [cleared EXCEPT !.next = slot, !.revision = rev]
  BY DEF SuspendedRow, ResumedRow
<1>. HIDE DEF slot, rev
<1>3. /\ SuspendedRow(old) \in Row /\ SuspendedRow(old).revision = rev
      /\ SuspendedRow(old).suspended = TRUE /\ SuspendedRow(old).next = NULL
  BY <1>1, <1>2 DEF Row
<1>4. /\ cleared \in Row /\ cleared.suspended = FALSE /\ cleared.sys = FALSE
      /\ cleared.spec = old.spec /\ cleared.enabled = old.enabled
  BY DEF Row
<1>. HIDE DEF cleared
<1>5. /\ ResumedRow(old, next) \in Row /\ ResumedRow(old, next).revision = rev
      /\ ResumedRow(old, next).next = slot /\ ResumedRow(old, next).spec = old.spec
      /\ ResumedRow(old, next).enabled = old.enabled
      /\ ResumedRow(old, next).suspended = FALSE /\ ResumedRow(old, next).sys = FALSE
  BY <1>1, <1>2, <1>4 DEF Row
<1>. QED  BY <1>3, <1>5 DEF slot, rev

\* A suspend disarms the row and retires its fires.
LEMMA SuspendKeeps ==
    ASSUME TableInv, NEW id \in Ids, Suspend(id)
    PROVE  TableInv'
<1>. DEFINE old == rows[id]
            row == SuspendedRow(old)
<1>1. Exists(id) /\ old \in Row /\ old.revision \in Nat /\ clock \in Nat
  BY RowFacts DEF Suspend, TableInv, TableTypeOK, Exists, Instant
<1>2. /\ row \in Row /\ row.revision = old.revision + 1
      /\ row.suspended = TRUE /\ row.next = NULL
  BY <1>1, SwitchedFacts DEF InstantOrNull
<1>3. rows' = [rows EXCEPT ![id] = row]
  BY DEF Suspend
<1>. HIDE DEF row
<1>4. \A i \in Ids : rows'[i] = IF i = id THEN row ELSE rows[i]
  BY <1>3 DEF TableInv, TableTypeOK
<1>5. Ages
  BY <1>1, <1>2, <1>4 DEF Ages, RowMoves, Suspend, Exists
<1>6. SlotSound(row, clock)
  BY <1>2 DEF SlotSound, Eligible
<1>7. RowInv'
  BY <1>2, <1>3, <1>6, OneRowWritten DEF TableInv, Suspend
<1>8. UsedInv' /\ QuotaHolds'
  BY <1>1, <1>4, NoRowAdded DEF TableInv, Suspend, Exists
<1>9. deliv' \subseteq Delivery /\ TickFireIsCurrent'
  BY <1>1, <1>4, FiresRetired DEF TableInv, Suspend, SuspendedDeliveries
<1>10. TableTypeOK'
  <2>1. rows' \in [Ids -> Row \cup {NULL}]
    BY <1>2, <1>3 DEF TableInv, TableTypeOK
  <2>. QED  BY <1>9, <2>1 DEF TableInv, TableTypeOK, Suspend
<1>11. TodoInv' /\ CallInv'
  BY <1>5, TodoAges, CallInvAges DEF TableInv, Suspend
<1>. QED  BY <1>7, <1>8, <1>9, <1>10, <1>11 DEF TableInv

\* A resume's write: the revision it read still stands, so its slot is the row's.
LEMMA ResumeWriteKeeps ==
    ASSUME TableInv, NEW c \in Clients, ResumeWrite(c)
    PROVE  TableInv'
<1>. DEFINE u == call[c]
            id == u.id
            old == rows[id]
            row == ResumedRow(old, u.next)
<1>1. u \in Resuming /\ u # NULL /\ CallOK(u) /\ u.kind = "resume"
  BY DEF TableInv, TableTypeOK, ResumeWrite, CallInv, Upserting
<1>2. /\ id \in Ids /\ Exists(id) /\ old \in Row /\ old.revision \in Nat
      /\ u.now \in Nat /\ u.now <= clock /\ clock \in Nat
  BY <1>1, RowFacts
     DEF Resuming, ResumeWrite, ResumeHolds, TableInv, TableTypeOK, Exists, Instant, CallOK
<1>3. u.next = SlotAt(old, u.now)
  BY <1>1, <1>2 DEF CallOK, ResumeWrite, ResumeHolds
<1>4. u.next \in InstantOrNull /\ old.enabled \in BOOLEAN
  BY <1>1, <1>2, RowFacts DEF Resuming
<1>5. rows' = [rows EXCEPT ![id] = row]
  BY DEF ResumeWrite
<1>6. /\ row \in Row /\ row.revision = old.revision + 1 /\ row.spec = old.spec
      /\ row.next = (IF old.enabled THEN u.next ELSE NULL) /\ row.enabled = old.enabled
      /\ row.suspended = FALSE /\ row.sys = FALSE
  BY <1>2, <1>4, SwitchedFacts
<1>7. SlotSound(row, clock)
  <2>1. row.next = IF Eligible(row) THEN NextFire(row.spec, u.now) ELSE NULL
    BY <1>3, <1>4, <1>6 DEF SlotAt, Eligible
  <2>. HIDE DEF row
  <2>. QED  BY <1>2, <1>6, <2>1, FreshSlot
<1>. HIDE DEF row
<1>8. \A i \in Ids : rows'[i] = IF i = id THEN row ELSE rows[i]
  BY <1>5 DEF TableInv, TableTypeOK
<1>9. Ages
  BY <1>2, <1>6, <1>8 DEF Ages, RowMoves, ResumeWrite, Exists
<1>10. RowInv'
  BY <1>2, <1>5, <1>6, <1>7, OneRowWritten DEF TableInv, ResumeWrite
<1>11. UsedInv' /\ QuotaHolds'
  BY <1>2, <1>8, NoRowAdded DEF TableInv, ResumeWrite, Exists
<1>12. TickFireIsCurrent'
  <2>1. deliv' = deliv /\ \A d \in deliv : d.id \in Ids
    BY DEF ResumeWrite, TableInv, TableTypeOK, Delivery
  <2>2. row # NULL /\ row.suspended = FALSE
    BY <1>6, RowFacts
  <2>. QED  BY <1>6, <1>8, <2>1, <2>2 DEF TableInv, TickFireIsCurrent, Exists
<1>13. TableTypeOK'
  <2>1. rows' \in [Ids -> Row \cup {NULL}]
    BY <1>5, <1>6 DEF TableInv, TableTypeOK
  <2>. QED  BY <2>1 DEF TableInv, TableTypeOK, ResumeWrite
<1>14. TodoInv' /\ CallInv'
  <2>1. \A x \in Clients : call'[x] \in {call[x], NULL}
    BY DEF ResumeWrite, TableInv, TableTypeOK
  <2>. QED  BY <1>9, <2>1, TodoAges, CallInvAges DEF TableInv, ResumeWrite
<1>. QED  BY <1>10, <1>11, <1>12, <1>13, <1>14 DEF TableInv

\* A fire by hand writes a delivery and no row.
LEMMA RunNowKeeps ==
    ASSUME TableInv, NEW id \in Ids, RunNow(id)
    PROVE  TableInv'
<1>. DEFINE fire == NewFire(id, "run_now", clock, clock)
<1>1. clock \in Nat /\ clock' = clock /\ rows' = rows /\ used' = used
  BY DEF TableInv, TableTypeOK, Instant, RunNow
<1>2. fire \in Delivery /\ fire.trigger = "run_now"
  BY <1>1, NewFireFacts DEF Trigger
<1>3. deliv \in SUBSET Delivery /\ deliv' = RecordFireIn(deliv, fire, clock)
  BY DEF TableInv, TableTypeOK, RunNow
<1>. HIDE DEF fire
<1>4. deliv' \subseteq Delivery /\ \A d \in deliv' : Outstanding(d) => d \in deliv \/ d = fire
  BY <1>1, <1>2, <1>3, RecordFacts
<1>5. TickFireIsCurrent'
  BY <1>1, <1>2, <1>4 DEF TableInv, TickFireIsCurrent, Exists
<1>6. TableTypeOK'
  BY <1>4 DEF TableInv, TableTypeOK, RunNow
<1>7. RowInv' /\ UsedInv' /\ QuotaHolds'
  BY <1>1, RowInvBySlot, RowInvBySlotNext, NoRowAdded DEF TableInv, Exists
<1>8. Ages
  BY <1>1 DEF Ages, RowMoves, RunNow
<1>9. TodoInv' /\ CallInv'
  BY <1>8, TodoAges, CallInvAges DEF TableInv, RunNow
<1>. QED  BY <1>5, <1>6, <1>7, <1>9 DEF TableInv

\* A tick takes its instant and a copy of every due row.
LEMMA TickListKeeps ==
    ASSUME TableInv, TickList
    PROVE  TableInv'
<1>. DEFINE due == {id \in Ids : /\ Exists(id) /\ rows[id].enabled
                                 /\ rows[id].next # NULL /\ rows[id].next <= clock}
<1>1. /\ todo' = {[id |-> id, row |-> rows[id]] : id \in due}
      /\ tickNow' \in {0, clock}
      /\ UNCHANGED <<clock, rows, used, deliv, installed, call>>
  BY DEF TickList
<1>2. clock \in Nat
  BY DEF TableInv, TableTypeOK, Instant
<1>3. \A id \in due : /\ rows[id] \in Row /\ rows[id].next \in Nat
                      /\ id \in used /\ id \in Ids
  <2>1. \A id \in due : rows[id] \in Row /\ id \in used /\ rows[id].next # NULL
    BY DEF TableInv, TableTypeOK, UsedInv, Exists
  <2>. QED  BY <2>1, RowFacts DEF InstantOrNull
<1>4. \A s \in todo' : \E id \in due : s.id = id /\ s.row = rows[id] /\ s \in Snapshot
  BY <1>1, <1>3 DEF Snapshot
<1>. HIDE DEF due
<1>5. TableTypeOK'
  BY <1>1, <1>2, <1>4 DEF TableInv, TableTypeOK, Instant
<1>6. UsedInv' /\ RowInv' /\ TickFireIsCurrent' /\ QuotaHolds'
  BY <1>1, <1>2, SameRows DEF TableInv
<1>7. TodoInv'
  <2>1. tickNow' <= clock'
    BY <1>1, <1>2
  <2>2. ASSUME NEW s \in todo'
        PROVE  s.id \in used' /\ s.row.next \in Nat /\ Agrees(s.id, s.row)'
    <3>1. s.id \in used /\ s.row = rows[s.id] /\ s.row.next \in Nat /\ s.row.revision \in Nat
      BY <1>3, <1>4, <2>2, RowFacts
    <3>2. rows' = rows /\ used' = used
      BY <1>1
    <3>. QED  BY <3>1, <3>2 DEF Agrees, Exists
  <2>. QED  BY <2>1, <2>2 DEF TodoInv
<1>8. CallInv'
  BY <1>1 DEF TableInv, CallInv, CallOK, SlotAt, Exists
<1>. QED  BY <1>5, <1>6, <1>7, <1>8 DEF TableInv

\* A listed row that is skipped, or whose fire meets a StoreError.
LEMMA SkipKeeps ==
    ASSUME TableInv, NEW s \in todo, Done(s),
           UNCHANGED <<clock, rows, used, deliv, installed, call>>
    PROVE  TableInv'
<1>1. clock \in Nat /\ todo' \subseteq todo /\ tickNow' \in {0, tickNow}
  BY DEF TableInv, TableTypeOK, Instant, Done
<1>2. Ages
  BY <1>1 DEF Ages, RowMoves
<1>3. TableTypeOK'
  BY <1>1 DEF TableInv, TableTypeOK, Instant
<1>4. UsedInv' /\ RowInv' /\ TickFireIsCurrent' /\ QuotaHolds'
  BY <1>1, SameRows DEF TableInv
<1>5. TodoInv' /\ CallInv'
  BY <1>2, TodoAges, CallInvAges DEF TableInv
<1>. QED  BY <1>3, <1>4, <1>5 DEF TableInv

\* A fire whose WHERE holds: the copy's spec is the row's, so the next slot and the fire
\* that is recorded belong to it.
LEMMA AdvanceKeeps ==
    ASSUME TableInv, NEW s \in todo, FireModule(s), AdvanceHolds(s)
    PROVE  TableInv'
<1>. DEFINE id == s.id
            old == rows[id]
            slot == NextFire(s.row.spec, tickNow)
            row == [old EXCEPT !.next = slot]
            fire == NewFire(id, "tick", s.row.next, tickNow)
<1>1. /\ id \in Ids /\ id \in used /\ s.row \in Row /\ s.row.next \in Nat
      /\ tickNow \in Nat /\ clock \in Nat /\ tickNow <= clock
  BY DEF TableInv, TableTypeOK, TodoInv, Snapshot, Instant
<1>2. /\ Exists(id) /\ old \in Row /\ old.revision \in Nat /\ Eligible(old)
      /\ old.next = s.row.next /\ old.spec = s.row.spec
  <2>1. Exists(id) /\ Eligible(old) /\ old.next = s.row.next /\ old.spec = s.row.spec
    BY DEF AdvanceHolds, TableInv, TodoInv, Agrees
  <2>. QED  BY <1>1, <2>1, RowFacts DEF TableInv, TableTypeOK, Exists
<1>3. slot \in InstantOrNull
  BY <1>1, RowFacts, NextFireLater
<1>4. /\ rows' = [rows EXCEPT ![id] = row]
      /\ deliv' \in {deliv, RecordFireIn(deliv, fire, tickNow)}
      /\ used' = used /\ clock' = clock /\ call' = call /\ installed' = installed
      /\ todo' \subseteq todo /\ tickNow' \in {0, tickNow}
  BY DEF FireModule, Done
<1>5. /\ row \in Row /\ row.next = NextFire(old.spec, tickNow) /\ row.spec = old.spec
      /\ row.enabled = old.enabled /\ row.suspended = old.suspended /\ row.sys = old.sys
      /\ row.revision = old.revision
  <2>1. slot = NextFire(old.spec, tickNow)
    BY <1>2
  <2>. HIDE DEF slot
  <2>. QED  BY <1>2, <1>3, <2>1 DEF Row
<1>6. SlotSound(row, clock)
  <2>1. row.next = IF Eligible(row) THEN NextFire(row.spec, tickNow) ELSE NULL
    BY <1>2, <1>5 DEF Eligible
  <2>. HIDE DEF row
  <2>. QED  BY <1>1, <1>5, <2>1, FreshSlot
<1>. HIDE DEF row
<1>7. \A i \in Ids : rows'[i] = IF i = id THEN row ELSE rows[i]
  BY <1>4 DEF TableInv, TableTypeOK
<1>8. Ages
  BY <1>1, <1>2, <1>4, <1>5, <1>7 DEF Ages, RowMoves, Exists
<1>9. RowInv'
  BY <1>1, <1>4, <1>5, <1>6, OneRowWritten DEF TableInv
<1>10. UsedInv' /\ QuotaHolds'
  BY <1>2, <1>4, <1>7, NoRowAdded DEF TableInv, Exists
<1>11. fire \in Delivery /\ fire.id = id /\ fire.slot = s.row.next
  BY <1>1, NewFireFacts DEF Trigger
<1>. HIDE DEF fire
<1>12. deliv' \subseteq Delivery /\ \A d \in deliv' : Outstanding(d) => d \in deliv \/ d = fire
  <2>1. deliv \in SUBSET Delivery
    BY DEF TableInv, TableTypeOK
  <2>. QED  BY <1>1, <1>4, <1>11, <2>1, RecordFacts
<1>13. TickFireIsCurrent'
  <2>1. row # NULL /\ row.enabled /\ ~row.suspended
    BY <1>2, <1>5, RowFacts DEF Eligible
  <2>2. row.spec.type = "cron" => fire.slot \in row.spec.slots
    <3>1. SlotSound(old, clock) /\ old.next # NULL
      BY <1>1, <1>2, RowInvBySlot, NullAssumption DEF TableInv
    <3>. QED  BY <1>2, <1>5, <1>11, <3>1 DEF SlotSound
  <2>3. ASSUME NEW d \in deliv', Outstanding(d), d.trigger = "tick"
        PROVE  /\ rows'[d.id] # NULL /\ rows'[d.id].enabled /\ ~rows'[d.id].suspended
               /\ rows'[d.id].spec.type = "cron" => d.slot \in rows'[d.id].spec.slots
    <3>1. CASE d = fire
      BY <1>1, <1>7, <1>11, <2>1, <2>2, <3>1
    <3>2. CASE d \in deliv
      <4>1. /\ d.id \in Ids /\ rows[d.id].enabled /\ ~rows[d.id].suspended /\ Exists(d.id)
            /\ rows[d.id].spec.type = "cron" => d.slot \in rows[d.id].spec.slots
        BY <2>3, <3>2 DEF TableInv, TableTypeOK, Delivery, TickFireIsCurrent
      <4>. QED  BY <1>5, <1>7, <2>1, <4>1 DEF Exists
    <3>. QED  BY <1>12, <2>3, <3>1, <3>2
  <2>. QED  BY <2>3 DEF TickFireIsCurrent, Exists
<1>14. TableTypeOK'
  <2>1. rows' \in [Ids -> Row \cup {NULL}]
    BY <1>4, <1>5 DEF TableInv, TableTypeOK
  <2>. QED  BY <1>1, <1>4, <1>12, <2>1 DEF TableInv, TableTypeOK, Instant
<1>15. TodoInv' /\ CallInv'
  BY <1>4, <1>8, TodoAges, CallInvAges DEF TableInv
<1>. QED  BY <1>9, <1>10, <1>13, <1>14, <1>15 DEF TableInv

\* One listed row is fired or skipped.
LEMMA FireModuleKeeps ==
    ASSUME TableInv, NEW s \in todo, FireModule(s)
    PROVE  TableInv'
<1>1. CASE AdvanceHolds(s)
  BY <1>1, AdvanceKeeps
<1>2. CASE ~AdvanceHolds(s)
  BY <1>2, SkipKeeps DEF FireModule
<1>. QED  BY <1>1, <1>2

-----------------------------------------------------------------------------
(* Theorems.                                                               *)

\* Every step of the tables keeps the inductive invariant.
LEMMA StepKeepsTable ==
    ASSUME TableInv, [TableStep]_tableVars
    PROVE  TableInv'
<1>1. CASE AdvanceClock
  BY <1>1, ClockKeeps
<1>2. ASSUME NEW c \in Clients,
             \E id \in Ids, desired \in Desired : UpsertCall(c, OwnerOf[id], KeyOf[id], desired)
      PROVE  TableInv'
  BY <1>2, UpsertCallKeeps
<1>3. ASSUME NEW c \in Clients, UpsertLand(c) \/ UpsertDrop(c)
      PROVE  TableInv'
  BY <1>3, UpsertLandKeeps, UpsertDropKeeps
<1>4. ASSUME NEW c \in Clients, \E id \in Ids : ResumeCall(c, id)
      PROVE  TableInv'
  BY <1>4, ResumeCallKeeps
<1>5. ASSUME NEW c \in Clients, ResumeWrite(c) \/ ResumeMiss(c)
      PROVE  TableInv'
  BY <1>5, ResumeWriteKeeps, ResumeMissKeeps
<1>6. ASSUME NEW id \in Ids, Delete(id) \/ Suspend(id) \/ RunNow(id)
      PROVE  TableInv'
  BY <1>6, DeleteKeeps, SuspendKeeps, RunNowKeeps
<1>7. CASE TickList
  BY <1>7, TickListKeeps
<1>8. ASSUME NEW s \in todo, FireModule(s)
      PROVE  TableInv'
  BY <1>8, FireModuleKeeps
<1>9. CASE UNCHANGED tableVars
  BY <1>9, StutterTable
<1>. QED  BY <1>1, <1>2, <1>3, <1>4, <1>5, <1>6, <1>7, <1>8, <1>9 DEF TableStep

\* The inductive invariant holds in every reachable state, for any number of ids, owners,
\* callers, specs and labels, any quota and any timing of the calls.
THEOREM TableInvariant == TableSpec => []TableInv
<1>1. TableInit => TableInv
  BY InitTableInv
<1>2. TableInv /\ [TableStep]_tableVars => TableInv'
  BY StepKeepsTable
<1>. QED  BY <1>1, <1>2, PTL DEF TableSpec

\* Every variable has its type.
THEOREM TableTypeCorrect == TableSpec => []TableTypeOK
<1>1. TableInv => TableTypeOK
  BY DEF TableInv
<1>. QED  BY <1>1, TableInvariant, PTL

\* Each owner stays within its quota, however many of its upserts are in progress.
THEOREM QuotaKept == TableSpec => []QuotaHolds
<1>1. TableInv => QuotaHolds
  BY DEF TableInv
<1>. QED  BY <1>1, TableInvariant, PTL

\* A row the module, the user or the kernel switched off waits for no slot.
THEOREM DormantStayUnarmed == TableSpec => []DormantUnarmed
<1>1. TableInv => DormantUnarmed
  BY DEF TableInv, RowInv
<1>. QED  BY <1>1, TableInvariant, PTL

\* No interleaving of upsert, suspend, resume and tick leaves a live schedule without the
\* slot it still has to come.
THEOREM NoScheduleStranded == TableSpec => []NeverStranded
<1>1. TableInv => NeverStranded
  BY DEF TableInv, RowInv
<1>. QED  BY <1>1, TableInvariant, PTL

\* A row waits for a slot of the spec it has now, although the slot was computed before.
THEOREM SlotsBelongToSpecs == TableSpec => []SlotMatchesSpec
<1>1. TableInv => SlotMatchesSpec
  BY DEF TableInv, RowInv
<1>. QED  BY <1>1, TableInvariant, PTL

\* A tick fire still to be delivered is one the module and the user want.
THEOREM TickFiresStayCurrent == TableSpec => []TickFireIsCurrent
<1>1. TableInv => TickFireIsCurrent
  BY DEF TableInv
<1>. QED  BY <1>1, TableInvariant, PTL

-----------------------------------------------------------------------------
(* Beside the pump.                                                        *)

\* One row per fire.
OneRowEach(D) == \A d, e \in D : FireId(d) = FireId(e) => d = e

\* One outstanding fire per source.
OneOpenEach(D) ==
    \A d, e \in D :
        Outstanding(d) /\ Outstanding(e) /\ d.id = e.id /\ d.trigger = e.trigger => d = e

\* A delivery row: outstanding rows, and no others, wait for an attempt they still have.
FireOK(d, now) ==
    /\ d.due # NULL <=> Outstanding(d)
    /\ Outstanding(d) => d.attempts < MaxSent
    /\ d.slot <= now

\* A fire is outstanding only while its schedule's row is there.
HasRow == \A d \in deliv : Outstanding(d) => Exists(d.id)

DelivInv ==
    /\ IsFiniteSet(deliv)
    /\ OneRowEach(deliv) /\ OneOpenEach(deliv)
    /\ \A d \in deliv : FireOK(d, clock)
    /\ \A s \in todo : s.row.next <= tickNow
    /\ clock <= MaxTime /\ HasRow

\* The attempts in flight of an owner.
InFlight(tasks, o) == {t \in tasks : OwnerOf[t.d.id] = o}

\* The caches of the pump are what its join set says, within the caps.
TasksOK(p, now) ==
    /\ p \in Pump /\ IsFiniteSet(p.tasks)
    /\ \A t \in p.tasks : Outstanding(t.d) /\ FireOK(t.d, now)
    /\ \A t, u \in p.tasks : t.d.id = u.d.id => t = u
    /\ p.busy = {t.d.id : t \in p.tasks}
    /\ \A o \in Owners : /\ p.load[o] = Cardinality(InFlight(p.tasks, o))
                         /\ p.load[o] <= PerOwner
    /\ Cardinality(p.tasks) <= GlobalCap

TasksInv == TasksOK(pump, clock) /\ faults \in Nat

\* The inductive invariant of the tables with the pump.
PumpInv == TableInv /\ DelivInv /\ TasksInv

\* A fire that closed does not open again: what the ledger promises.
NeverReopened == OpenFires \cap closed = {}

\* The attempt has reached the module, or may have; its requests with those before it.
Sent(t) == t.outcome \notin {NULL, "deferred"}
Charged(t) == t.d.attempts + (IF Sent(t) THEN 1 ELSE 0)

\* The requests of a fire: those its row counts, one in flight, and one per lost result.
SendsInv ==
    /\ sends \in [Fires -> Nat]
    /\ \A f \in Fires : sends[f] <= MaxSent + faults
    /\ \A t \in pump.tasks : sends[FireId(t.d)] <= Charged(t) + faults
    /\ \A d \in deliv :
          Outstanding(d) => \/ sends[FireId(d)] <= d.attempts + faults
                            \/ \E t \in pump.tasks : FireId(t.d) = FireId(d)
    /\ \A d \in deliv, t \in pump.tasks :
          Outstanding(d) /\ FireId(t.d) = FireId(d) => t.d.attempts = d.attempts
    /\ \A f \in Fires \ (OpenFires \cup closed) :
          sends[f] = 0 /\ \A t \in pump.tasks : FireId(t.d) # f

\* The fires of a schedule that failed for good.
Failed(id) == {f \in gaveUp : f[2] = id}

\* A failure is counted once: when its fire fails, which closes it.
FailInv ==
    /\ IsFiniteSet(gaveUp) /\ gaveUp \subseteq closed /\ GivenUp \subseteq gaveUp
    /\ \A id \in Ids :
          Exists(id) => /\ rows[id].failures <= Cardinality(Failed(id))
                        /\ rows[id].sys => MaxFailures <= Cardinality(Failed(id))

-----------------------------------------------------------------------------
(* The statements, on the rows of one source.                              *)

\* What a statement that retires, deletes or keeps rows makes of the table D.
Keeps(D, E, now) ==
    /\ E \subseteq Delivery /\ IsFiniteSet(E) /\ OneRowEach(E)
    /\ \A d \in E : FireOK(d, now)
    /\ \A d \in E : Outstanding(d) \/ d.status = "failed" => d \in D

\* What a statement that records the fire makes of it.
Opens(D, E, fire, now) ==
    /\ E \subseteq Delivery /\ IsFiniteSet(E) /\ OneRowEach(E) /\ fire \in E
    /\ fire.status = "pending" /\ fire.attempts = 0 /\ fire.slot <= now
    /\ \A d \in D : FireId(d) # FireId(fire)
    /\ \A d \in E : FireOK(d, now)
    /\ \A d \in E \ {fire} : Outstanding(d) \/ d.status = "failed" => d \in D
    /\ \A d \in E \ {fire} :
          Outstanding(d) => ~(d.id = fire.id /\ d.trigger = fire.trigger)
    /\ \A d \in D :
          Outstanding(d) /\ ~(d.id = fire.id /\ d.trigger = fire.trigger) => d \in E

\* A retired row keeps its fire.
LEMMA RetiredFacts ==
    ASSUME NEW d \in Delivery, NEW stamp \in Nat, NEW now \in Nat, FireOK(d, now)
    PROVE  /\ Retired(d, stamp) \in Delivery /\ FireId(Retired(d, stamp)) = FireId(d)
           /\ ~Outstanding(Retired(d, stamp)) /\ Retired(d, stamp).status # "failed"
           /\ FireOK(Retired(d, stamp), now)
  BY DEF Retired, Delivery, Outstanding, Instant, InstantOrNull, FireId, FireOK

\* Some rows are retired, and some of the result is kept.
LEMMA RetireKeeps ==
    ASSUME NEW D \in SUBSET Delivery, NEW R, NEW E, NEW stamp \in Nat, NEW now \in Nat,
           IsFiniteSet(D), OneRowEach(D), \A d \in D : FireOK(d, now),
           E \subseteq {IF d \in R THEN Retired(d, stamp) ELSE d : d \in D}
    PROVE  Keeps(D, E, now)
<1>. DEFINE to(d) == IF d \in R THEN Retired(d, stamp) ELSE d
<1>1. \A e \in E : \E d \in D : e = to(d)
  OBVIOUS
<1>2. \A d \in D : /\ to(d) \in Delivery /\ FireId(to(d)) = FireId(d) /\ FireOK(to(d), now)
                   /\ Outstanding(to(d)) \/ to(d).status = "failed" => to(d) = d
  BY RetiredFacts
<1>. HIDE DEF to
<1>3. OneRowEach(E)
  <2>1. SUFFICES ASSUME NEW e \in E, NEW g \in E, FireId(e) = FireId(g) PROVE e = g
    BY DEF OneRowEach
  <2>2. PICK d \in D, c \in D : e = to(d) /\ g = to(c)
    BY <1>1
  <2>3. FireId(d) = FireId(c)
    BY <1>2, <2>1, <2>2
  <2>. QED  BY <2>2, <2>3 DEF OneRowEach
<1>4. IsFiniteSet(E)
  <2>. DEFINE T == {to(d) : d \in D}
              f == [d \in D |-> to(d)]
  <2>1. f \in Surjection(D, T)
    BY DEF Surjection
  <2>2. IsFiniteSet(T)
    <3>. HIDE DEF f, T
    <3>. QED  BY <2>1, FS_Surjection
  <2>3. E \subseteq T
    BY <1>1
  <2>. QED  BY <2>2, <2>3, FS_Subset
<1>. QED  BY <1>1, <1>2, <1>3, <1>4 DEF Keeps

\* EXPIRE_OUTSTANDING_SQL and EXPIRE_SQL.
LEMMA ExpireKeeps ==
    ASSUME NEW D \in SUBSET Delivery, NEW id, NEW stamp \in Nat, NEW now \in Nat,
           IsFiniteSet(D), OneRowEach(D), \A d \in D : FireOK(d, now)
    PROVE  Keeps(D, ExpireOutstanding(D, id, stamp), now) /\ Keeps(D, ExpireDeliveries(D, stamp), now)
<1>. DEFINE R == {d \in D : d.id = id /\ Outstanding(d)}
            S == {d \in D : Outstanding(d) /\ d.expires <= stamp}
<1>1. /\ ExpireOutstanding(D, id, stamp) =
            {IF d \in R THEN Retired(d, stamp) ELSE d : d \in D}
      /\ ExpireDeliveries(D, stamp) =
            {IF d \in S THEN Retired(d, stamp) ELSE d : d \in D}
  BY DEF ExpireOutstanding, ExpireDeliveries
<1>. HIDE DEF R, S
<1>. QED  BY <1>1, RetireKeeps

\* record_fire_in: opens the fire unless it has a row, and closes what its source has open.
LEMMA RecordOpens ==
    ASSUME NEW D \in SUBSET Delivery, IsFiniteSet(D), OneRowEach(D), NEW now \in Nat, NEW stamp \in Nat,
           \A d \in D : FireOK(d, now),
           NEW id \in Ids, NEW trigger \in Trigger, NEW slot \in Nat, slot <= now,
           NEW fire, fire = NewFire(id, trigger, slot, stamp),
           NEW E, E = RecordFireIn(D, fire, stamp)
    PROVE  Keeps(D, E, now) \/ Opens(D, E, fire, now)
<1>. DEFINE R == Rivals(D, fire)
            S == Supersede(D, fire, stamp)
            I == InsertFire(S, fire)
<1>1. /\ fire \in Delivery /\ fire.id = id /\ fire.trigger = trigger /\ fire.slot = slot
      /\ fire.status = "pending" /\ fire.attempts = 0 /\ Outstanding(fire) /\ FireOK(fire, now)
  BY NewFireFacts, DeliveryAssumption, NullAssumption DEF NewFire, Outstanding, FireOK
<1>2. S \subseteq {IF d \in R THEN Retired(d, stamp) ELSE d : d \in D}
  BY DEF Supersede, Rivals
<1>3. Keeps(D, S, now)
  <2>. HIDE DEF R, S
  <2>. QED  BY <1>2, RetireKeeps
<1>4. \A d \in D \ R : d \in S
  BY DEF Supersede
<1>5. \A d \in S : d \notin R
  <2>1. \A d \in S : d \in D \ R \/ \E e \in D : d = Retired(e, stamp)
    BY DEF Supersede, Rivals
  <2>2. \A e \in D : ~Outstanding(Retired(e, stamp))
    BY RetiredFacts
  <2>. QED  BY <2>1, <2>2 DEF Rivals
<1>6. \A d \in S : Outstanding(d) /\ d.id = fire.id /\ d.trigger = fire.trigger
                      => d \in D /\ FireId(d) = FireId(fire)
  BY <1>3, <1>5 DEF Keeps, Rivals
<1>7. E \subseteq I /\ \A d \in I : Outstanding(d) => d \in E
  BY DEF RecordFireIn, PruneTerminal, Finished
<1>8. CASE \E d \in S : FireId(d) = FireId(fire)
  <2>1. I = S
    BY <1>8 DEF InsertFire
  <2>2. Keeps(D, E, now)
    BY <1>3, <1>7, <2>1, FS_Subset DEF Keeps, OneRowEach
  <2>. QED  BY <2>2
<1>9. CASE ~(\E d \in S : FireId(d) = FireId(fire))
  <2>1. I = S \cup {fire}
    BY <1>9 DEF InsertFire
  <2>2. \A d \in D : FireId(d) # FireId(fire)
    BY <1>4, <1>9 DEF Rivals
  <2>3. fire \in E /\ E \subseteq S \cup {fire}
    BY <1>1, <1>7, <2>1
  <2>4. E \subseteq Delivery /\ OneRowEach(E) /\ \A d \in E : FireOK(d, now)
    <3>1. S \subseteq Delivery /\ OneRowEach(S) /\ \A d \in S : FireOK(d, now)
      BY <1>3 DEF Keeps
    <3>2. OneRowEach(E)
      BY <1>9, <2>3, <3>1 DEF OneRowEach
    <3>. QED  BY <1>1, <2>3, <3>1, <3>2
  <2>5. \A d \in E \ {fire} : /\ d \in S
                              /\ Outstanding(d) \/ d.status = "failed" => d \in D
    BY <1>3, <2>3 DEF Keeps
  <2>6. \A d \in E \ {fire} : Outstanding(d) => ~(d.id = fire.id /\ d.trigger = fire.trigger)
    BY <1>6, <2>2, <2>5
  <2>7. ASSUME NEW d \in D, Outstanding(d), ~(d.id = fire.id /\ d.trigger = fire.trigger)
        PROVE  d \in E
    <3>1. d \notin R
      BY <2>7 DEF Rivals
    <3>. QED  BY <1>4, <1>7, <2>1, <2>7, <3>1
  <2>8. IsFiniteSet(E)
    <3>1. IsFiniteSet(S \cup {fire})
      BY <1>3, FS_AddElement DEF Keeps
    <3>. QED  BY <2>3, <3>1, FS_Subset
  <2>. HIDE DEF R, S, I
  <2>. QED  BY <1>1, <2>2, <2>3, <2>4, <2>8, <2>5, <2>6, <2>7 DEF Opens
<1>. QED  BY <1>8, <1>9

\* Rows that are deleted or stay keep their fires.
LEMMA SubsetKeeps ==
    ASSUME NEW D \in SUBSET Delivery, NEW E \in SUBSET D, NEW now \in Nat, NEW later \in Nat,
           now <= later, IsFiniteSet(D), OneRowEach(D), \A d \in D : FireOK(d, now)
    PROVE  Keeps(D, E, later)
<1>1. \A d \in E : FireOK(d, later)
  BY DEF FireOK, Delivery, Instant
<1>2. OneRowEach(E)
  BY DEF OneRowEach
<1>. QED  BY <1>1, <1>2, FS_Subset DEF Keeps

-----------------------------------------------------------------------------
(* What a step of the tables does to fires and failure counts.             *)

\* No failure is added, and no system disable.
CountKept ==
    \A id \in Ids : Exists(id)' =>
        \/ /\ Exists(id) /\ rows'[id].failures <= rows[id].failures
           /\ rows'[id].sys => rows[id].sys
        \/ rows'[id].failures = 0 /\ ~rows'[id].sys

\* Rows are kept and retired, or one fire opens.
FiresKept ==
    \/ Keeps(deliv, deliv', clock')
    \/ \E fire \in Delivery : Opens(deliv, deliv', fire, clock')

TableMoves ==
    /\ CountKept /\ FiresKept
    /\ \A s \in todo' : s.row.next <= tickNow'
    /\ clock <= clock' /\ clock' <= MaxTime

\* Neither rows nor their fires change.
LEMMA NothingMoves ==
    ASSUME TableTypeOK, DelivInv, UNCHANGED <<rows, deliv>>, clock' \in Nat, clock <= clock'
    PROVE  CountKept /\ FiresKept
<1>1. deliv \in SUBSET Delivery /\ clock \in Nat
  BY DEF TableTypeOK, Instant
<1>2. Keeps(deliv, deliv', clock')
  BY <1>1, SubsetKeeps DEF DelivInv
<1>3. \A id \in Ids : Exists(id) => rows[id].failures \in Nat
  BY RowFacts DEF TableTypeOK, Exists
<1>. QED  BY <1>2, <1>3 DEF CountKept, FiresKept, Exists

\* One row is written, with no more failures than it had.
LEMMA OneCounts ==
    ASSUME TableTypeOK, NEW id \in Ids, NEW row, rows' = [rows EXCEPT ![id] = row],
           \/ Exists(id) /\ row.failures <= rows[id].failures /\ (row.sys => rows[id].sys)
           \/ row.failures = 0 /\ ~row.sys
    PROVE  CountKept
<1>1. \A i \in Ids : rows'[i] = IF i = id THEN row ELSE rows[i]
  BY DEF TableTypeOK
<1>2. \A i \in Ids : Exists(i) => rows[i].failures \in Nat
  BY RowFacts DEF TableTypeOK, Exists
<1>. QED  BY <1>1, <1>2 DEF CountKept, Exists

\* The switches and the count of what the handlers store.
LEMMA StoredCounts ==
    ASSUME NEW old \in Row, NEW want \in Desired, NEW next
    PROVE  /\ Declared(old, want, next).failures <= old.failures
           /\ ~Declared(old, want, next).sys
           /\ SuspendedRow(old).failures <= old.failures
           /\ SuspendedRow(old).sys = old.sys
           /\ ResumedRow(old, next).failures = 0 /\ ~ResumedRow(old, next).sys
<1>. DEFINE fails == IF SlotMoves(old, want) THEN 0 ELSE old.failures
            slot == UpsertNext(old, want, next)
<1>1. fails <= old.failures /\ old.failures \in Nat
  BY RowFacts
<1>2. Declared(old, want, next) =
        [old EXCEPT !.label = want.label, !.enabled = want.enabled, !.spec = want.spec,
                    !.next = slot, !.failures = fails, !.sys = FALSE,
                    !.revision = old.revision + 1]
  BY DEF Declared, Row
<1>. HIDE DEF fails, slot
<1>3. Declared(old, want, next).failures = fails /\ ~Declared(old, want, next).sys
  BY <1>2 DEF Row
<1>4. /\ SuspendedRow(old).failures = old.failures /\ SuspendedRow(old).sys = old.sys
      /\ ResumedRow(old, next).failures = 0 /\ ~ResumedRow(old, next).sys
  BY DEF SuspendedRow, ResumedRow, Row
<1>. QED  BY <1>1, <1>3, <1>4

\* An upsert lands.
LEMMA UpsertMoves ==
    ASSUME TableInv, DelivInv, NEW c \in Clients, UpsertLand(c)
    PROVE  CountKept /\ FiresKept
<1>1. /\ call[c] \in Upserting /\ call[c].now \in Nat /\ call[c].desired \in Desired
      /\ clock \in Nat /\ clock' = clock /\ deliv \in SUBSET Delivery
  BY DEF TableInv, TableTypeOK, UpsertLand, Upserting, Resuming, Instant
<1>2. ASSUME NEW id \in Ids, UpsertCreate(c, id) PROVE CountKept /\ FiresKept
  <2>1. CountKept
    <3>. DEFINE u == call[c]
                row == [enabled |-> u.desired.enabled, suspended |-> FALSE, sys |-> FALSE,
                        spec |-> u.desired.spec, label |-> u.desired.label,
                        next |-> IF u.desired.enabled THEN u.next ELSE NULL,
                        failures |-> 0, revision |-> 1]
    <3>1. rows' = [rows EXCEPT ![id] = row]
      BY <1>2 DEF UpsertCreate
    <3>2. row.failures = 0 /\ ~row.sys
      OBVIOUS
    <3>. HIDE DEF row
    <3>. QED  BY <3>1, <3>2, OneCounts DEF TableInv
  <2>2. Keeps(deliv, deliv', clock')
    BY <1>1, <1>2, SubsetKeeps DEF UpsertCreate, DelivInv
  <2>. QED  BY <2>1, <2>2 DEF FiresKept
<1>3. ASSUME NEW id \in Ids, UpsertUpdate(c, id) PROVE CountKept /\ FiresKept
  <2>1. CASE UNCHANGED <<rows, deliv>>
    BY <1>1, <2>1, NothingMoves DEF TableInv
  <2>2. CASE /\ rows' = [rows EXCEPT ![id] = Declared(rows[id], call[c].desired, call[c].next)]
             /\ deliv' \in {deliv, ExpireOutstanding(deliv, id, call[c].now)}
    <3>1. Exists(id) /\ rows[id] \in Row
      BY <1>3 DEF UpsertUpdate, Holder, RowsOf, TableInv, TableTypeOK, Exists
    <3>2. CountKept
      BY <1>1, <2>2, <3>1, StoredCounts, OneCounts DEF TableInv
    <3>3. Keeps(deliv, deliv', clock')
      BY <1>1, <2>2, SubsetKeeps, ExpireKeeps DEF DelivInv
    <3>. QED  BY <3>2, <3>3 DEF FiresKept
  <2>. QED  BY <1>3, <2>1, <2>2 DEF UpsertUpdate
<1>. QED  BY <1>2, <1>3 DEF UpsertLand

\* A suspend, a resume and a delete.
LEMMA SwitchMoves ==
    ASSUME TableInv, DelivInv,
           \/ \E id \in Ids : Suspend(id) \/ Delete(id)
           \/ \E c \in Clients : ResumeWrite(c)
    PROVE  CountKept /\ FiresKept
<1>1. clock \in Nat /\ clock' = clock /\ deliv \in SUBSET Delivery
  BY DEF TableInv, TableTypeOK, Instant, Suspend, Delete, ResumeWrite
<1>2. ASSUME NEW id \in Ids, Suspend(id) PROVE CountKept /\ FiresKept
  <2>1. Exists(id) /\ rows[id] \in Row /\ rows' = [rows EXCEPT ![id] = SuspendedRow(rows[id])]
    BY <1>2 DEF Suspend, TableInv, TableTypeOK, Exists
  <2>2. SuspendedRow(rows[id]).failures <= rows[id].failures
        /\ SuspendedRow(rows[id]).sys = rows[id].sys
    BY <2>1, RowFacts DEF SuspendedRow, Row
  <2>3. CountKept
    BY <2>1, <2>2, OneCounts DEF TableInv
  <2>4. Keeps(deliv, deliv', clock')
    BY <1>1, <1>2, ExpireKeeps DEF Suspend, SuspendedDeliveries, DelivInv
  <2>. QED  BY <2>3, <2>4 DEF FiresKept
<1>3. ASSUME NEW id \in Ids, Delete(id) PROVE CountKept /\ FiresKept
  <2>1. CountKept
    <3>1. \A i \in Ids : rows'[i] = IF i = id THEN NULL ELSE rows[i]
      BY <1>3 DEF Delete, TableInv, TableTypeOK
    <3>2. \A i \in Ids : Exists(i) => rows[i].failures \in Nat
      BY RowFacts DEF TableInv, TableTypeOK, Exists
    <3>. QED  BY <3>1, <3>2 DEF CountKept, Exists
  <2>2. Keeps(deliv, deliv', clock')
    <3>1. deliv' \in SUBSET deliv /\ clock <= clock' /\ clock' \in Nat
      BY <1>1, <1>3 DEF Delete
    <3>2. IsFiniteSet(deliv) /\ OneRowEach(deliv) /\ \A d \in deliv : FireOK(d, clock)
      BY DEF DelivInv
    <3>. QED  BY <1>1, <3>1, <3>2, SubsetKeeps
  <2>. QED  BY <2>1, <2>2 DEF FiresKept
<1>4. ASSUME NEW c \in Clients, ResumeWrite(c) PROVE CountKept /\ FiresKept
  <2>. DEFINE id == call[c].id
  <2>1. call[c] \in Resuming /\ id \in Ids /\ Exists(id) /\ rows[id] \in Row
    BY <1>4 DEF ResumeWrite, ResumeHolds, TableInv, TableTypeOK, Upserting, Resuming, Exists
  <2>2. rows' = [rows EXCEPT ![id] = ResumedRow(rows[id], call[c].next)]
    BY <1>4 DEF ResumeWrite
  <2>3. ResumedRow(rows[id], call[c].next).failures = 0
        /\ ~ResumedRow(rows[id], call[c].next).sys
    BY <2>1 DEF ResumedRow, Row
  <2>4. CountKept
    BY <2>1, <2>2, <2>3, OneCounts DEF TableInv
  <2>5. Keeps(deliv, deliv', clock')
    BY <1>1, <1>4, SubsetKeeps DEF ResumeWrite, DelivInv
  <2>. QED  BY <2>4, <2>5 DEF FiresKept
<1>. QED  BY <1>2, <1>3, <1>4

\* A fire by hand, and one of the tick.
LEMMA FireMoves ==
    ASSUME TableInv, DelivInv,
           \/ \E id \in Ids : RunNow(id)
           \/ \E s \in todo : FireModule(s)
    PROVE  CountKept /\ FiresKept
<1>1. /\ clock \in Nat /\ clock' = clock /\ deliv \in SUBSET Delivery
      /\ tickNow \in Nat /\ tickNow <= clock
  BY DEF TableInv, TableTypeOK, TodoInv, Instant, RunNow, FireModule
<1>2. ASSUME NEW id \in Ids, NEW trigger \in Trigger, NEW slot \in Nat, slot <= clock,
             NEW stamp \in Nat,
             deliv' = RecordFireIn(deliv, NewFire(id, trigger, slot, stamp), stamp)
      PROVE  FiresKept
  <2>1. NewFire(id, trigger, slot, stamp) \in Delivery
    BY <1>2, NewFireFacts
  <2>. QED  BY <1>1, <1>2, <2>1, RecordOpens DEF DelivInv, FiresKept
<1>3. ASSUME NEW id \in Ids, RunNow(id) PROVE CountKept /\ FiresKept
  <2>1. CountKept
    BY <1>3, RowFacts DEF RunNow, CountKept, TableInv, TableTypeOK, Exists
  <2>. QED  BY <1>1, <1>2, <1>3, <2>1 DEF RunNow, Trigger
<1>4. ASSUME NEW s \in todo, FireModule(s) PROVE CountKept /\ FiresKept
  <2>1. CASE UNCHANGED <<rows, deliv>>
    BY <1>1, <2>1, NothingMoves DEF TableInv
  <2>2. CASE /\ AdvanceHolds(s)
             /\ rows' = [rows EXCEPT ![s.id].next = NextFire(s.row.spec, tickNow)]
             /\ deliv' \in {deliv, RecordFireIn(deliv, NewFire(s.id, "tick", s.row.next, tickNow),
                                                tickNow)}
    <3>1. s.id \in Ids /\ s.row.next \in Nat /\ s.row.next <= clock /\ Exists(s.id)
          /\ rows[s.id] \in Row
      BY <1>1, <2>2 DEF TableInv, TableTypeOK, TodoInv, DelivInv, Snapshot, AdvanceHolds, Exists
    <3>2. CountKept
      <4>. DEFINE row == [rows[s.id] EXCEPT !.next = NextFire(s.row.spec, tickNow)]
      <4>1. rows' = [rows EXCEPT ![s.id] = row]
        BY <2>2
      <4>2. row.failures <= rows[s.id].failures /\ (row.sys => rows[s.id].sys)
        BY <3>1, RowFacts DEF Row
      <4>. HIDE DEF row
      <4>. QED  BY <3>1, <4>1, <4>2, OneCounts DEF TableInv
    <3>3. FiresKept
      <4>1. CASE deliv' = deliv
        <5>1. deliv' \in SUBSET deliv /\ clock <= clock' /\ clock' \in Nat
          BY <1>1, <4>1
        <5>2. IsFiniteSet(deliv) /\ OneRowEach(deliv) /\ \A d \in deliv : FireOK(d, clock)
          BY DEF DelivInv
        <5>. QED  BY <1>1, <5>1, <5>2, SubsetKeeps DEF FiresKept
      <4>2. CASE deliv' = RecordFireIn(deliv, NewFire(s.id, "tick", s.row.next, tickNow), tickNow)
        BY <1>1, <1>2, <3>1, <4>2 DEF Trigger
      <4>. QED  BY <2>2, <4>1, <4>2
    <3>. QED  BY <3>2, <3>3
  <2>. QED  BY <1>4, <2>1, <2>2 DEF FireModule
<1>. QED  BY <1>3, <1>4

\* The rows of a tick in progress are due at its instant.
LEMMA TodoStaysDue ==
    ASSUME TableInv, DelivInv, TableStep
    PROVE  \A s \in todo' : s.row.next <= tickNow'
<1>1. CASE TickList
  <2>1. tickNow' = clock \/ todo' = {}
    BY <1>1 DEF TickList
  <2>2. \A s \in todo' : s.row.next <= clock
    BY <1>1 DEF TickList
  <2>. QED  BY <2>1, <2>2
<1>2. CASE \E s \in todo : FireModule(s)
  <2>1. todo' \subseteq todo /\ (todo' = {} \/ tickNow' = tickNow)
    BY <1>2 DEF FireModule, Done
  <2>. QED  BY <2>1 DEF DelivInv
<1>3. CASE UNCHANGED <<todo, tickNow>>
  BY <1>3 DEF DelivInv
<1>. QED  BY <1>1, <1>2, <1>3
        DEF TableStep, AdvanceClock, UpsertCall, UpsertLand, UpsertDrop, ResumeCall, ResumeWrite,
            ResumeMiss, Delete, Suspend, RunNow

\* Every step of the tables.
LEMMA TableStepMoves ==
    ASSUME TableInv, DelivInv, TableStep
    PROVE  TableMoves
<1>1. clock \in Nat /\ MaxTime \in Nat /\ clock <= MaxTime
  BY ModuleAssumption DEF TableInv, TableTypeOK, Instant, DelivInv
<1>2. clock' \in Nat /\ clock <= clock' /\ clock' <= MaxTime
  <2>1. AdvanceClock \/ clock' = clock
    BY DEF TableStep, UpsertCall, UpsertLand, UpsertDrop, ResumeCall, ResumeWrite, ResumeMiss,
           Delete, Suspend, RunNow, TickList, FireModule
  <2>. QED  BY <1>1, <2>1 DEF AdvanceClock
<1>3. CASE UNCHANGED <<rows, deliv>>
  BY <1>2, <1>3, NothingMoves, TodoStaysDue DEF TableInv, TableMoves
<1>4. CASE \E c \in Clients : UpsertLand(c)
  BY <1>2, <1>4, UpsertMoves, TodoStaysDue DEF TableMoves
<1>5. CASE (\E id \in Ids : Suspend(id) \/ Delete(id)) \/ (\E c \in Clients : ResumeWrite(c))
  BY <1>2, <1>5, SwitchMoves, TodoStaysDue DEF TableMoves
<1>6. CASE (\E id \in Ids : RunNow(id)) \/ (\E s \in todo : FireModule(s))
  BY <1>2, <1>6, FireMoves, TodoStaysDue DEF TableMoves
<1>7. \/ UNCHANGED <<rows, deliv>>
      \/ \E c \in Clients : UpsertLand(c)
      \/ (\E id \in Ids : Suspend(id) \/ Delete(id)) \/ (\E c \in Clients : ResumeWrite(c))
      \/ (\E id \in Ids : RunNow(id)) \/ (\E s \in todo : FireModule(s))
  BY DEF TableStep, AdvanceClock, UpsertCall, UpsertDrop, ResumeCall, ResumeMiss, TickList
<1>. QED  BY <1>3, <1>4, <1>5, <1>6, <1>7

-----------------------------------------------------------------------------
(* The join set and its caches.                                            *)

\* A non-empty set of positions has a last one.
LEMMA LastPosition ==
    ASSUME NEW n \in Nat, NEW K \in SUBSET (1..n), K # {}
    PROVE  \E m \in K : \A k \in K : k <= m
<1>. DEFINE U == {u \in Nat : \A k \in K : k <= u}
<1>1. n \in U /\ U \in SUBSET Nat
  OBVIOUS
<1>2. Min(U) \in U /\ \A u \in U : Min(U) <= u
  BY <1>1, EarliestInstant
<1>3. Min(U) \in K
  <2>1. SUFFICES ASSUME Min(U) \notin K PROVE FALSE
    OBVIOUS
  <2>2. PICK x \in K : TRUE
    OBVIOUS
  <2>3. Min(U) \in Nat /\ x \in Nat /\ x >= 1 /\ x <= Min(U)
    BY <1>2, <2>2
  <2>4. Min(U) - 1 \in U
    <3>1. \A k \in K : k <= Min(U) /\ k # Min(U) /\ k \in Nat
      BY <1>2, <2>1
    <3>. HIDE DEF U
    <3>2. \A k \in K : k <= Min(U) - 1
      BY <2>3, <3>1
    <3>. QED  BY <2>3, <3>2 DEF U
  <2>. HIDE DEF U
  <2>. QED  BY <1>2, <2>3, <2>4
<1>. QED  BY <1>2, <1>3

\* The attempts that start with the rows D, and those rows of an owner.
Begun(D) == {[d |-> d, outcome |-> NULL] : d \in D}
OwnedBy(D, o) == {d \in D : OwnerOf[d.id] = o}

LEMMA BegunFacts ==
    ASSUME NEW D
    PROVE  /\ \A d \in D : [d |-> d, outcome |-> NULL] \in Begun(D)
           /\ \A t \in Begun(D) : t.d \in D /\ t.outcome = NULL /\ t = [d |-> t.d, outcome |-> NULL]
  BY DEF Begun

\* There is one for each row.
LEMMA BegunCount ==
    ASSUME NEW D, IsFiniteSet(D)
    PROVE  IsFiniteSet(Begun(D)) /\ Cardinality(Begun(D)) = Cardinality(D)
<1>. DEFINE f == [d \in D |-> [d |-> d, outcome |-> NULL]]
<1>1. f \in [D -> Begun(D)]
  BY BegunFacts
<1>2. \A c, d \in D : f[c] = f[d] => c = d
  OBVIOUS
<1>3. \A t \in Begun(D) : t.d \in D /\ f[t.d] = t
  BY BegunFacts
<1>. HIDE DEF f
<1>4. f \in Injection(D, Begun(D)) /\ f \in Surjection(D, Begun(D))
  BY <1>1, <1>2, <1>3 DEF Injection, IsInjective, Surjection
<1>5. ExistsBijection(D, Begun(D))
  BY <1>4 DEF ExistsBijection, Bijection
<1>. QED  BY <1>5, FS_Bijection

\* What the fields of the pump may become.
LEMMA PumpTyped ==
    ASSUME NEW p \in Pump, NEW A \in SUBSET Attempt, NEW B \in SUBSET Ids,
           NEW C \in [Owners -> Nat]
    PROVE  [p EXCEPT !.tasks = A, !.busy = B, !.load = C] \in Pump
<1>. DEFINE R == [Ids -> [until : Instant, count : Nat]]
            S == [Owners -> Instant]
<1>1. ASSUME NEW T, NEW U, NEW V, NEW X, NEW Y, NEW Z,
             p \in [tasks : T, busy : U, load : V, skip : X, retry : Y, swept : Z],
             A \in T, B \in U, C \in V
      PROVE  [p EXCEPT !.tasks = A, !.busy = B, !.load = C]
                    \in [tasks : T, busy : U, load : V, skip : X, retry : Y, swept : Z]
  BY <1>1
<1>2. p \in [tasks : SUBSET Attempt, busy : SUBSET Ids, load : [Owners -> Nat],
             skip : S, retry : R, swept : Instant]
  BY Zenon DEF Pump
<1>. QED  BY <1>1, <1>2, Zenon DEF Pump

\* And the fields the attempts do not count in.
LEMMA PumpCached ==
    ASSUME NEW p \in Pump, NEW A \in SUBSET Attempt, NEW S \in [Owners -> Instant],
           NEW R \in [Ids -> [until : Instant, count : Nat]], NEW W \in Instant
    PROVE  [p EXCEPT !.tasks = A, !.skip = S, !.retry = R, !.swept = W] \in Pump
<1>1. ASSUME NEW T, NEW U, NEW V, NEW X, NEW Y, NEW Z,
             p \in [tasks : T, busy : U, load : V, skip : X, retry : Y, swept : Z],
             A \in T, S \in X, R \in Y, W \in Z
      PROVE  [p EXCEPT !.tasks = A, !.skip = S, !.retry = R, !.swept = W]
                    \in [tasks : T, busy : U, load : V, skip : X, retry : Y, swept : Z]
  BY <1>1
<1>2. p \in [tasks : SUBSET Attempt, busy : SUBSET Ids, load : [Owners -> Nat],
             skip : [Owners -> Instant], retry : [Ids -> [until : Instant, count : Nat]],
             swept : Instant]
  BY Zenon DEF Pump
<1>. QED  BY <1>1, <1>2, Zenon DEF Pump

\* The fields of the pump.
LEMMA PumpFacts ==
    ASSUME NEW p \in Pump
    PROVE  /\ p.tasks \subseteq Attempt /\ p.busy \subseteq Ids /\ p.load \in [Owners -> Nat]
           /\ p.skip \in [Owners -> Instant] /\ p.swept \in Instant
           /\ p.retry \in [Ids -> [until : Instant, count : Nat]]
  BY DEF Pump

\* The rows D are started, within the caps and none beside an attempt of its schedule.
LEMMA BeginKeeps ==
    ASSUME NEW p, NEW now, TasksOK(p, now), NEW D \in SUBSET Delivery, IsFiniteSet(D),
           \A d \in D : Outstanding(d) /\ FireOK(d, now) /\ d.id \notin p.busy,
           \A c, d \in D : c.id = d.id => c = d,
           NEW q, q = BeginAttempts(p, D),
           Cardinality(q.tasks) <= GlobalCap, \A o \in Owners : q.load[o] <= PerOwner
    PROVE  TasksOK(q, now)
<1>1. /\ q.tasks = p.tasks \cup Begun(D) /\ q.busy = p.busy \cup {d.id : d \in D}
      /\ q.load = [o \in Owners |-> p.load[o] + Cardinality(OwnedBy(D, o))]
  BY DEF BeginAttempts, TasksOK, Pump, Begun, OwnedBy
<1>2. /\ p \in Pump /\ IsFiniteSet(p.tasks) /\ p.busy = {t.d.id : t \in p.tasks}
      /\ \A t \in p.tasks : Outstanding(t.d) /\ FireOK(t.d, now)
      /\ \A t, u \in p.tasks : t.d.id = u.d.id => t = u
      /\ \A o \in Owners : p.load[o] = Cardinality(InFlight(p.tasks, o))
  BY DEF TasksOK
<1>3. \A t \in Begun(D) : t.d \in D /\ t = [d |-> t.d, outcome |-> NULL]
  BY BegunFacts
<1>4. \A t \in p.tasks : t.d.id \in p.busy
  BY <1>2
<1>5. \A o \in Owners : /\ IsFiniteSet(OwnedBy(D, o)) /\ Cardinality(OwnedBy(D, o)) \in Nat
                        /\ IsFiniteSet(Begun(OwnedBy(D, o)))
                        /\ Cardinality(Begun(OwnedBy(D, o))) = Cardinality(OwnedBy(D, o))
  <2>1. \A o \in Owners : OwnedBy(D, o) \in SUBSET D
    BY DEF OwnedBy
  <2>2. \A o \in Owners : IsFiniteSet(OwnedBy(D, o))
    BY <2>1, FS_Subset
  <2>. QED  BY <2>2, BegunCount, FS_CardinalityType
<1>6. q \in Pump
  <2>1. Begun(D) \subseteq Attempt
    BY <1>3 DEF Attempt
  <2>2. q.tasks \subseteq Attempt
    BY <1>1, <1>2, <2>1, PumpFacts
  <2>3. q.busy \subseteq Ids
    <3>1. p.busy \subseteq Ids /\ \A d \in D : d.id \in Ids
      BY <1>2, PumpFacts DEF Delivery
    <3>. QED  BY <1>1, <3>1
  <2>4. q.load \in [Owners -> Nat]
    <3>1. \A o \in Owners : p.load[o] \in Nat
      BY <1>2, PumpFacts
    <3>2. \A o \in Owners : p.load[o] + Cardinality(OwnedBy(D, o)) \in Nat
      BY <1>5, <3>1
    <3>. QED  BY <1>1, <3>2
  <2>5. q = [p EXCEPT !.tasks = q.tasks, !.busy = q.busy, !.load = q.load]
    BY <1>1, <1>2 DEF BeginAttempts, Pump, Begun, OwnedBy
  <2>6. q.tasks \in SUBSET Attempt /\ q.busy \in SUBSET Ids
    BY <2>2, <2>3
  <2>7. [p EXCEPT !.tasks = q.tasks, !.busy = q.busy, !.load = q.load] \in Pump
    BY <1>2, <2>4, <2>6, PumpTyped, Zenon
  <2>. QED  BY <2>5, <2>7, Zenon
<1>7. IsFiniteSet(q.tasks)
  <2>1. IsFiniteSet(Begun(D))
    BY BegunCount
  <2>2. q.tasks = p.tasks \cup Begun(D)
    BY <1>1
  <2>3. IsFiniteSet(p.tasks \cup Begun(D))
    BY <1>2, <2>1, FS_Union
  <2>. QED  BY <2>2, <2>3
<1>8. \A t \in q.tasks : Outstanding(t.d) /\ FireOK(t.d, now)
  BY <1>1, <1>2, <1>3
<1>9. \A t, u \in q.tasks : t.d.id = u.d.id => t = u
  <2>1. SUFFICES ASSUME NEW t \in q.tasks, NEW u \in q.tasks, t.d.id = u.d.id PROVE t = u
    OBVIOUS
  <2>2. CASE t \in p.tasks /\ u \in p.tasks
    BY <1>2, <2>1, <2>2
  <2>3. CASE t \in Begun(D) /\ u \in Begun(D)
    BY <1>3, <2>1, <2>3
  <2>. QED  BY <1>1, <1>3, <1>4, <2>1, <2>2, <2>3
<1>10. q.busy = {t.d.id : t \in q.tasks}
  <2>1. \A x \in q.busy : \E t \in q.tasks : t.d.id = x
    <3>1. SUFFICES ASSUME NEW x \in q.busy PROVE \E t \in q.tasks : t.d.id = x
      OBVIOUS
    <3>2. CASE x \in p.busy
      <4>1. PICK t \in p.tasks : t.d.id = x
        BY <1>2, <3>2
      <4>. QED  BY <1>1, <4>1
    <3>3. ASSUME NEW d \in D, x = d.id PROVE \E t \in q.tasks : t.d.id = x
      <4>1. [d |-> d, outcome |-> NULL] \in q.tasks
        BY <1>1, BegunFacts
      <4>. QED  BY <3>3, <4>1
    <3>. QED  BY <1>1, <3>2, <3>3
  <2>2. \A t \in q.tasks : t.d.id \in q.busy
    BY <1>1, <1>3, <1>4
  <2>. QED  BY <2>1, <2>2
<1>11. ASSUME NEW o \in Owners PROVE q.load[o] = Cardinality(InFlight(q.tasks, o))
  <2>1. InFlight(q.tasks, o) = InFlight(p.tasks, o) \cup Begun(OwnedBy(D, o))
    <3>1. \A t \in Begun(D) : OwnerOf[t.d.id] = o => t \in Begun(OwnedBy(D, o))
      <4>1. \A d \in D : OwnerOf[d.id] = o => d \in OwnedBy(D, o)
        BY DEF OwnedBy
      <4>. QED  BY <1>3, <4>1, BegunFacts
    <3>2. \A t \in Begun(OwnedBy(D, o)) : t \in Begun(D) /\ OwnerOf[t.d.id] = o
      <4>1. \A d \in OwnedBy(D, o) : d \in D /\ OwnerOf[d.id] = o
        BY DEF OwnedBy
      <4>. QED  BY <4>1, BegunFacts
    <3>. QED  BY <1>1, <3>1, <3>2 DEF InFlight
  <2>2. InFlight(p.tasks, o) \cap Begun(OwnedBy(D, o)) = {}
    <3>1. \A t \in Begun(OwnedBy(D, o)) : t.d.id \notin p.busy
      BY BegunFacts DEF OwnedBy
    <3>. QED  BY <1>4, <3>1 DEF InFlight
  <2>3. IsFiniteSet(InFlight(p.tasks, o))
    BY <1>2, FS_Subset DEF InFlight
  <2>4. Cardinality(InFlight(q.tasks, o)) =
            Cardinality(InFlight(p.tasks, o)) + Cardinality(OwnedBy(D, o)) - Cardinality({})
    BY <1>5, <2>1, <2>2, <2>3, FS_Union
  <2>5. Cardinality(InFlight(p.tasks, o)) \in Nat /\ Cardinality(OwnedBy(D, o)) \in Nat
    BY <1>5, <2>3, FS_CardinalityType
  <2>6. Cardinality(InFlight(q.tasks, o)) =
            Cardinality(InFlight(p.tasks, o)) + Cardinality(OwnedBy(D, o))
    BY <2>4, <2>5, FS_EmptySet
  <2>7. q.load[o] = p.load[o] + Cardinality(OwnedBy(D, o))
    BY <1>1
  <2>. QED  BY <1>2, <2>6, <2>7
<1>. QED  BY <1>6, <1>7, <1>8, <1>9, <1>10, <1>11 DEF TasksOK

\* The caches change, and time passes.
LEMMA CachesKeep ==
    ASSUME NEW p, NEW now \in Nat, TasksOK(p, now), NEW q \in Pump, NEW later \in Nat, now <= later,
           q.tasks = p.tasks, q.busy = p.busy, q.load = p.load
    PROVE  TasksOK(q, later)
<1>1. \A t \in p.tasks : t.d.slot \in Nat
  BY PumpFacts DEF TasksOK, Attempt, Delivery, Instant
<1>2. \A t \in p.tasks : FireOK(t.d, now) => FireOK(t.d, later)
  BY <1>1 DEF FireOK
<1>. QED  BY <1>2 DEF TasksOK

\* The rows of a query, in the order the loop goes through them.
LEMMA OrderFacts ==
    ASSUME NEW D, IsFiniteSet(D), NEW s \in SetToSeqs(D)
    PROVE  \E n \in Nat : /\ s \in [1..n -> D] /\ DOMAIN s = 1..n
                          /\ \A i, j \in 1..n : s[i] = s[j] => i = j
<1>1. Cardinality(D) \in Nat
  BY FS_CardinalityType
<1>. QED  BY <1>1 DEF SetToSeqs

\* The loop starts rows of its query, each with room beside those before it.
LEMMA LoopKeeps ==
    ASSUME NEW p, NEW now \in Nat, TasksOK(p, now), NEW D \in SUBSET Delivery, IsFiniteSet(D),
           \A d \in D : Outstanding(d) /\ FireOK(d, now),
           NEW s \in SetToSeqs(D), NEW K \in SUBSET Window(s), Starts(p, s, K, now)
    PROVE  /\ TasksOK(BeginAttempts(p, Chosen(s, K)), now)
           /\ BeginAttempts(p, Chosen(s, K)).tasks = p.tasks \cup Begun(Chosen(s, K))
           /\ \A d \in Chosen(s, K) : d \in D /\ d.id \notin p.busy
<1>. DEFINE C == Chosen(s, K)
            before(k) == Chosen(s, {j \in K : j < k})
<1>1. PICK n \in Nat : s \in [1..n -> D] /\ DOMAIN s = 1..n
  BY OrderFacts
<1>2. K \in SUBSET (1..n)
  BY <1>1 DEF Window
<1>3. \A k \in K : s[k] \in D /\ s[k] \in Delivery /\ OwnerOf[s[k].id] \in Owners
  BY <1>1, <1>2, ModuleAssumption DEF Delivery
<1>4. \A k \in K : HasRoom(BeginAttempts(p, before(k)), s[k], now)
  BY DEF Starts
<1>5. \A k \in K, j \in K : j < k => s[j] \in before(k)
  BY DEF Chosen
<1>6. C \subseteq D /\ IsFiniteSet(C) /\ \A d \in C : \E k \in K : d = s[k]
  <2>1. C \subseteq D /\ \A d \in C : \E k \in K : d = s[k]
    BY <1>3 DEF Chosen
  <2>. QED  BY <2>1, FS_Subset
<1>7. \A k \in K : before(k) \subseteq C /\ IsFiniteSet(before(k))
  <2>1. \A k \in K : before(k) \subseteq C
    BY DEF Chosen
  <2>. QED  BY <1>6, <2>1, FS_Subset
<1>8. p \in Pump
  BY DEF TasksOK
<1>9. ASSUME NEW B, B \subseteq D
      PROVE  /\ BeginAttempts(p, B).tasks = p.tasks \cup Begun(B)
             /\ BeginAttempts(p, B).busy = p.busy \cup {d.id : d \in B}
             /\ \A o \in Owners : BeginAttempts(p, B).load[o] = p.load[o] + Cardinality(OwnedBy(B, o))
  BY <1>8 DEF BeginAttempts, Pump, Begun, OwnedBy
<1>. HIDE DEF before
<1>10. ASSUME NEW k \in K
       PROVE  /\ Cardinality(p.tasks \cup Begun(before(k))) < GlobalCap
              /\ p.load[OwnerOf[s[k].id]] + Cardinality(OwnedBy(before(k), OwnerOf[s[k].id])) < PerOwner
              /\ s[k].id \notin p.busy /\ \A d \in before(k) : d.id # s[k].id
  <2>1. before(k) \subseteq D
    BY <1>6, <1>7
  <2>. DEFINE q == BeginAttempts(p, before(k))
  <2>2. /\ Cardinality(q.tasks) < GlobalCap /\ q.load[OwnerOf[s[k].id]] < PerOwner
        /\ s[k].id \notin q.busy
    BY <1>4 DEF HasRoom
  <2>3. /\ q.tasks = p.tasks \cup Begun(before(k)) /\ q.busy = p.busy \cup {d.id : d \in before(k)}
        /\ q.load[OwnerOf[s[k].id]] =
              p.load[OwnerOf[s[k].id]] + Cardinality(OwnedBy(before(k), OwnerOf[s[k].id]))
    BY <1>3, <1>9, <2>1
  <2>. HIDE DEF q
  <2>. QED  BY <2>2, <2>3
<1>. HIDE DEF C
<1>11. \A d \in C : d \in Delivery /\ Outstanding(d) /\ FireOK(d, now) /\ d.id \notin p.busy
  BY <1>6, <1>10
<1>12. \A c, d \in C : c.id = d.id => c = d
  <2>1. SUFFICES ASSUME NEW j \in K, NEW k \in K, s[j].id = s[k].id PROVE s[j] = s[k]
    BY <1>6
  <2>2. j = k \/ j < k \/ k < j
    BY <1>2
  <2>3. ~(j < k)
    BY <1>5, <1>10, <2>1
  <2>4. ~(k < j)
    BY <1>5, <1>10, <2>1
  <2>. QED  BY <2>2, <2>3, <2>4
<1>. DEFINE q == BeginAttempts(p, C)
<1>13. /\ q.tasks = p.tasks \cup Begun(C)
       /\ \A o \in Owners : q.load[o] = p.load[o] + Cardinality(OwnedBy(C, o))
  BY <1>6, <1>9
<1>. HIDE DEF q
<1>14. Cardinality(q.tasks) <= GlobalCap
  <2>1. CASE K = {}
    <3>1. q.tasks = p.tasks
      <4>1. C = {} /\ \A t \in Begun(C) : t.d \in C
        BY <1>6, <2>1, BegunFacts
      <4>. QED  BY <1>13, <4>1
    <3>. QED  BY <3>1 DEF TasksOK
  <2>2. CASE K # {}
    <3>1. PICK m \in K : \A k \in K : k <= m
      BY <1>2, <2>2, LastPosition
    <3>. DEFINE B == p.tasks \cup Begun(before(m))
                t == [d |-> s[m], outcome |-> NULL]
    <3>2. q.tasks \subseteq B \cup {t}
      <4>1. \A d \in C : d \in before(m) \/ d = s[m]
        <5>1. ASSUME NEW k \in K PROVE s[k] \in before(m) \/ s[k] = s[m]
          BY <1>2, <1>5, <3>1
        <5>. QED  BY <1>6, <5>1
      <4>2. \A u \in Begun(C) : u \in Begun(before(m)) \/ u = t
        BY <4>1, BegunFacts
      <4>. QED  BY <1>13, <4>2
    <3>3. IsFiniteSet(B) /\ Cardinality(B) < GlobalCap
      <4>1. IsFiniteSet(Begun(before(m))) /\ IsFiniteSet(p.tasks)
        BY <1>7, BegunCount DEF TasksOK
      <4>. QED  BY <1>10, <4>1, FS_Union
    <3>. HIDE DEF B, t
    <3>4. IsFiniteSet(B \cup {t}) /\ Cardinality(B \cup {t}) <= Cardinality(B) + 1
      BY <3>3, FS_AddElement, FS_CardinalityType
    <3>5. Cardinality(q.tasks) <= Cardinality(B \cup {t}) /\ Cardinality(q.tasks) \in Nat
      BY <3>2, <3>4, FS_Subset, FS_CardinalityType
    <3>. QED  BY <3>3, <3>4, <3>5, FS_CardinalityType, PumpAssumption
  <2>. QED  BY <2>1, <2>2
<1>15. ASSUME NEW o \in Owners PROVE q.load[o] <= PerOwner
  <2>. DEFINE L == {k \in K : OwnerOf[s[k].id] = o}
  <2>1. p.load[o] \in Nat /\ p.load[o] <= PerOwner
    BY <1>8, PumpFacts DEF TasksOK
  <2>2. CASE L = {}
    <3>1. OwnedBy(C, o) = {}
      BY <1>6, <2>2 DEF OwnedBy
    <3>2. Cardinality(OwnedBy(C, o)) = 0
      BY <3>1, FS_EmptySet
    <3>3. q.load[o] = p.load[o] + Cardinality(OwnedBy(C, o))
      BY <1>13
    <3>. QED  BY <2>1, <3>2, <3>3
  <2>3. CASE L # {}
    <3>1. PICK m \in L : \A k \in L : k <= m
      BY <1>2, <2>3, LastPosition
    <3>. DEFINE B == OwnedBy(before(m), o)
                x == s[m]
    <3>2. OwnedBy(C, o) \subseteq B \cup {x}
      <4>1. ASSUME NEW d \in C, OwnerOf[d.id] = o PROVE d \in B \/ d = s[m]
        <5>1. PICK k \in L : d = s[k]
          BY <1>6, <4>1
        <5>2. k = m \/ k < m
          BY <1>2, <3>1
        <5>3. k < m => d \in before(m)
          BY <1>5, <5>1
        <5>. QED  BY <4>1, <5>1, <5>2, <5>3 DEF OwnedBy
      <4>. QED  BY <4>1 DEF OwnedBy
    <3>3. IsFiniteSet(B)
      BY <1>7, FS_Subset DEF OwnedBy
    <3>4. p.load[o] + Cardinality(B) < PerOwner
      BY <1>10
    <3>. HIDE DEF B, x
    <3>5. IsFiniteSet(B \cup {x}) /\ Cardinality(B \cup {x}) <= Cardinality(B) + 1
      <4>1. Cardinality(B) \in Nat
        BY <3>3, FS_CardinalityType
      <4>2. /\ IsFiniteSet(B \cup {x})
            /\ Cardinality(B \cup {x}) =
                  IF x \in B THEN Cardinality(B) ELSE Cardinality(B) + 1
        BY <3>3, FS_AddElement, Zenon
      <4>. QED  BY <4>1, <4>2
    <3>6. /\ Cardinality(OwnedBy(C, o)) <= Cardinality(B \cup {x})
          /\ Cardinality(OwnedBy(C, o)) \in Nat
      BY <3>2, <3>5, FS_Subset, FS_CardinalityType
    <3>. QED  BY <1>13, <2>1, <3>3, <3>4, <3>5, <3>6, FS_CardinalityType, PumpAssumption
  <2>. QED  BY <2>2, <2>3
<1>16. C \in SUBSET Delivery
  BY <1>6
<1>17. TasksOK(q, now)
  BY <1>6, <1>11, <1>12, <1>14, <1>15, <1>16, BeginKeeps DEF q, C
<1>. QED  BY <1>6, <1>11, <1>13, <1>17 DEF q, C

\* maybe_sweep, prune_stale_caches and the rows of the query.
LEMMA FetchKeeps ==
    ASSUME TableInv, DelivInv, TasksInv, FetchAndSpawn
    PROVE  /\ Keeps(deliv, deliv', clock) /\ TasksInv'
           /\ \E C \in SUBSET deliv' :
                 /\ pump'.tasks = pump.tasks \cup Begun(C)
                 /\ \A d \in C : Outstanding(d) /\ d.id \notin pump.busy
<1>. DEFINE swept == IF SweepDue THEN clock ELSE pump.swept
            p == PruneStaleCaches([pump EXCEPT !.swept = swept], clock)
            due == DueDeliveries(p, deliv', clock)
<1>1. clock \in Nat /\ deliv \in SUBSET Delivery /\ clock' = clock /\ faults' = faults
  BY DEF TableInv, TableTypeOK, Instant, FetchAndSpawn
<1>2. pump \in Pump /\ faults \in Nat /\ TasksOK(pump, clock)
  BY DEF TasksInv, TasksOK
<1>3. Keeps(deliv, deliv', clock)
  BY <1>1, SubsetKeeps, ExpireKeeps DEF FetchAndSpawn, DelivInv
<1>4. /\ p.tasks = pump.tasks /\ p.busy = pump.busy /\ p.load = pump.load /\ p \in Pump
  <2>. DEFINE skip == [o \in Owners |-> IF pump.skip[o] > clock THEN pump.skip[o] ELSE 0]
              retry == [id \in Ids |-> IF pump.retry[id].until > clock THEN pump.retry[id]
                                       ELSE NoRetry]
  <2>1. swept \in Instant
    BY <1>1, <1>2, PumpFacts DEF Instant
  <2>2. skip \in [Owners -> Instant]
    BY <1>2, PumpFacts DEF Instant
  <2>3. retry \in [Ids -> [until : Instant, count : Nat]]
    BY <1>2, PumpFacts DEF Instant, NoRetry
  <2>4. pump.tasks \in SUBSET Attempt
    BY <1>2, PumpFacts
  <2>5. p = [pump EXCEPT !.tasks = pump.tasks, !.skip = skip, !.retry = retry, !.swept = swept]
    <3>. HIDE DEF swept
    <3>. QED  BY <1>2 DEF PruneStaleCaches, Pump
  <2>6. /\ p.tasks = pump.tasks /\ p.busy = pump.busy /\ p.load = pump.load
    <3>. HIDE DEF swept
    <3>. QED  BY <1>2 DEF PruneStaleCaches, Pump
  <2>. HIDE DEF p, skip, retry, swept
  <2>7. [pump EXCEPT !.tasks = pump.tasks, !.skip = skip, !.retry = retry, !.swept = swept] \in Pump
    BY <1>2, <2>1, <2>2, <2>3, <2>4, PumpCached, Zenon
  <2>. QED  BY <2>5, <2>6, <2>7, Zenon
<1>5. \/ pump' = p
      \/ \E s \in SetToSeqs(due) : \E K \in SUBSET Window(s) :
            Starts(p, s, K, clock) /\ pump' = BeginAttempts(p, Chosen(s, K))
  BY DEF FetchAndSpawn
<1>. HIDE DEF p
<1>6. TasksOK(p, clock)
  BY <1>1, <1>2, <1>4, CachesKeep
<1>7. /\ due \in SUBSET Delivery /\ IsFiniteSet(due) /\ due \subseteq deliv'
      /\ \A d \in due : Outstanding(d) /\ FireOK(d, clock)
  <2>1. due \subseteq deliv' /\ \A d \in due : Outstanding(d)
    BY DEF DueDeliveries
  <2>. HIDE DEF due
  <2>2. IsFiniteSet(due)
    BY <1>3, <2>1, FS_Subset DEF Keeps
  <2>. QED  BY <1>3, <2>1, <2>2 DEF Keeps
<1>. HIDE DEF due
<1>8. TasksOK(pump', clock)
  BY <1>1, <1>5, <1>6, <1>7, LoopKeeps
<1>9. \E C \in SUBSET deliv' : /\ pump'.tasks = pump.tasks \cup Begun(C)
                               /\ \A d \in C : Outstanding(d) /\ d.id \notin pump.busy
  <2>1. CASE pump' = p
    <3>1. \A t \in Begun({}) : FALSE
      BY BegunFacts
    <3>2. pump'.tasks = pump.tasks \cup Begun({})
      BY <1>4, <2>1, <3>1
    <3>. QED  BY <3>2
  <2>2. ASSUME NEW s \in SetToSeqs(due), NEW K \in SUBSET Window(s),
               Starts(p, s, K, clock), pump' = BeginAttempts(p, Chosen(s, K))
        PROVE  \E C \in SUBSET deliv' : /\ pump'.tasks = pump.tasks \cup Begun(C)
                                        /\ \A d \in C : Outstanding(d) /\ d.id \notin pump.busy
    <3>1. /\ pump'.tasks = p.tasks \cup Begun(Chosen(s, K))
          /\ \A d \in Chosen(s, K) : d \in due /\ d.id \notin p.busy
      BY <1>1, <1>6, <1>7, <2>2, LoopKeeps
    <3>. QED  BY <1>4, <1>7, <3>1
  <2>. QED  BY <1>5, <2>1, <2>2
<1>. QED  BY <1>1, <1>2, <1>3, <1>8, <1>9 DEF TasksInv

\* An attempt ends: its task changes, and nothing the caches count.
LEMMA RunKeeps ==
    ASSUME NEW p, NEW now, TasksOK(p, now), NEW t \in p.tasks, NEW outcome \in Outcome,
           NEW q, q = [p EXCEPT !.tasks = (p.tasks \ {t}) \cup {[t EXCEPT !.outcome = outcome]}]
    PROVE  TasksOK(q, now)
<1>. DEFINE u == [t EXCEPT !.outcome = outcome]
<1>1. p \in Pump /\ t \in Attempt
  BY PumpFacts DEF TasksOK
<1>2. u \in Attempt /\ u.d = t.d
  BY <1>1 DEF Attempt
<1>3. /\ q.tasks = (p.tasks \ {t}) \cup {u} /\ q.busy = p.busy /\ q.load = p.load
  BY <1>1 DEF Pump
<1>4. q \in Pump
  <2>1. q.tasks \in SUBSET Attempt
    BY <1>1, <1>2, <1>3, PumpFacts
  <2>2. /\ p.skip \in [Owners -> Instant] /\ p.swept \in Instant
        /\ p.retry \in [Ids -> [until : Instant, count : Nat]]
    BY <1>1, PumpFacts
  <2>3. q = [p EXCEPT !.tasks = q.tasks, !.skip = p.skip, !.retry = p.retry, !.swept = p.swept]
    BY <1>1 DEF Pump
  <2>4. [p EXCEPT !.tasks = q.tasks, !.skip = p.skip, !.retry = p.retry, !.swept = p.swept] \in Pump
    BY <1>1, <2>1, <2>2, PumpCached, Zenon
  <2>. QED  BY <2>3, <2>4, Zenon
<1>. HIDE DEF u
<1>5. /\ IsFiniteSet(p.tasks) /\ p.busy = {x.d.id : x \in p.tasks}
      /\ \A x \in p.tasks : Outstanding(x.d) /\ FireOK(x.d, now)
      /\ \A x, y \in p.tasks : x.d.id = y.d.id => x = y
  BY DEF TasksOK
<1>6. ASSUME NEW S, IsFiniteSet(S), t \in S, S \subseteq p.tasks, NEW T, T = (S \ {t}) \cup {u}
      PROVE  IsFiniteSet(T) /\ Cardinality(T) = Cardinality(S)
  <2>1. IsFiniteSet(S \ {t}) /\ Cardinality(S \ {t}) = Cardinality(S) - 1
    BY <1>6, FS_RemoveElement
  <2>2. u \notin S \ {t}
    BY <1>2, <1>5, <1>6
  <2>3. IsFiniteSet(T) /\ Cardinality(T) = Cardinality(S \ {t}) + 1
    BY <1>6, <2>1, <2>2, FS_AddElement
  <2>. QED  BY <1>6, <2>1, <2>3, FS_CardinalityType
<1>7. IsFiniteSet(q.tasks) /\ Cardinality(q.tasks) = Cardinality(p.tasks)
  BY <1>3, <1>5, <1>6
<1>8. \A x \in q.tasks : Outstanding(x.d) /\ FireOK(x.d, now)
  BY <1>2, <1>3, <1>5
<1>9. \A x, y \in q.tasks : x.d.id = y.d.id => x = y
  BY <1>2, <1>3, <1>5
<1>10. q.busy = {x.d.id : x \in q.tasks}
  <2>1. \A x \in q.tasks : x.d.id \in p.busy
    BY <1>2, <1>3, <1>5
  <2>2. \A id \in p.busy : \E x \in q.tasks : x.d.id = id
    <3>1. SUFFICES ASSUME NEW id \in p.busy PROVE \E x \in q.tasks : x.d.id = id
      OBVIOUS
    <3>2. PICK x \in p.tasks : x.d.id = id
      BY <1>5
    <3>. QED  BY <1>2, <1>3, <3>2
  <2>. QED  BY <1>3, <2>1, <2>2
<1>11. \A o \in Owners : Cardinality(InFlight(q.tasks, o)) = Cardinality(InFlight(p.tasks, o))
  <2>1. SUFFICES ASSUME NEW o \in Owners
                 PROVE  Cardinality(InFlight(q.tasks, o)) = Cardinality(InFlight(p.tasks, o))
    OBVIOUS
  <2>. DEFINE S == InFlight(p.tasks, o)
  <2>2. IsFiniteSet(S) /\ S \subseteq p.tasks
    BY <1>5, FS_Subset DEF InFlight
  <2>3. CASE OwnerOf[t.d.id] = o
    <3>1. t \in S /\ InFlight(q.tasks, o) = (S \ {t}) \cup {u}
      BY <1>2, <1>3, <2>3 DEF InFlight
    <3>. HIDE DEF S
    <3>. QED  BY <1>6, <2>2, <3>1 DEF S
  <2>4. CASE OwnerOf[t.d.id] # o
    BY <1>2, <1>3, <2>4 DEF InFlight
  <2>. QED  BY <2>3, <2>4
<1>. QED  BY <1>3, <1>4, <1>7, <1>8, <1>9, <1>10, <1>11 DEF TasksOK

\* release_slot: the task leaves the join set and the caches.
LEMMA ReleaseKeeps ==
    ASSUME NEW p, NEW now, TasksOK(p, now), NEW t \in p.tasks, NEW q, q = ReleaseSlot(p, t)
    PROVE  TasksOK(q, now) /\ q.tasks = p.tasks \ {t} /\ q.skip = p.skip /\ q.retry = p.retry
<1>. DEFINE owner == OwnerOf[t.d.id]
            left(o) == IF o # owner THEN p.load[o]
                       ELSE IF p.load[o] > 0 THEN p.load[o] - 1 ELSE 0
<1>1. p \in Pump /\ t \in Attempt /\ owner \in Owners
  <2>1. p \in Pump /\ t \in Attempt
    BY PumpFacts DEF TasksOK
  <2>. QED  BY <2>1, ModuleAssumption DEF Attempt, Delivery
<1>2. \A o \in Owners : p.load[o] \in Nat
  BY <1>1, PumpFacts
<1>3. /\ q.tasks = p.tasks \ {t} /\ q.busy = p.busy \ {t.d.id}
      /\ q.skip = p.skip /\ q.retry = p.retry
      /\ q.load = [o \in Owners |-> left(o)]
  BY <1>1 DEF ReleaseSlot, Pump
<1>4. q \in Pump
  <2>1. q.tasks \in SUBSET Attempt /\ q.busy \in SUBSET Ids
    BY <1>1, <1>3, PumpFacts
  <2>2. q.load \in [Owners -> Nat]
    BY <1>2, <1>3
  <2>3. q = [p EXCEPT !.tasks = q.tasks, !.busy = q.busy, !.load = q.load]
    BY <1>1 DEF ReleaseSlot, Pump
  <2>4. [p EXCEPT !.tasks = q.tasks, !.busy = q.busy, !.load = q.load] \in Pump
    BY <1>1, <2>1, <2>2, PumpTyped, Zenon
  <2>. QED  BY <2>3, <2>4, Zenon
<1>5. /\ IsFiniteSet(p.tasks) /\ p.busy = {x.d.id : x \in p.tasks}
      /\ Cardinality(p.tasks) <= GlobalCap
      /\ \A x \in p.tasks : Outstanding(x.d) /\ FireOK(x.d, now)
      /\ \A x, y \in p.tasks : x.d.id = y.d.id => x = y
      /\ \A o \in Owners : /\ p.load[o] = Cardinality(InFlight(p.tasks, o))
                           /\ p.load[o] <= PerOwner
  BY DEF TasksOK
<1>6. IsFiniteSet(q.tasks) /\ Cardinality(q.tasks) <= GlobalCap
  <2>1. IsFiniteSet(p.tasks \ {t}) /\ Cardinality(p.tasks \ {t}) = Cardinality(p.tasks) - 1
    BY <1>5, FS_RemoveElement
  <2>. QED  BY <1>3, <1>5, <2>1, FS_CardinalityType, PumpAssumption
<1>7. q.busy = {x.d.id : x \in q.tasks}
  <2>1. \A x \in q.tasks : x.d.id \in q.busy
    BY <1>3, <1>5
  <2>2. \A id \in q.busy : \E x \in q.tasks : x.d.id = id
    <3>1. SUFFICES ASSUME NEW id \in q.busy PROVE \E x \in q.tasks : x.d.id = id
      OBVIOUS
    <3>2. PICK x \in p.tasks : x.d.id = id
      BY <1>3, <1>5
    <3>. QED  BY <1>3, <3>2
  <2>. QED  BY <2>1, <2>2
<1>8. ASSUME NEW o \in Owners
      PROVE  q.load[o] = Cardinality(InFlight(q.tasks, o)) /\ q.load[o] <= PerOwner
  <2>. DEFINE S == InFlight(p.tasks, o)
  <2>1. p.load[o] = Cardinality(S) /\ p.load[o] <= PerOwner /\ q.load[o] = left(o)
    BY <1>3, <1>5
  <2>2. IsFiniteSet(S) /\ Cardinality(S) \in Nat
    BY <1>5, FS_Subset, FS_CardinalityType DEF InFlight
  <2>3. CASE o = owner
    <3>1. t \in S /\ InFlight(q.tasks, o) = S \ {t}
      BY <1>3, <2>3 DEF InFlight
    <3>. HIDE DEF S
    <3>2. IsFiniteSet(S \ {t}) /\ Cardinality(S \ {t}) = Cardinality(S) - 1
      BY <2>2, <3>1, FS_RemoveElement
    <3>3. Cardinality(S \ {t}) \in Nat
      BY <3>2, FS_CardinalityType
    <3>. QED  BY <2>1, <2>2, <2>3, <3>1, <3>2, <3>3, PumpAssumption
  <2>4. CASE o # owner
    BY <1>3, <2>1, <2>4 DEF InFlight
  <2>. QED  BY <2>3, <2>4
<1>. QED  BY <1>3, <1>4, <1>5, <1>6, <1>7, <1>8 DEF TasksOK

\* end_attempt, and the schedule's own backoff.
LEMMA EndKeeps ==
    ASSUME NEW p, NEW now \in Nat, TasksOK(p, now), NEW t \in p.tasks, t.outcome # NULL,
           NEW retry \in [until : Instant, count : Nat],
           NEW q, q \in {EndAttempt(p, t, now),
                         [EndAttempt(p, t, now) EXCEPT !.retry[t.d.id] = retry]}
    PROVE  TasksOK(q, now) /\ q.tasks = p.tasks \ {t}
<1>. DEFINE r == ReleaseSlot(p, t)
            e == EndAttempt(p, t, now)
            owner == OwnerOf[t.d.id]
            skip == IF t.outcome = "panicked" THEN r.skip
                    ELSE IF t.outcome = "deferred"
                         THEN [r.skip EXCEPT ![owner] = now + DeferRecheck]
                         ELSE [r.skip EXCEPT ![owner] = 0]
<1>1. TasksOK(r, now) /\ r \in Pump /\ r.tasks = p.tasks \ {t}
  BY ReleaseKeeps DEF TasksOK
<1>. HIDE DEF r
<1>2. e = [r EXCEPT !.skip = skip]
  BY <1>1 DEF EndAttempt, Pump, r
<1>3. skip \in [Owners -> Instant]
  <2>1. r.skip \in [Owners -> Instant] /\ now + DeferRecheck \in Instant /\ 0 \in Instant
    BY <1>1, PumpFacts, PumpAssumption DEF Instant
  <2>. QED  BY <2>1
<1>. HIDE DEF e, skip
<1>4. r.tasks \in SUBSET Attempt /\ r.retry \in [Ids -> [until : Instant, count : Nat]]
      /\ r.swept \in Instant
  BY <1>1, PumpFacts
<1>5. ASSUME NEW R \in [Ids -> [until : Instant, count : Nat]], q = [e EXCEPT !.retry = R]
      PROVE  /\ q \in Pump /\ q.tasks = r.tasks /\ q.busy = r.busy /\ q.load = r.load
  <2>1. q = [r EXCEPT !.tasks = r.tasks, !.skip = skip, !.retry = R, !.swept = r.swept]
    BY <1>1, <1>2, <1>5 DEF Pump
  <2>2. [r EXCEPT !.tasks = r.tasks, !.skip = skip, !.retry = R, !.swept = r.swept] \in Pump
    BY <1>1, <1>3, <1>4, PumpCached, Zenon
  <2>3. q.tasks = r.tasks /\ q.busy = r.busy /\ q.load = r.load
    BY <1>1, <1>2, <1>5 DEF Pump
  <2>. QED  BY <2>1, <2>2, <2>3, Zenon
<1>6. \E R \in [Ids -> [until : Instant, count : Nat]] : q = [e EXCEPT !.retry = R]
  <2>1. CASE q = e
    <3>1. e = [e EXCEPT !.retry = r.retry]
      BY <1>1, <1>2 DEF Pump
    <3>. QED  BY <1>4, <2>1, <3>1
  <2>2. CASE q = [e EXCEPT !.retry[t.d.id] = retry]
    <3>1. q = [e EXCEPT !.retry = [r.retry EXCEPT ![t.d.id] = retry]]
      BY <1>1, <1>2, <2>2 DEF Pump
    <3>2. [r.retry EXCEPT ![t.d.id] = retry] \in [Ids -> [until : Instant, count : Nat]]
      BY <1>4
    <3>. QED  BY <3>1, <3>2
  <2>. QED  BY <2>1, <2>2 DEF e
<1>7. q \in Pump /\ q.tasks = r.tasks /\ q.busy = r.busy /\ q.load = r.load
  BY <1>5, <1>6, Zenon
<1>8. TasksOK(q, now)
  <2>1. now <= now
    OBVIOUS
  <2>. QED  BY <1>1, <1>7, <2>1, CachesKeep, Zenon
<1>. QED  BY <1>1, <1>7, <1>8, Zenon

\* db_write_backoff is a wait.
LEMMA BackoffIsAWait ==
    ASSUME NEW n \in Nat, n >= 1
    PROVE  DbWriteBackoff(n) \in Nat
<1>1. /\ 2 ^ 0 \in Nat /\ 2 ^ 1 \in Nat /\ 2 ^ 2 \in Nat /\ 2 ^ 3 \in Nat
      /\ 2 ^ 4 \in Nat /\ 2 ^ 5 \in Nat /\ 2 ^ 6 \in Nat
  <2>1. 2 ^ 0 = 1
    OBVIOUS
  <2>2. 2 ^ 1 = 2
    OBVIOUS
  <2>3. 2 ^ 2 = 4
    OBVIOUS
  <2>4. 2 ^ 3 = 8
    OBVIOUS
  <2>5. 2 ^ 4 = 16
    OBVIOUS
  <2>6. 2 ^ 5 = 32
    OBVIOUS
  <2>7. 2 ^ 6 = 64
    OBVIOUS
  <2>. QED  BY <2>1, <2>2, <2>3, <2>4, <2>5, <2>6, <2>7
<1>. DEFINE k == IF n - 1 < 6 THEN n - 1 ELSE 6
<1>2. k = 0 \/ k = 1 \/ k = 2 \/ k = 3 \/ k = 4 \/ k = 5 \/ k = 6
  OBVIOUS
<1>3. DbWriteBackoff(n) = IF DbRetryAfter * 2 ^ k < DbRetryMax THEN DbRetryAfter * 2 ^ k
                          ELSE DbRetryMax
  BY DEF DbWriteBackoff
<1>. HIDE DEF k
<1>. DEFINE w == 2 ^ k
<1>4. w \in Nat
  BY <1>1, <1>2
<1>. HIDE DEF w
<1>5. DbRetryAfter * w \in Nat
  BY <1>4, PumpAssumption
<1>. QED  BY <1>3, <1>5, PumpAssumption DEF w

-----------------------------------------------------------------------------
(* The deliveries and their rows.                                          *)

\* Whatever the statements of the tables write, a fire has one row, and a source one
\* outstanding fire.
LEMMA FiresKeep ==
    ASSUME DelivInv, FiresKept
    PROVE  /\ IsFiniteSet(deliv') /\ OneRowEach(deliv') /\ OneOpenEach(deliv')
           /\ \A d \in deliv' : FireOK(d, clock')
<1>1. CASE Keeps(deliv, deliv', clock')
  <2>1. OneOpenEach(deliv')
    BY <1>1 DEF Keeps, DelivInv, OneOpenEach
  <2>. QED  BY <1>1, <2>1 DEF Keeps
<1>2. ASSUME NEW fire \in Delivery, Opens(deliv, deliv', fire, clock')
      PROVE  /\ IsFiniteSet(deliv') /\ OneRowEach(deliv') /\ OneOpenEach(deliv')
             /\ \A d \in deliv' : FireOK(d, clock')
  <2>1. SUFFICES ASSUME NEW d \in deliv', NEW e \in deliv', Outstanding(d), Outstanding(e),
                        d.id = e.id, d.trigger = e.trigger
                 PROVE  d = e
    BY <1>2 DEF Opens, OneOpenEach
  <2>2. CASE d = fire \/ e = fire
    BY <1>2, <2>1, <2>2 DEF Opens
  <2>3. CASE d # fire /\ e # fire
    BY <1>2, <2>1, <2>3 DEF Opens, DelivInv, OneOpenEach
  <2>. QED  BY <2>2, <2>3
<1>. QED  BY <1>1, <1>2 DEF FiresKept

\* One row is written: no row goes.
LEMMA RowStays ==
    ASSUME TableTypeOK, NEW id \in Ids, NEW row \in Row, rows' = [rows EXCEPT ![id] = row]
    PROVE  \A i \in Ids : Exists(i) => Exists(i)'
<1>1. \A i \in Ids : rows'[i] = IF i = id THEN row ELSE rows[i]
  BY DEF TableTypeOK
<1>2. row # NULL
  BY RowFacts
<1>. QED  BY <1>1, <1>2 DEF Exists

\* Only a delete removes a row, and it removes the fires with it.
LEMMA RowsStay ==
    ASSUME TableInv, TableStep, \A id \in Ids : ~Delete(id)
    PROVE  \A i \in Ids : Exists(i) => Exists(i)'
<1>0. TableTypeOK /\ \A id \in Ids : Exists(id) => rows[id] \in Row
  BY DEF TableInv, TableTypeOK, Exists
<1>1. CASE UNCHANGED rows
  BY <1>1 DEF Exists
<1>2. ASSUME NEW c \in Clients, UpsertLand(c)
      PROVE  \A i \in Ids : Exists(i) => Exists(i)'
  <2>1. call[c] \in Upserting /\ call[c].desired \in Desired /\ call[c].next \in InstantOrNull
    BY <1>2 DEF TableInv, TableTypeOK, UpsertLand, Upserting, Resuming
  <2>2. ASSUME NEW id \in Ids, UpsertCreate(c, id)
        PROVE  \A i \in Ids : Exists(i) => Exists(i)'
    <3>1. \A i \in Ids \ {id} : rows'[i] = rows[i]
      BY <1>0, <2>2 DEF UpsertCreate, TableTypeOK
    <3>2. ~Exists(id)
      BY <2>2 DEF UpsertCreate, TableInv, UsedInv
    <3>. QED  BY <3>1, <3>2 DEF Exists
  <2>3. ASSUME NEW id \in Ids, UpsertUpdate(c, id)
        PROVE  \A i \in Ids : Exists(i) => Exists(i)'
    <3>1. rows[id] \in Row
      BY <1>0, <2>3 DEF UpsertUpdate, Holder, RowsOf
    <3>2. Declared(rows[id], call[c].desired, call[c].next) \in Row
      BY <2>1, <3>1, DeclaredFacts
    <3>3. UNCHANGED rows
          \/ rows' = [rows EXCEPT ![id] = Declared(rows[id], call[c].desired, call[c].next)]
      BY <2>3 DEF UpsertUpdate
    <3>. QED  BY <1>0, <1>1, <3>2, <3>3, RowStays
  <2>. QED  BY <1>2, <2>2, <2>3 DEF UpsertLand
<1>3. ASSUME NEW c \in Clients, ResumeWrite(c)
      PROVE  \A i \in Ids : Exists(i) => Exists(i)'
  <2>1. call[c] \in Resuming /\ call[c].id \in Ids /\ call[c].next \in InstantOrNull
        /\ Exists(call[c].id)
    BY <1>3 DEF TableInv, TableTypeOK, ResumeWrite, ResumeHolds, Upserting, Resuming
  <2>2. ResumedRow(rows[call[c].id], call[c].next) \in Row
    BY <1>0, <2>1, SwitchedFacts
  <2>3. rows' = [rows EXCEPT ![call[c].id] = ResumedRow(rows[call[c].id], call[c].next)]
    BY <1>3 DEF ResumeWrite
  <2>. QED  BY <1>0, <2>1, <2>2, <2>3, RowStays
<1>4. ASSUME NEW id \in Ids, Suspend(id)
      PROVE  \A i \in Ids : Exists(i) => Exists(i)'
  <2>1. rows[id] \in Row /\ rows' = [rows EXCEPT ![id] = SuspendedRow(rows[id])]
    BY <1>0, <1>4 DEF Suspend
  <2>2. SuspendedRow(rows[id]) \in Row
    BY <2>1, SwitchedFacts DEF InstantOrNull
  <2>. QED  BY <1>0, <2>1, <2>2, RowStays
<1>5. ASSUME NEW s \in todo, FireModule(s)
      PROVE  \A i \in Ids : Exists(i) => Exists(i)'
  <2>1. s.id \in Ids /\ s.row \in Row /\ tickNow \in Nat
    BY DEF TableInv, TableTypeOK, Snapshot, Instant
  <2>2. CASE AdvanceHolds(s)
    <3>. DEFINE slot == NextFire(s.row.spec, tickNow)
                row == [rows[s.id] EXCEPT !.next = slot]
    <3>1. slot \in InstantOrNull /\ rows[s.id] \in Row
      BY <1>0, <2>1, <2>2, RowFacts, NextFireLater DEF AdvanceHolds
    <3>2. rows' = [rows EXCEPT ![s.id] = row]
      BY <1>5, <2>2 DEF FireModule
    <3>. HIDE DEF slot
    <3>3. row \in Row
      BY <3>1 DEF Row
    <3>. HIDE DEF row
    <3>. QED  BY <1>0, <2>1, <3>2, <3>3, RowStays
  <2>. QED  BY <1>1, <1>5, <2>2 DEF FireModule
<1>. QED  BY <1>1, <1>2, <1>3, <1>4, <1>5
        DEF TableStep, AdvanceClock, UpsertCall, UpsertDrop, ResumeCall, ResumeMiss, RunNow,
            TickList

\* The schedule of an outstanding fire is there after every step of the tables.
LEMMA HasRowStays ==
    ASSUME TableInv, DelivInv, TableStep
    PROVE  HasRow'
<1>0. deliv \in SUBSET Delivery /\ clock \in Nat /\ tickNow \in Nat
      /\ \A d \in deliv : d.id \in Ids /\ (Outstanding(d) => Exists(d.id))
  BY DEF TableInv, TableTypeOK, Delivery, Instant, DelivInv, HasRow
<1>1. ASSUME NEW id \in Ids, Delete(id) PROVE HasRow'
  <2>1. \A i \in Ids \ {id} : rows'[i] = rows[i]
    BY <1>1 DEF Delete, TableInv, TableTypeOK
  <2>. QED  BY <1>0, <1>1, <2>1 DEF Delete, HasRow, Exists
<1>2. CASE \A id \in Ids : ~Delete(id)
  <2>1. \A i \in Ids : Exists(i) => Exists(i)'
    BY <1>2, RowsStay
  <2>2. SUFFICES ASSUME NEW d \in deliv', Outstanding(d), d \notin deliv PROVE Exists(d.id)'
    BY <1>0, <2>1 DEF HasRow
  <2>3. ASSUME NEW id \in Ids, Exists(id), NEW trigger \in Trigger, NEW slot \in Nat,
               NEW stamp \in Nat,
               deliv' = RecordFireIn(deliv, NewFire(id, trigger, slot, stamp), stamp)
        PROVE  Exists(d.id)'
    BY <1>0, <2>1, <2>2, <2>3, NewFireFacts, RecordFacts
  <2>4. ASSUME NEW id \in Ids, RunNow(id) PROVE Exists(d.id)'
    BY <1>0, <2>3, <2>4 DEF RunNow, Trigger
  <2>5. ASSUME NEW s \in todo, FireModule(s) PROVE Exists(d.id)'
    <3>1. s.id \in Ids /\ s.row.next \in Nat
      BY DEF TableInv, TableTypeOK, Snapshot, TodoInv
    <3>. QED  BY <1>0, <2>2, <2>3, <2>5, <3>1 DEF FireModule, AdvanceHolds, Trigger
  <2>6. ASSUME NEW id \in Ids, NEW stamp \in Nat, deliv' = ExpireOutstanding(deliv, id, stamp)
        PROVE  FALSE
    BY <1>0, <2>2, <2>6, ExpireFacts
  <2>7. ASSUME NEW c \in Clients, UpsertLand(c) PROVE FALSE
    <3>1. call[c].now \in Nat
      BY <2>7 DEF TableInv, TableTypeOK, UpsertLand, Upserting, Resuming, Instant
    <3>. QED  BY <2>2, <2>6, <2>7, <3>1 DEF UpsertLand, UpsertCreate, UpsertUpdate
  <2>8. ASSUME NEW id \in Ids, Suspend(id) PROVE FALSE
    BY <1>0, <2>6, <2>8 DEF Suspend, SuspendedDeliveries
  <2>9. deliv' # deliv
    BY <2>2
  <2>. QED  BY <1>2, <2>4, <2>5, <2>7, <2>8, <2>9
          DEF TableStep, AdvanceClock, UpsertCall, UpsertDrop, ResumeCall, ResumeMiss,
              ResumeWrite, TickList
<1>. QED  BY <1>1, <1>2

\* The tables' steps keep the deliveries.
LEMMA TableStepKeeps ==
    ASSUME TableInv, DelivInv, TableStep
    PROVE  TableInv' /\ DelivInv'
<1>1. TableInv'
  BY StepKeepsTable
<1>2. TableMoves /\ HasRow'
  BY TableStepMoves, HasRowStays
<1>. QED  BY <1>1, <1>2, FiresKeep DEF TableMoves, DelivInv

-----------------------------------------------------------------------------
(* The outcome of an attempt.                                              *)

\* The wait before the next attempt.
LEMMA WaitIsAWait ==
    ASSUME NEW sent \in Nat, sent >= 1
    PROVE  Wait(sent) \in Nat
<1>1. Backoff \in Seq(Nat) /\ Backoff # <<>> /\ Len(Backoff) \in Nat
  BY DeliveryAssumption
<1>2. Len(Backoff) >= 1
  BY <1>1
<1>. QED  BY <1>1, <1>2 DEF Wait

\* What apply_outcome answers for a row with attempts left.
LEMMA OutcomeFacts ==
    ASSUME NEW from \in {"pending", "deferred"}, NEW attempts \in Nat, attempts < MaxSent,
           NEW outcome \in Outcome, NEW now \in Nat,
           NEW a, a = ApplyOutcome(from, attempts, outcome, now), a # NULL
    PROVE  /\ a.status \in {"pending", "deferred", "delivered", "failed"}
           /\ a.attempts = IF outcome = "deferred" THEN attempts ELSE attempts + 1
           /\ a.due \in InstantOrNull
           /\ a.due # NULL <=> a.status \in {"pending", "deferred"}
           /\ a.status \in {"pending", "deferred"} => a.attempts < MaxSent
           /\ a.counts <=> a.status = "failed"
           /\ a.resets => a.status = "delivered"
<1>1. now \in InstantOrNull /\ NULL \in InstantOrNull /\ now # NULL
      /\ now + Wait(attempts + 1) \in InstantOrNull /\ now + Wait(attempts + 1) # NULL
  BY WaitIsAWait, NullAssumption DEF InstantOrNull
<1>2. MaxSent \in Nat
  BY DeliveryAssumption
<1>3. CASE outcome = "deferred"
  BY <1>1, <1>2, <1>3 DEF ApplyOutcome, Applied
<1>4. CASE outcome = "delivered"
  BY <1>1, <1>2, <1>4 DEF ApplyOutcome, Applied
<1>5. CASE outcome \notin {"deferred", "delivered"} /\ attempts + 1 >= MaxSent
  <2>1. a = Applied("failed", attempts + 1, NULL, TRUE, FALSE)
    BY <1>5 DEF ApplyOutcome, GivesUp
  <2>. QED  BY <1>1, <1>2, <1>5, <2>1 DEF Applied
<1>6. CASE outcome \notin {"deferred", "delivered"} /\ ~(attempts + 1 >= MaxSent)
  <2>1. a = Applied("pending", attempts + 1, now + Wait(attempts + 1), FALSE, FALSE)
    BY <1>6 DEF ApplyOutcome, GivesUp
  <2>. QED  BY <1>1, <1>2, <1>6, <2>1 DEF Applied
<1>. QED  BY <1>3, <1>4, <1>5, <1>6

\* A request's result is always written: only a repeated deferral is not.
LEMMA ApplyChanges ==
    ASSUME NEW from, NEW attempts \in Nat, NEW outcome \in Outcome, outcome # "deferred",
           NEW now \in Nat
    PROVE  ApplyOutcome(from, attempts, outcome, now) # NULL
<1>1. /\ NULL \notin Change /\ NULL \in InstantOrNull
      /\ now + Wait(attempts + 1) \in InstantOrNull
  BY PumpAssumption, WaitIsAWait DEF InstantOrNull
<1>2. \/ ApplyOutcome(from, attempts, outcome, now) = Applied("delivered", attempts + 1, NULL, FALSE, TRUE)
      \/ ApplyOutcome(from, attempts, outcome, now) = Applied("failed", attempts + 1, NULL, TRUE, FALSE)
      \/ ApplyOutcome(from, attempts, outcome, now)
            = Applied("pending", attempts + 1, now + Wait(attempts + 1), FALSE, FALSE)
  BY DEF ApplyOutcome
<1>3. /\ Applied("delivered", attempts + 1, NULL, FALSE, TRUE) \in Change
      /\ Applied("failed", attempts + 1, NULL, TRUE, FALSE) \in Change
      /\ Applied("pending", attempts + 1, now + Wait(attempts + 1), FALSE, FALSE) \in Change
  BY <1>1 DEF Applied, Change
<1>. QED  BY <1>1, <1>2, <1>3

\* The row of a schedule whose fire failed, or was delivered.
LEMMA CountedFacts ==
    ASSUME NEW row \in Row, NEW now, SlotSound(row, now),
           NEW new, new \in {row, [row EXCEPT !.failures = 0], CountFailure(row)}
    PROVE  /\ new \in Row /\ SlotSound(new, now)
           /\ new.spec = row.spec /\ new.enabled = row.enabled /\ new.suspended = row.suspended
           /\ new.revision \in {row.revision, row.revision + 1}
<1>1. row.failures \in Nat /\ row.revision \in Nat /\ row.sys \in BOOLEAN
      /\ row.next \in InstantOrNull /\ NULL \in InstantOrNull
  BY RowFacts DEF InstantOrNull
<1>2. CASE new = row
  BY <1>2
<1>3. CASE new = [row EXCEPT !.failures = 0]
  BY <1>1, <1>3 DEF Row, SlotSound, Eligible
<1>4. CASE new = CountFailure(row)
  <2>. DEFINE off == row.failures + 1 >= MaxFailures /\ ~row.sys
              fails == row.failures + 1
              sys == row.sys \/ off
              next == IF off THEN NULL ELSE row.next
              rev == IF off THEN row.revision + 1 ELSE row.revision
  <2>1. fails \in Nat /\ sys \in BOOLEAN /\ next \in InstantOrNull /\ rev \in Nat
        /\ rev \in {row.revision, row.revision + 1}
    BY <1>1
  <2>2. new = [row EXCEPT !.failures = fails, !.sys = sys, !.next = next, !.revision = rev]
    BY <1>4 DEF CountFailure
  <2>3. off => sys /\ next = NULL
    OBVIOUS
  <2>4. ~off => (sys <=> row.sys) /\ next = row.next
    OBVIOUS
  <2>. HIDE DEF off, fails, sys, next, rev
  <2>5. /\ new \in Row /\ new.spec = row.spec /\ new.enabled = row.enabled
        /\ new.suspended = row.suspended /\ new.sys = sys /\ new.next = next
        /\ new.revision = rev
    BY <2>1, <2>2 DEF Row
  <2>6. SlotSound(new, now)
    BY <2>3, <2>4, <2>5 DEF SlotSound, Eligible
  <2>. QED  BY <2>1, <2>5, <2>6
<1>. QED  BY <1>2, <1>3, <1>4

\* A schedule's count and kernel switch are written, and no fire becomes outstanding.
LEMMA CountKeeps ==
    ASSUME TableInv, NEW id \in Ids, Exists(id), NEW row,
           row \in {rows[id], [rows[id] EXCEPT !.failures = 0], CountFailure(rows[id])},
           rows' = [rows EXCEPT ![id] = row], deliv' \subseteq Delivery,
           \A d \in deliv' : Outstanding(d) =>
              \E e \in deliv : /\ Outstanding(e) /\ e.id = d.id
                               /\ e.trigger = d.trigger /\ e.slot = d.slot,
           UNCHANGED <<clock, used, installed, tickNow, todo, call>>
    PROVE  TableInv'
<1>. DEFINE old == rows[id]
<1>1. old \in Row /\ old.revision \in Nat /\ clock \in Nat /\ SlotSound(old, clock)
  BY RowFacts, RowInvBySlot DEF TableInv, TableTypeOK, Exists, Instant
<1>2. /\ row \in Row /\ SlotSound(row, clock) /\ row # NULL /\ row.revision \in Nat
      /\ row.spec = old.spec /\ row.enabled = old.enabled /\ row.suspended = old.suspended
      /\ row.revision \in {old.revision, old.revision + 1}
  <2>1. row \in Row /\ SlotSound(row, clock)
      /\ row.spec = old.spec /\ row.enabled = old.enabled /\ row.suspended = old.suspended
      /\ row.revision \in {old.revision, old.revision + 1}
    BY <1>1, CountedFacts
  <2>. QED  BY <2>1, RowFacts
<1>3. \A i \in Ids : rows'[i] = IF i = id THEN row ELSE rows[i]
  BY DEF TableInv, TableTypeOK
<1>4. Ages
  <2>1. \A i \in Ids : RowMoves(i)
    BY <1>1, <1>2, <1>3 DEF RowMoves
  <2>. QED  BY <1>1, <2>1 DEF Ages
<1>5. RowInv'
  BY <1>2, OneRowWritten DEF TableInv
<1>6. UsedInv' /\ QuotaHolds'
  BY <1>3, NoRowAdded DEF TableInv, Exists
<1>7. TickFireIsCurrent'
  <2>1. SUFFICES ASSUME NEW d \in deliv', Outstanding(d), d.trigger = "tick"
        PROVE  /\ rows'[d.id] # NULL /\ rows'[d.id].enabled /\ ~rows'[d.id].suspended
               /\ rows'[d.id].spec.type = "cron" => d.slot \in rows'[d.id].spec.slots
    BY DEF TickFireIsCurrent, Exists
  <2>2. /\ d.id \in Ids /\ rows[d.id].enabled /\ ~rows[d.id].suspended /\ Exists(d.id)
        /\ rows[d.id].spec.type = "cron" => d.slot \in rows[d.id].spec.slots
    BY <2>1 DEF TableInv, TableTypeOK, Delivery, TickFireIsCurrent
  <2>. QED  BY <1>2, <1>3, <2>2 DEF Exists
<1>8. TableTypeOK'
  <2>1. rows' \in [Ids -> Row \cup {NULL}]
    BY <1>2 DEF TableInv, TableTypeOK
  <2>. QED  BY <2>1 DEF TableInv, TableTypeOK
<1>9. TodoInv' /\ CallInv'
  BY <1>4, TodoAges, CallInvAges DEF TableInv
<1>. QED  BY <1>5, <1>6, <1>7, <1>8, <1>9 DEF TableInv

\* The row of a fire whose attempt ended.
AppliedRow(e, a, now) ==
    [e EXCEPT !.status = a.status, !.attempts = a.attempts, !.due = a.due, !.updated = now]

LEMMA AppliedFacts ==
    ASSUME NEW e \in Delivery, NEW t \in Attempt, OutcomeHolds(e, t.d), t.outcome # NULL,
           Outstanding(t.d), t.d.attempts < MaxSent, NEW now \in Nat, e.slot <= now,
           NEW a, a = ApplyOutcome(t.d.status, t.d.attempts, t.outcome, now), a # NULL,
           NEW f, f = AppliedRow(e, a, now)
    PROVE  /\ f \in Delivery /\ FireId(f) = FireId(e) /\ FireOK(f, now)
           /\ f.id = e.id /\ f.trigger = e.trigger /\ f.slot = e.slot
           /\ f.status = a.status /\ f.attempts = a.attempts
<1>1. t.d \in Delivery /\ t.outcome \in Outcome /\ t.d.attempts \in Nat
      /\ t.d.status \in {"pending", "deferred"}
  BY DEF Attempt, Delivery, Outstanding
<1>2. /\ a.status \in {"pending", "deferred", "delivered", "failed"}
      /\ a.attempts = IF t.outcome = "deferred" THEN t.d.attempts ELSE t.d.attempts + 1
      /\ a.due \in InstantOrNull
      /\ a.due # NULL <=> a.status \in {"pending", "deferred"}
      /\ a.status \in {"pending", "deferred"} => a.attempts < MaxSent
  BY <1>1, OutcomeFacts
<1>3. a.attempts \in Nat /\ now \in Instant
  BY <1>1, <1>2 DEF Instant
<1>4. /\ f \in Delivery /\ f.id = e.id /\ f.trigger = e.trigger /\ f.slot = e.slot
      /\ f.status = a.status /\ f.attempts = a.attempts /\ f.due = a.due
  BY <1>2, <1>3 DEF AppliedRow, Delivery
<1>. QED  BY <1>2, <1>4 DEF FireId, FireOK, Outstanding

\* The attempt's result is written, or its row is gone, retired or counts another attempt.
LEMMA ApplyKeeps ==
    ASSUME PumpInv, NEW t \in pump.tasks, ApplyAttempt(t)
    PROVE  TableInv' /\ DelivInv'
<1>. DEFINE a == ApplyOutcome(t.d.status, t.d.attempts, t.outcome, clock)
<1>1. /\ deliv \in SUBSET Delivery /\ clock \in Nat /\ clock' = clock
      /\ UNCHANGED <<clock, used, installed, tickNow, todo, call>>
      /\ IsFiniteSet(deliv) /\ OneRowEach(deliv) /\ OneOpenEach(deliv)
      /\ \A d \in deliv : FireOK(d, clock) /\ (Outstanding(d) => Exists(d.id))
  BY DEF PumpInv, TableInv, TableTypeOK, Instant, ApplyAttempt, DelivInv, HasRow
<1>2. t \in Attempt /\ t.outcome # NULL /\ Outstanding(t.d) /\ t.d.attempts < MaxSent
  BY PumpFacts DEF PumpInv, TasksInv, TasksOK, FireOK, ApplyAttempt
<1>3. CASE UNCHANGED <<rows, deliv>>
  <2>1. TableInv'
    BY <1>1, <1>3, StutterTable DEF PumpInv, tableVars
  <2>2. DelivInv'
    BY <1>1, <1>3 DEF PumpInv, DelivInv, HasRow, Exists
  <2>. QED  BY <2>1, <2>2
<1>4. ASSUME NEW e \in deliv, OutcomeHolds(e, t.d), a # NULL, ApplyDeliveryOutcome(e, a, clock)
      PROVE  TableInv' /\ DelivInv'
  <2>. DEFINE f == AppliedRow(e, a, clock)
              row == IF a.resets THEN [rows[e.id] EXCEPT !.failures = 0]
                     ELSE IF a.counts THEN CountFailure(rows[e.id]) ELSE rows[e.id]
  <2>1. /\ e \in Delivery /\ Outstanding(e) /\ Exists(e.id) /\ e.slot <= clock /\ e.id \in Ids
    BY <1>1, <1>4 DEF OutcomeHolds, FireOK, Delivery
  <2>2. deliv' = (deliv \ {e}) \cup {f}
    BY <1>4 DEF ApplyDeliveryOutcome, AppliedRow
  <2>3. /\ f \in Delivery /\ FireId(f) = FireId(e) /\ FireOK(f, clock)
        /\ f.id = e.id /\ f.trigger = e.trigger /\ f.slot = e.slot
        /\ ~(a.resets /\ a.counts)
    <3>1. a = ApplyOutcome(t.d.status, t.d.attempts, t.outcome, clock) /\ a # NULL
      BY <1>4
    <3>. HIDE DEF a
    <3>2. f = AppliedRow(e, a, clock)
      OBVIOUS
    <3>. HIDE DEF f
    <3>3. /\ f \in Delivery /\ FireId(f) = FireId(e) /\ FireOK(f, clock)
          /\ f.id = e.id /\ f.trigger = e.trigger /\ f.slot = e.slot
      <4>1. OutcomeHolds(e, t.d) /\ clock \in Nat
        BY <1>1, <1>4
      <4>. QED  BY <1>2, <2>1, <3>1, <3>2, <4>1, AppliedFacts
    <3>4. /\ t.d.status \in {"pending", "deferred"} /\ t.d.attempts \in Nat
          /\ t.outcome \in Outcome
      BY <1>2 DEF Attempt, Delivery, Outstanding
    <3>. QED  BY <1>1, <1>2, <3>1, <3>3, <3>4, OutcomeFacts
  <2>4. rows' = [rows EXCEPT ![e.id] = row]
    <3>1. rows \in [Ids -> Row \cup {NULL}]
      BY DEF PumpInv, TableInv, TableTypeOK
    <3>2. \/ rows' = [rows EXCEPT ![e.id].failures = 0] /\ a.resets
          \/ rows' = [rows EXCEPT ![e.id] = CountFailure(rows[e.id])] /\ ~a.resets /\ a.counts
          \/ rows' = rows /\ ~a.resets /\ ~a.counts
      <4>1. rows' = CASE a.resets -> [rows EXCEPT ![e.id].failures = 0]
                      [] a.counts -> [rows EXCEPT ![e.id] = CountFailure(@)]
                      [] OTHER    -> rows
        BY <1>4 DEF ApplyDeliveryOutcome
      <4>. HIDE DEF a
      <4>. QED  BY <2>3, <4>1
    <3>3. rows = [rows EXCEPT ![e.id] = rows[e.id]]
      BY <2>1, <3>1
    <3>. QED  BY <3>2, <3>3
  <2>5. row \in {rows[e.id], [rows[e.id] EXCEPT !.failures = 0], CountFailure(rows[e.id])}
    OBVIOUS
  <2>. HIDE DEF f, row, a
  <2>6. deliv' \subseteq Delivery
    BY <1>1, <2>3, <2>2
  <2>7. \A d \in deliv' : Outstanding(d) =>
              \E x \in deliv : /\ Outstanding(x) /\ x.id = d.id
                               /\ x.trigger = d.trigger /\ x.slot = d.slot
    BY <2>1, <2>3, <2>2
  <2>8. TableInv'
    BY <1>1, <2>1, <2>4, <2>5, <2>6, <2>7, CountKeeps DEF PumpInv
  <2>9. IsFiniteSet(deliv')
    <3>1. IsFiniteSet(deliv \ {e})
      BY <1>1, FS_Subset
    <3>. QED  BY <2>2, <3>1, FS_AddElement
  <2>10. OneRowEach(deliv')
    BY <1>1, <2>3, <2>2 DEF OneRowEach
  <2>11. OneOpenEach(deliv')
    BY <1>1, <2>1, <2>3, <2>2 DEF OneOpenEach
  <2>12. \A d \in deliv' : FireOK(d, clock')
    BY <1>1, <2>3, <2>2
  <2>13. HasRow'
    <3>1. \A i \in Ids : rows'[i] = IF i = e.id THEN row ELSE rows[i]
      BY <2>4 DEF PumpInv, TableInv, TableTypeOK
    <3>2. row # NULL
      <4>1. rows[e.id] \in Row /\ SlotSound(rows[e.id], clock)
        BY <2>1, RowInvBySlot DEF PumpInv, TableInv, TableTypeOK, Exists
      <4>2. row \in Row
        BY <2>5, <4>1, CountedFacts
      <4>. QED  BY <4>2, RowFacts
    <3>3. \A d \in deliv : d.id \in Ids
      BY <1>1 DEF Delivery
    <3>. QED  BY <1>1, <2>1, <2>3, <2>2, <3>1, <3>2, <3>3 DEF HasRow, Exists
  <2>14. (\A s \in todo : s.row.next <= tickNow)' /\ clock' <= MaxTime
    BY <1>1 DEF PumpInv, DelivInv
  <2>. QED  BY <2>8, <2>9, <2>10, <2>11, <2>12, <2>13, <2>14 DEF DelivInv
<1>. QED  BY <1>3, <1>4 DEF ApplyAttempt

-----------------------------------------------------------------------------
(* The pump's steps and its invariant.                                     *)

\* Nothing changes.
LEMMA StutterPump ==
    ASSUME PumpInv, UNCHANGED <<tableVars, pump, faults>>
    PROVE  PumpInv'
<1>1. TableInv'
  BY StutterTable DEF PumpInv
<1>. QED  BY <1>1 DEF PumpInv, DelivInv, HasRow, Exists, TasksInv, tableVars

\* A step of the tables beside the pump.
LEMMA TableKeepsPump ==
    ASSUME PumpInv, Table
    PROVE  PumpInv'
<1>1. TableInv' /\ DelivInv'
  BY TableStepKeeps DEF PumpInv, Table
<1>2. clock \in Nat /\ clock' \in Nat /\ clock <= clock'
  BY <1>1, TableStepMoves DEF PumpInv, Table, TableInv, TableTypeOK, Instant, TableMoves
<1>3. TasksOK(pump, clock) /\ pump \in Pump /\ faults \in Nat
  BY DEF PumpInv, TasksInv, TasksOK
<1>4. TasksOK(pump, clock')
  BY <1>2, <1>3, CachesKeep
<1>. QED  BY <1>1, <1>3, <1>4 DEF PumpInv, TasksInv, Table

\* One wake of the loop.
LEMMA FetchKeepsPump ==
    ASSUME PumpInv, FetchAndSpawn
    PROVE  PumpInv'
<1>1. Keeps(deliv, deliv', clock) /\ TasksInv'
  BY FetchKeeps DEF PumpInv
<1>2. UNCHANGED <<clock, rows, used, installed, tickNow, todo, call>>
  BY DEF FetchAndSpawn
<1>3. deliv' \subseteq Delivery /\ \A d \in deliv' : Outstanding(d) => d \in deliv
  BY <1>1 DEF Keeps
<1>4. TableInv'
  <2>1. UsedInv' /\ RowInv' /\ QuotaHolds' /\ CallInv' /\ TodoInv'
    BY <1>2 DEF PumpInv, TableInv, UsedInv, RowInv, DormantUnarmed, NeverStranded,
                SlotMatchesSpec, QuotaHolds, RowsOf, CallInv, CallOK, SlotAt, TodoInv,
                Agrees, Exists
  <2>2. TickFireIsCurrent'
    BY <1>2, <1>3 DEF PumpInv, TableInv, TickFireIsCurrent, Exists
  <2>3. TableTypeOK'
    BY <1>2, <1>3 DEF PumpInv, TableInv, TableTypeOK
  <2>. QED  BY <2>1, <2>2, <2>3 DEF TableInv
<1>5. DelivInv'
  <2>1. /\ IsFiniteSet(deliv') /\ OneRowEach(deliv') /\ OneOpenEach(deliv')
        /\ \A d \in deliv' : FireOK(d, clock')
    BY <1>1, <1>2, FiresKeep DEF PumpInv, FiresKept
  <2>. QED  BY <1>2, <1>3, <2>1 DEF PumpInv, DelivInv, HasRow, Exists
<1>. QED  BY <1>1, <1>4, <1>5 DEF PumpInv

\* A sweep that failed moved only last_sweep.
LEMMA SweepErrorKeeps ==
    ASSUME PumpInv, SweepError
    PROVE  PumpInv'
<1>1. TableInv' /\ DelivInv' /\ clock' = clock
  <2>1. UNCHANGED tableVars
    BY DEF SweepError
  <2>2. TableInv'
    BY <2>1, StutterTable DEF PumpInv
  <2>. QED  BY <2>1, <2>2 DEF PumpInv, DelivInv, HasRow, Exists, tableVars
<1>2. pump \in Pump /\ TasksOK(pump, clock) /\ clock \in Nat /\ clock \in Instant
  BY DEF PumpInv, TasksInv, TasksOK, TableInv, TableTypeOK, Instant
<1>3. pump.tasks \in SUBSET Attempt /\ pump.skip \in [Owners -> Instant]
      /\ pump.retry \in [Ids -> [until : Instant, count : Nat]]
  BY <1>2, PumpFacts
<1>4. pump' = [pump EXCEPT !.tasks = pump.tasks, !.skip = pump.skip, !.retry = pump.retry,
                           !.swept = clock]
  BY <1>2 DEF SweepError, Pump
<1>5. [pump EXCEPT !.tasks = pump.tasks, !.skip = pump.skip, !.retry = pump.retry,
                   !.swept = clock] \in Pump
  BY <1>2, <1>3, PumpCached, Zenon
<1>6. pump' \in Pump
  BY <1>4, <1>5, Zenon
<1>7. TasksOK(pump', clock)
  <2>1. pump'.tasks = pump.tasks /\ pump'.busy = pump.busy /\ pump'.load = pump.load
    BY <1>2 DEF SweepError, Pump
  <2>. QED  BY <1>2, <1>6, <2>1, CachesKeep
<1>8. faults' \in Nat
  BY DEF PumpInv, TasksInv, SweepError
<1>. QED  BY <1>1, <1>7, <1>8 DEF PumpInv, TasksInv

\* An attempt ends, its result is applied, or the write of its result fails.
LEMMA AttemptsKeep ==
    ASSUME PumpInv, Attempts
    PROVE  PumpInv'
<1>1. PICK t \in pump.tasks :
        (\E outcome \in Outcome : RunAttempt(t, outcome)) \/ ApplyAttempt(t) \/ ApplyError(t)
  BY DEF Attempts
<1>2. TasksOK(pump, clock) /\ clock \in Nat /\ faults \in Nat
  BY DEF PumpInv, TasksInv, TableInv, TableTypeOK, Instant
<1>3. ASSUME UNCHANGED tableVars PROVE TableInv' /\ DelivInv' /\ clock' = clock
  <2>1. TableInv'
    BY <1>3, StutterTable DEF PumpInv
  <2>. QED  BY <1>3, <2>1 DEF PumpInv, DelivInv, HasRow, Exists, tableVars
<1>4. ASSUME NEW outcome \in Outcome, RunAttempt(t, outcome) PROVE PumpInv'
  <2>1. pump' = [pump EXCEPT !.tasks = (pump.tasks \ {t}) \cup {[t EXCEPT !.outcome = outcome]}]
    BY <1>4 DEF RunAttempt
  <2>2. TasksOK(pump', clock)
    BY <1>2, <2>1, RunKeeps
  <2>3. UNCHANGED tableVars /\ faults' = faults
    BY <1>4 DEF RunAttempt
  <2>. QED  BY <1>2, <1>3, <2>2, <2>3 DEF PumpInv, TasksInv
<1>5. CASE ApplyAttempt(t)
  <2>1. TableInv' /\ DelivInv' /\ clock' = clock /\ faults' = faults /\ t.outcome # NULL
    BY <1>5, ApplyKeeps DEF ApplyAttempt
  <2>2. NoRetry \in [until : Instant, count : Nat]
    BY DEF NoRetry, Instant
  <2>3. pump' \in {EndAttempt(pump, t, clock),
                   [EndAttempt(pump, t, clock) EXCEPT !.retry[t.d.id] = NoRetry]}
    BY <1>5 DEF ApplyAttempt
  <2>4. TasksOK(pump', clock)
    BY <1>2, <2>1, <2>2, <2>3, EndKeeps
  <2>. QED  BY <1>2, <2>1, <2>4 DEF PumpInv, TasksInv
<1>6. CASE ApplyError(t)
  <2>. DEFINE n == pump.retry[t.d.id].count + 1
              retry == [until |-> clock + DbWriteBackoff(n), count |-> n]
  <2>1. UNCHANGED tableVars /\ faults' = faults + 1 /\ t.outcome # NULL
    BY <1>6 DEF ApplyError
  <2>2. n \in Nat /\ n >= 1
    <3>1. pump \in Pump /\ t \in Attempt
      BY PumpFacts DEF PumpInv, TasksInv, TasksOK
    <3>2. t.d.id \in Ids
      BY <3>1 DEF Attempt, Delivery
    <3>3. pump.retry[t.d.id].count \in Nat
      BY <3>1, <3>2, PumpFacts
    <3>. QED  BY <3>3
  <2>3. pump' = [EndAttempt(pump, t, clock) EXCEPT !.retry[t.d.id] = retry]
    BY <1>6 DEF ApplyError
  <2>. HIDE DEF n
  <2>4. retry \in [until : Instant, count : Nat]
    BY <1>2, <2>2, BackoffIsAWait DEF Instant
  <2>. HIDE DEF retry
  <2>5. TasksOK(pump', clock)
    BY <1>2, <2>1, <2>3, <2>4, EndKeeps
  <2>. QED  BY <1>2, <1>3, <2>1, <2>5 DEF PumpInv, TasksInv
<1>. QED  BY <1>1, <1>4, <1>5, <1>6

\* A row of the tick is skipped after a store error.
LEMMA TickErrorKeeps ==
    ASSUME PumpInv, TickError
    PROVE  PumpInv'
<1>1. PICK s \in todo : FireError(s)
  BY DEF TickError
<1>2. TableInv'
  BY <1>1, SkipKeeps DEF PumpInv, FireError
<1>3. DelivInv' /\ clock' = clock
  BY <1>1 DEF PumpInv, DelivInv, HasRow, Exists, FireError, Done
<1>. QED  BY <1>2, <1>3 DEF PumpInv, TasksInv, TickError, historyVars

\* An empty join set.
LEMMA NewPumpOK ==
    ASSUME NEW now \in Nat
    PROVE  TasksOK(NewPump(now), now)
<1>1. NewPump(now) \in Pump
  BY DEF NewPump, Pump, NoRetry, Instant
<1>2. \A o \in Owners : InFlight({}, o) = {}
  BY DEF InFlight
<1>3. IsFiniteSet({}) /\ Cardinality({}) = 0
  BY FS_EmptySet
<1>4. /\ NewPump(now).tasks = {} /\ NewPump(now).busy = {}
      /\ \A o \in Owners : NewPump(now).load[o] = 0
  BY DEF NewPump
<1>. QED  BY <1>1, <1>2, <1>3, <1>4, PumpAssumption DEF TasksOK

\* The daemon starts again: the tables are there, the tick, the calls and the join set not.
LEMMA CrashKeeps ==
    ASSUME PumpInv, Crash
    PROVE  PumpInv'
<1>1. /\ clock \in Nat /\ clock' = clock /\ todo' = {} /\ tickNow' = 0 /\ faults' \in Nat
      /\ \A c \in Clients : call'[c] = NULL
      /\ UNCHANGED <<rows, used, deliv>>
  BY DEF PumpInv, TasksInv, TableInv, TableTypeOK, Instant, Crash
<1>2. TableInv'
  <2>1. UsedInv' /\ RowInv' /\ TickFireIsCurrent' /\ QuotaHolds'
    BY <1>1, SameRows DEF PumpInv, TableInv
  <2>2. TodoInv' /\ CallInv'
    BY <1>1 DEF TodoInv, CallInv
  <2>3. TableTypeOK'
    BY <1>1 DEF PumpInv, TableInv, TableTypeOK, Instant, Crash
  <2>. QED  BY <2>1, <2>2, <2>3 DEF TableInv
<1>3. DelivInv'
  BY <1>1 DEF PumpInv, DelivInv, HasRow, Exists
<1>4. TasksOK(pump', clock)
  BY <1>1, NewPumpOK DEF Crash
<1>. QED  BY <1>1, <1>2, <1>3, <1>4 DEF PumpInv, TasksInv

\* The start.
LEMMA InitPumpInv ==
    ASSUME Init
    PROVE  PumpInv
<1>1. TableInv
  BY InitTableInv DEF Init
<1>2. DelivInv
  BY FS_EmptySet, ModuleAssumption
     DEF Init, TableInit, DelivInv, OneRowEach, OneOpenEach, HasRow
<1>3. TasksInv
  <2>1. clock \in Nat
    BY DEF Init, TableInit
  <2>. QED  BY <2>1, NewPumpOK DEF Init, TasksInv
<1>. QED  BY <1>1, <1>2, <1>3 DEF PumpInv

LEMMA StepKeepsPump ==
    ASSUME PumpInv, [Next]_vars
    PROVE  PumpInv'
<1>1. CASE UNCHANGED vars
  BY <1>1, StutterPump DEF vars
<1>2. CASE Next
  BY <1>2, TableKeepsPump, FetchKeepsPump, SweepErrorKeeps, AttemptsKeep, TickErrorKeeps,
     CrashKeeps DEF Next
<1>. QED  BY <1>1, <1>2

\* The inductive invariant of the tables and the pump holds in every reachable state, for
\* any caps, timings and faults.
THEOREM PumpInvariant == Spec => []PumpInv
<1>1. Init => PumpInv
  BY InitPumpInv
<1>2. PumpInv /\ [Next]_vars => PumpInv'
  BY StepKeepsPump
<1>. QED  BY <1>1, <1>2, PTL DEF Spec

\* Every variable of the pump keeps its type, and next_attempt_at is set exactly on
\* outstanding rows.
THEOREM PumpTypeCorrect == Spec => []TypeOK
<1>1. PumpInv => TypeOK
  <2>1. SUFFICES ASSUME PumpInv PROVE TypeOK
    OBVIOUS
  <2>2. TableTypeOK /\ \A d \in deliv : d.due # NULL <=> Outstanding(d)
    BY <2>1 DEF PumpInv, TableInv, DelivInv, FireOK
  <2>3. /\ pump.tasks \subseteq Attempt /\ pump.busy \subseteq Ids /\ pump.load \in [Owners -> Nat]
        /\ pump.skip \in [Owners -> Instant] /\ pump.swept \in Instant
        /\ pump.retry \in [Ids -> [until : Instant, count : Nat]]
    BY <2>1, PumpFacts DEF PumpInv, TasksInv, TasksOK
  <2>4. \A t \in pump.tasks : t.d \in Delivery /\ t.outcome \in Outcome \cup {NULL}
    BY <2>3 DEF Attempt
  <2>. QED  BY <2>2, <2>3, <2>4 DEF TypeOK
<1>. QED  BY <1>1, PumpInvariant, PTL

\* The tables keep what they promise beside the pump: it disables schedules, counts their
\* failures and retires their fires between the tables' own steps, and the daemon may die
\* between any two.
THEOREM TablesKeptBesidePump ==
    Spec => [](QuotaHolds /\ NeverStranded /\ SlotMatchesSpec /\ TickFireIsCurrent
               /\ DormantUnarmed)
<1>1. PumpInv => QuotaHolds /\ NeverStranded /\ SlotMatchesSpec /\ TickFireIsCurrent
                 /\ DormantUnarmed
  BY DEF PumpInv, TableInv, RowInv
<1>. QED  BY <1>1, PumpInvariant, PTL

\* The caps of the pump: at most PerOwner attempts of an owner and GlobalCap in all are in
\* flight, and one per schedule, whatever ends, panics or crashes.
CapsHold ==
    /\ Cardinality(pump.tasks) <= GlobalCap
    /\ \A o \in Owners : Cardinality(InFlight(pump.tasks, o)) <= PerOwner
    /\ \A t, u \in pump.tasks : t.d.id = u.d.id => t = u

THEOREM CapsKept == Spec => []CapsHold
<1>1. PumpInv => CapsHold
  BY DEF PumpInv, TasksInv, TasksOK, CapsHold
<1>. QED  BY <1>1, PumpInvariant, PTL

\* One outstanding fire per source, and one row per fire: record_fire_in supersedes what a
\* source has open, and a late result writes only the row it was spawned for.
OneFirePerSource == OneRowEach(deliv) /\ OneOpenEach(deliv) /\ HasRow

THEOREM OneFireKept == Spec => []OneFirePerSource
<1>1. PumpInv => OneFirePerSource
  BY DEF PumpInv, DelivInv, OneFirePerSource
<1>. QED  BY <1>1, PumpInvariant, PTL

-----------------------------------------------------------------------------
(* The ledger of fires.                                                    *)

\* The fires of the rows of a table that wait for an attempt, and of those given up.
OpenOf(D) == {FireId(d) : d \in {e \in D : Outstanding(e)}}
FailedOf(D) == {FireId(d) : d \in {e \in D : e.status = "failed"}}

LEMMA OpenFacts ==
    ASSUME NEW D
    PROVE  /\ \A f : f \in OpenOf(D) <=> \E d \in D : Outstanding(d) /\ FireId(d) = f
           /\ \A f : f \in FailedOf(D) <=> \E d \in D : d.status = "failed" /\ FireId(d) = f
  BY DEF OpenOf, FailedOf

\* A statement that keeps or retires rows opens no fire and gives none up.
LEMMA KeepsFires ==
    ASSUME NEW D, NEW E, NEW now, Keeps(D, E, now)
    PROVE  OpenOf(E) \subseteq OpenOf(D) /\ FailedOf(E) \subseteq FailedOf(D)
  BY OpenFacts DEF Keeps

\* The statement that records a fire opens it, and closes what its source had open.
LEMMA OpensFires ==
    ASSUME NEW D \in SUBSET Delivery, NEW E, NEW fire \in Delivery, NEW now, Opens(D, E, fire, now)
    PROVE  /\ OpenOf(E) = {g \in OpenOf(D) : <<g[1], g[2]>> # <<fire.trigger, fire.id>>}
                             \cup {FireId(fire)}
           /\ FireId(fire) \notin OpenOf(D)
           /\ FailedOf(E) \subseteq FailedOf(D)
<1>1. /\ \A d \in E \ {fire} : Outstanding(d) => d \in D
      /\ \A d \in E \ {fire} : Outstanding(d) => ~(d.id = fire.id /\ d.trigger = fire.trigger)
      /\ \A d \in D : Outstanding(d) /\ ~(d.id = fire.id /\ d.trigger = fire.trigger) => d \in E
      /\ \A d \in D : FireId(d) # FireId(fire)
      /\ fire \in E /\ Outstanding(fire) /\ fire.status # "failed"
      /\ \A d \in E \ {fire} : d.status = "failed" => d \in D
  BY DEF Opens, Outstanding
<1>2. \A d : FireId(d)[1] = d.trigger /\ FireId(d)[2] = d.id
  BY DEF FireId
<1>3. \A g \in OpenOf(E) :
         \/ g = FireId(fire)
         \/ g \in OpenOf(D) /\ <<g[1], g[2]>> # <<fire.trigger, fire.id>>
  BY <1>1, <1>2, OpenFacts
<1>4. \A g \in OpenOf(D) : <<g[1], g[2]>> # <<fire.trigger, fire.id>> => g \in OpenOf(E)
  BY <1>1, <1>2, OpenFacts
<1>5. FireId(fire) \in OpenOf(E) /\ FireId(fire) \notin OpenOf(D)
  BY <1>1, OpenFacts
<1>6. FailedOf(E) \subseteq FailedOf(D)
  BY <1>1, OpenFacts
<1>. QED  BY <1>3, <1>4, <1>5, <1>6

\* The result of an attempt opens no fire.
LEMMA ApplyFires ==
    ASSUME PumpInv, NEW t \in pump.tasks, ApplyAttempt(t)
    PROVE  OpenOf(deliv') \subseteq OpenOf(deliv)
<1>1. CASE deliv' = deliv
  BY <1>1
<1>2. ASSUME NEW e \in deliv, OutcomeHolds(e, t.d), NEW a, ApplyDeliveryOutcome(e, a, clock)
      PROVE  OpenOf(deliv') \subseteq OpenOf(deliv)
  <2>. DEFINE f == AppliedRow(e, a, clock)
  <2>1. deliv' = (deliv \ {e}) \cup {f}
    BY <1>2 DEF ApplyDeliveryOutcome, AppliedRow
  <2>2. FireId(f) = FireId(e) /\ Outstanding(e)
    <3>1. e \in Delivery
      BY DEF PumpInv, TableInv, TableTypeOK
    <3>. QED  BY <1>2, <3>1 DEF AppliedRow, FireId, Delivery, OutcomeHolds
  <2>. HIDE DEF f
  <2>. QED  BY <2>1, <2>2, OpenFacts
<1>. QED  BY <1>1, <1>2 DEF ApplyAttempt

\* How the fires of the table move in one step.
FiresMove ==
    \/ OpenOf(deliv') \subseteq OpenOf(deliv)
    \/ \E fire \in Delivery : Opens(deliv, deliv', fire, clock') /\ fire.slot \in 0..MaxTime

LEMMA FiresOfAStep ==
    ASSUME PumpInv, [Next]_vars
    PROVE  /\ FiresMove
           /\ closed' = closed \cup (OpenFires \ OpenFires')
<1>1. OpenFires = OpenOf(deliv) /\ OpenFires' = OpenOf(deliv')
  BY DEF OpenFires, OpenOf
<1>2. CASE UNCHANGED <<deliv, closed>>
  BY <1>1, <1>2 DEF FiresMove
<1>3. CASE Table
  <2>1. FiresKept /\ clock' <= MaxTime /\ closed' = closed \cup (OpenFires \ OpenFires')
    BY <1>3, TableStepMoves DEF PumpInv, Table, TableMoves, Recorded
  <2>2. clock' \in Nat /\ MaxTime \in Nat
    BY <1>3, StepKeepsTable, ModuleAssumption DEF PumpInv, Table, TableInv, TableTypeOK, Instant
  <2>3. FiresMove
    <3>1. CASE Keeps(deliv, deliv', clock')
      BY <3>1, KeepsFires DEF FiresMove
    <3>2. ASSUME NEW fire \in Delivery, Opens(deliv, deliv', fire, clock') PROVE FiresMove
      <4>1. fire.slot \in Nat /\ fire.slot <= clock'
        BY <3>2 DEF Delivery, Instant, Opens
      <4>2. fire.slot \in 0..MaxTime
        BY <2>1, <2>2, <4>1
      <4>. QED  BY <3>2, <4>2 DEF FiresMove
    <3>. QED  BY <2>1, <3>1, <3>2 DEF FiresKept
  <2>. QED  BY <2>1, <2>3
<1>4. CASE FetchAndSpawn
  <2>1. Keeps(deliv, deliv', clock)
    BY <1>4, FetchKeeps DEF PumpInv
  <2>. QED  BY <1>4, <2>1, KeepsFires DEF FiresMove, FetchAndSpawn, Recorded
<1>5. ASSUME NEW t \in pump.tasks, ApplyAttempt(t)
      PROVE  FiresMove /\ closed' = closed \cup (OpenFires \ OpenFires')
  BY <1>5, ApplyFires DEF FiresMove, ApplyAttempt, Recorded
<1>6. ASSUME [Next]_vars
      PROVE  \/ UNCHANGED <<deliv, closed>> \/ Table \/ FetchAndSpawn
             \/ \E t \in pump.tasks : ApplyAttempt(t)
  BY DEF Next, vars, tableVars, historyVars, SweepError, Attempts, RunAttempt, ApplyError,
         TickError, FireError, Crash
<1>. QED  BY <1>2, <1>3, <1>4, <1>5, <1>6

\* As long as no closed fire opens again, every step is one of the ledger's.
LEMMA StepOfLedger ==
    ASSUME PumpInv, NeverReopened', [Next]_vars
    PROVE  [Ledger!Next]_(Ledger!ledger)
<1>1. /\ OpenFires = OpenOf(deliv) /\ OpenFires' = OpenOf(deliv')
      /\ closed' = closed \cup (OpenFires \ OpenFires') /\ FiresMove
      /\ OpenFires' \cap closed' = {}
  BY FiresOfAStep DEF OpenFires, OpenOf, NeverReopened
<1>2. CASE OpenFires' \subseteq OpenFires
  <2>. DEFINE F == OpenFires \ OpenFires'
  <2>1. CASE F = {}
    BY <1>1, <1>2, <2>1 DEF Ledger!ledger
  <2>2. CASE F # {}
    <3>1. OpenFires' = OpenFires \ F /\ closed' = closed \cup F /\ F \in SUBSET OpenFires
      BY <1>1, <1>2
    <3>. QED  BY <2>2, <3>1 DEF Ledger!Next, Ledger!Close
  <2>. QED  BY <2>1, <2>2
<1>3. ASSUME NEW fire \in Delivery, Opens(deliv, deliv', fire, clock'), fire.slot \in 0..MaxTime
      PROVE  Ledger!Next
  <2>. DEFINE f == FireId(fire)
              older == {g \in OpenFires : <<g[1], g[2]>> = <<f[1], f[2]>>}
  <2>1. f \in Fires /\ f[1] = fire.trigger /\ f[2] = fire.id
    BY <1>3 DEF FireId, Fires, Delivery
  <2>2. deliv \in SUBSET Delivery
    BY DEF PumpInv, TableInv, TableTypeOK
  <2>3. /\ OpenFires' = {g \in OpenFires : <<g[1], g[2]>> # <<fire.trigger, fire.id>>} \cup {f}
        /\ f \notin OpenFires
    BY <1>1, <1>3, <2>2, OpensFires
  <2>. HIDE DEF f
  <2>4. OpenFires' = (OpenFires \ older) \cup {f}
    BY <2>1, <2>3
  <2>5. closed' = closed \cup older
    BY <1>1, <2>3, <2>4
  <2>6. f \notin OpenFires \cup closed
    BY <1>1, <2>3
  <2>7. Ledger!Open(f)
    BY <2>4, <2>5, <2>6 DEF Ledger!Open
  <2>. QED  BY <2>1, <2>7 DEF Ledger!Next
<1>. QED  BY <1>1, <1>2, <1>3 DEF FiresMove

\* The tables and the pump implement the ledger of fires in every behaviour in which no
\* closed fire opens again: each statement, sweep, supersede, result and delete is one step
\* of it, or none.
LEMMA LedgerImplemented == Spec /\ []NeverReopened => LedgerSpec
<1>1. Init => Ledger!Init
  BY DEF Init, TableInit, OpenFires, Ledger!Init
<1>2. PumpInv /\ NeverReopened' /\ [Next]_vars => [Ledger!Next]_(Ledger!ledger)
  BY StepOfLedger
<1>. QED  BY <1>1, <1>2, PumpInvariant, PTL DEF Spec, LedgerSpec, Ledger!Spec

\* And in no other: the ledger itself opens a fire once.
LEMMA LedgerNeverReopens == LedgerSpec => []NeverReopened
<1>1. Ledger!Init => NeverReopened
  BY DEF Ledger!Init, NeverReopened
<1>2. NeverReopened /\ [Ledger!Next]_(Ledger!ledger) => NeverReopened'
  <2>1. SUFFICES ASSUME NeverReopened, [Ledger!Next]_(Ledger!ledger) PROVE NeverReopened'
    OBVIOUS
  <2>2. ASSUME NEW f \in Fires, Ledger!Open(f) PROVE NeverReopened'
    BY <2>1, <2>2 DEF NeverReopened, Ledger!Open
  <2>3. ASSUME NEW F \in SUBSET OpenFires, Ledger!Close(F) PROVE NeverReopened'
    BY <2>1, <2>3 DEF NeverReopened, Ledger!Close
  <2>4. CASE UNCHANGED Ledger!ledger
    BY <2>1, <2>4 DEF NeverReopened, Ledger!ledger
  <2>. QED  BY <2>1, <2>2, <2>3, <2>4 DEF Ledger!Next
<1>. QED  BY <1>1, <1>2, PTL DEF LedgerSpec, Ledger!Spec

-----------------------------------------------------------------------------
(* Failures are counted once.                                              *)

\* What a step does to the failures: nothing is given up and no count grows, or the last
\* attempt of one fire failed and its schedule counts it.
CountStays ==
    /\ FailedOf(deliv') \subseteq FailedOf(deliv)
    /\ CountKept

CountGrows ==
    \E e \in deliv :
        /\ Outstanding(e)
        /\ FailedOf(deliv') \subseteq FailedOf(deliv) \cup {FireId(e)}
        /\ FireId(e) \in FailedOf(deliv') /\ FireId(e) \notin OpenOf(deliv')
        /\ \A id \in Ids \ {e.id} : rows'[id] = rows[id]
        /\ Exists(e.id) /\ rows'[e.id] = CountFailure(rows[e.id])

\* No row changes, or one is reset.
LEMMA CountSame ==
    ASSUME TableTypeOK, UNCHANGED rows
    PROVE  CountKept
<1>1. \A id \in Ids : Exists(id) => rows[id].failures \in Nat
  BY RowFacts DEF TableTypeOK, Exists
<1>. QED  BY <1>1 DEF CountKept, Exists

LEMMA ApplyCounts ==
    ASSUME PumpInv, NEW t \in pump.tasks, ApplyAttempt(t)
    PROVE  CountStays \/ CountGrows
<1>. DEFINE a == ApplyOutcome(t.d.status, t.d.attempts, t.outcome, clock)
<1>1. /\ deliv \in SUBSET Delivery /\ clock \in Nat /\ TableTypeOK /\ OneRowEach(deliv)
      /\ rows \in [Ids -> Row \cup {NULL}]
      /\ \A d \in deliv : d.id \in Ids /\ d.slot <= clock /\ (Outstanding(d) => Exists(d.id))
  BY DEF PumpInv, TableInv, TableTypeOK, Instant, DelivInv, HasRow, FireOK, Delivery
<1>2. /\ t \in Attempt /\ t.outcome # NULL /\ Outstanding(t.d) /\ t.d.attempts < MaxSent
      /\ t.d.status \in {"pending", "deferred"} /\ t.d.attempts \in Nat /\ t.outcome \in Outcome
  <2>1. t \in Attempt /\ t.outcome # NULL /\ Outstanding(t.d) /\ t.d.attempts < MaxSent
    BY PumpFacts DEF PumpInv, TasksInv, TasksOK, FireOK, ApplyAttempt
  <2>. QED  BY <2>1 DEF Attempt, Delivery, Outstanding
<1>3. CASE UNCHANGED <<rows, deliv>>
  BY <1>1, <1>3, CountSame DEF CountStays
<1>4. ASSUME NEW e \in deliv, OutcomeHolds(e, t.d), a # NULL, ApplyDeliveryOutcome(e, a, clock)
      PROVE  CountStays \/ CountGrows
  <2>. DEFINE f == AppliedRow(e, a, clock)
  <2>1. a = ApplyOutcome(t.d.status, t.d.attempts, t.outcome, clock) /\ a # NULL
    BY <1>4
  <2>2. /\ deliv' = (deliv \ {e}) \cup {f}
        /\ rows' = CASE a.resets -> [rows EXCEPT ![e.id].failures = 0]
                      [] a.counts -> [rows EXCEPT ![e.id] = CountFailure(@)]
                      [] OTHER    -> rows
    BY <1>4 DEF ApplyDeliveryOutcome, AppliedRow
  <2>. HIDE DEF a
  <2>3. f = AppliedRow(e, a, clock)
    OBVIOUS
  <2>. HIDE DEF f
  <2>4. /\ FireId(f) = FireId(e) /\ f.status = a.status /\ Outstanding(e) /\ e.id \in Ids
        /\ Exists(e.id) /\ rows[e.id] \in Row
    <3>1. OutcomeHolds(e, t.d) /\ e \in Delivery /\ e.slot <= clock
      BY <1>1, <1>4
    <3>2. FireId(f) = FireId(e) /\ f.status = a.status
      BY <1>1, <1>2, <2>1, <2>3, <3>1, AppliedFacts
    <3>. QED  BY <1>1, <3>1, <3>2 DEF OutcomeHolds, Exists
  <2>5. /\ a.status \in {"pending", "deferred", "delivered", "failed"}
        /\ a.counts <=> a.status = "failed"
        /\ a.resets => a.status = "delivered"
    BY <1>1, <1>2, <2>1, OutcomeFacts
  <2>6. \A d \in deliv \ {e} : FireId(d) # FireId(e)
    BY <1>1 DEF OneRowEach
  <2>7. CASE a.status = "failed"
    <3>1. rows' = [rows EXCEPT ![e.id] = CountFailure(rows[e.id])]
      BY <2>2, <2>5, <2>7
    <3>2. /\ \A id \in Ids \ {e.id} : rows'[id] = rows[id]
          /\ rows'[e.id] = CountFailure(rows[e.id])
      BY <1>1, <2>4, <3>1
    <3>3. /\ FailedOf(deliv') \subseteq FailedOf(deliv) \cup {FireId(e)}
          /\ FireId(e) \in FailedOf(deliv')
      BY <2>2, <2>4, <2>7, OpenFacts
    <3>4. FireId(e) \notin OpenOf(deliv')
      <4>1. ~Outstanding(f)
        BY <2>4, <2>7 DEF Outstanding
      <4>. QED  BY <2>2, <2>6, <4>1, OpenFacts
    <3>. QED  BY <2>4, <3>2, <3>3, <3>4 DEF CountGrows
  <2>8. CASE a.status # "failed"
    <3>1. FailedOf(deliv') \subseteq FailedOf(deliv)
      BY <2>2, <2>4, <2>8, OpenFacts
    <3>2. CountKept
      <4>1. CASE rows' = rows
        BY <1>1, <4>1, CountSame
      <4>2. CASE rows' = [rows EXCEPT ![e.id].failures = 0]
        <5>. DEFINE row == [rows[e.id] EXCEPT !.failures = 0]
        <5>1. rows' = [rows EXCEPT ![e.id] = row]
          BY <4>2
        <5>2. row.failures <= rows[e.id].failures /\ (row.sys => rows[e.id].sys)
          BY <2>4, RowFacts DEF Row
        <5>. HIDE DEF row
        <5>. QED  BY <1>1, <2>4, <5>1, <5>2, OneCounts
      <4>. QED  BY <2>2, <2>5, <2>8, <4>1, <4>2
    <3>. QED  BY <3>1, <3>2 DEF CountStays
  <2>. QED  BY <2>7, <2>8
<1>. QED  BY <1>3, <1>4 DEF ApplyAttempt

LEMMA CountsOfAStep ==
    ASSUME PumpInv, [Next]_vars
    PROVE  /\ CountStays \/ CountGrows
           /\ \/ gaveUp' = gaveUp \cup FailedOf(deliv')
              \/ UNCHANGED <<gaveUp, deliv>>
<1>1. TableTypeOK /\ GivenUp' = FailedOf(deliv')
  BY DEF PumpInv, TableInv, GivenUp, FailedOf
<1>2. CASE UNCHANGED <<rows, deliv, gaveUp>>
  BY <1>1, <1>2, CountSame DEF CountStays
<1>3. CASE Table
  <2>1. CountKept /\ FiresKept /\ gaveUp' = gaveUp \cup FailedOf(deliv')
    BY <1>1, <1>3, TableStepMoves DEF PumpInv, Table, TableMoves, Recorded
  <2>2. deliv \in SUBSET Delivery
    BY <1>1 DEF TableTypeOK
  <2>3. FailedOf(deliv') \subseteq FailedOf(deliv)
    BY <2>1, <2>2, KeepsFires, OpensFires DEF FiresKept
  <2>. QED  BY <2>1, <2>3 DEF CountStays
<1>4. CASE FetchAndSpawn
  <2>1. Keeps(deliv, deliv', clock)
    BY <1>4, FetchKeeps DEF PumpInv
  <2>2. UNCHANGED rows /\ gaveUp' = gaveUp \cup FailedOf(deliv')
    BY <1>1, <1>4 DEF FetchAndSpawn, Recorded
  <2>. QED  BY <1>1, <2>1, <2>2, KeepsFires, CountSame DEF CountStays
<1>5. ASSUME NEW t \in pump.tasks, ApplyAttempt(t)
      PROVE  (CountStays \/ CountGrows) /\ gaveUp' = gaveUp \cup FailedOf(deliv')
  <2>1. gaveUp' = gaveUp \cup FailedOf(deliv')
    BY <1>1, <1>5 DEF ApplyAttempt, Recorded
  <2>. QED  BY <1>5, <2>1, ApplyCounts
<1>6. \/ UNCHANGED <<rows, deliv, gaveUp>> \/ Table \/ FetchAndSpawn
      \/ \E t \in pump.tasks : ApplyAttempt(t)
  BY DEF Next, vars, tableVars, historyVars, SweepError, Attempts, RunAttempt, ApplyError,
         TickError, FireError, Crash
<1>. QED  BY <1>2, <1>3, <1>4, <1>5, <1>6

\* The fires a schedule has given up are finitely many.
LEMMA FailedFacts ==
    ASSUME FailInv, NEW id
    PROVE  IsFiniteSet(Failed(id)) /\ Cardinality(Failed(id)) \in Nat
<1>1. IsFiniteSet(Failed(id))
  BY FS_Subset DEF FailInv, Failed
<1>. QED  BY <1>1, FS_CardinalityType

\* A failure adds a fire that was not given up before: while its row was outstanding the
\* fire was not closed.
LEMMA FailInvKeeps ==
    ASSUME PumpInv, FailInv, NeverReopened, [Next]_vars
    PROVE  FailInv'
<1>1. /\ OpenFires = OpenOf(deliv) /\ OpenFires' = OpenOf(deliv')
      /\ GivenUp = FailedOf(deliv) /\ GivenUp' = FailedOf(deliv')
      /\ closed' = closed \cup (OpenFires \ OpenFires')
      /\ OpenFires \cap closed = {} /\ gaveUp \subseteq closed /\ FailedOf(deliv) \subseteq gaveUp
      /\ IsFiniteSet(gaveUp)
  BY FiresOfAStep DEF OpenFires, OpenOf, GivenUp, FailedOf, NeverReopened, FailInv
<1>2. \/ gaveUp' = gaveUp \cup FailedOf(deliv')
      \/ UNCHANGED <<gaveUp, deliv>>
  BY CountsOfAStep
<1>3. MaxFailures \in Nat /\ \A id \in Ids : Exists(id) => rows[id] \in Row
  BY PumpAssumption DEF PumpInv, TableInv, TableTypeOK, Exists
<1>4. CASE CountStays
  <2>1. gaveUp' = gaveUp
    BY <1>1, <1>2, <1>4 DEF CountStays
  <2>2. gaveUp' \subseteq closed' /\ FailedOf(deliv') \subseteq gaveUp'
    BY <1>1, <1>4, <2>1 DEF CountStays
  <2>3. ASSUME NEW id \in Ids, Exists(id)'
        PROVE  /\ rows'[id].failures <= Cardinality(Failed(id))
               /\ rows'[id].sys => MaxFailures <= Cardinality(Failed(id))
    <3>1. Cardinality(Failed(id)) \in Nat
      BY FailedFacts
    <3>2. CASE Exists(id) /\ rows'[id].failures <= rows[id].failures
               /\ (rows'[id].sys => rows[id].sys)
      <4>1. rows[id].failures \in Nat
        BY <1>3, <3>2, RowFacts
      <4>2. rows[id].failures <= Cardinality(Failed(id))
            /\ (rows[id].sys => MaxFailures <= Cardinality(Failed(id)))
        BY <3>2 DEF FailInv
      <4>3. rows'[id].failures \in Nat
        BY <2>3, StepKeepsPump, RowFacts DEF PumpInv, TableInv, TableTypeOK, Exists
      <4>. QED  BY <3>1, <3>2, <4>1, <4>2, <4>3
    <3>3. CASE rows'[id].failures = 0 /\ ~rows'[id].sys
      BY <3>1, <3>3
    <3>. QED  BY <1>4, <2>3, <3>2, <3>3 DEF CountStays, CountKept
  <2>4. \A id : Failed(id)' = Failed(id)
    BY <2>1 DEF Failed
  <2>. QED  BY <1>1, <2>1, <2>2, <2>3, <2>4 DEF FailInv
<1>5. CASE CountGrows
  <2>1. PICK e \in deliv :
          /\ Outstanding(e)
          /\ FailedOf(deliv') \subseteq FailedOf(deliv) \cup {FireId(e)}
          /\ FireId(e) \in FailedOf(deliv') /\ FireId(e) \notin OpenOf(deliv')
          /\ \A id \in Ids \ {e.id} : rows'[id] = rows[id]
          /\ Exists(e.id) /\ rows'[e.id] = CountFailure(rows[e.id])
    BY <1>5 DEF CountGrows
  <2>2. FireId(e) \in OpenFires /\ FireId(e)[2] = e.id /\ e.id \in Ids
    BY <1>1, <2>1, OpenFacts DEF FireId, PumpInv, TableInv, TableTypeOK, Delivery
  <2>3. FireId(e) \notin gaveUp
    BY <1>1, <2>2
  <2>4. gaveUp' = gaveUp \cup {FireId(e)}
    BY <1>1, <1>2, <2>1, <2>3
  <2>5. /\ IsFiniteSet(gaveUp') /\ gaveUp' \subseteq closed' /\ FailedOf(deliv') \subseteq gaveUp'
    BY <1>1, <2>1, <2>2, <2>4, FS_AddElement
  <2>6. /\ \A id \in Ids \ {e.id} : Failed(id)' = Failed(id)
        /\ Failed(e.id)' = Failed(e.id) \cup {FireId(e)} /\ FireId(e) \notin Failed(e.id)
    BY <2>2, <2>3, <2>4 DEF Failed
  <2>7. ASSUME NEW id \in Ids, Exists(id)'
        PROVE  /\ rows'[id].failures <= Cardinality(Failed(id)')
               /\ rows'[id].sys => MaxFailures <= Cardinality(Failed(id)')
    <3>1. CASE id # e.id
      BY <2>1, <2>6, <2>7, <3>1 DEF FailInv, Exists
    <3>2. CASE id = e.id
      <4>1. IsFiniteSet(Failed(id)) /\ Cardinality(Failed(id)) \in Nat
        BY FailedFacts
      <4>2. Cardinality(Failed(id)') = Cardinality(Failed(id)) + 1
        BY <2>6, <3>2, <4>1, FS_AddElement
      <4>3. rows[id] \in Row /\ rows[id].failures \in Nat
        BY <1>3, <2>1, <3>2, RowFacts
      <4>4. /\ rows'[id].failures = rows[id].failures + 1
            /\ rows'[id].sys => rows[id].sys \/ rows[id].failures + 1 >= MaxFailures
        BY <2>1, <3>2, <4>3 DEF CountFailure, Row
      <4>5. rows[id].failures <= Cardinality(Failed(id))
            /\ (rows[id].sys => MaxFailures <= Cardinality(Failed(id)))
        BY <2>1, <3>2 DEF FailInv
      <4>. QED  BY <1>3, <4>1, <4>2, <4>3, <4>4, <4>5
    <3>. QED  BY <3>1, <3>2
  <2>. QED  BY <1>1, <2>5, <2>7 DEF FailInv
<1>. QED  BY <1>4, <1>5, CountsOfAStep

\* A schedule the kernel disabled has MaxFailures fires that failed for good, in every
\* behaviour that keeps the ledger.
LEMMA DisableEarnedOnLedger == Spec /\ LedgerSpec => []SystemDisableEarned
<1>1. Init => FailInv
  <2>1. SUFFICES ASSUME Init PROVE FailInv
    OBVIOUS
  <2>. QED  BY <2>1, FS_EmptySet DEF Init, TableInit, FailInv, GivenUp, Exists
<1>2. PumpInv /\ FailInv /\ NeverReopened /\ [Next]_vars => FailInv'
  BY FailInvKeeps
<1>3. FailInv => SystemDisableEarned
  <2>1. SUFFICES ASSUME FailInv, NEW id \in Ids, Exists(id), rows[id].sys
                 PROVE  Cardinality({f \in gaveUp : f[2] = id}) >= MaxFailures
    BY DEF SystemDisableEarned
  <2>. QED  BY <2>1, FailedFacts, PumpAssumption DEF FailInv, Failed
<1>. QED  BY <1>1, <1>2, <1>3, PumpInvariant, LedgerNeverReopens, PTL DEF Spec


-----------------------------------------------------------------------------
(* Requests are bounded.                                                   *)

\* An attempt and a row carry a fire within the horizon; two attempts never carry one.
LEMMA FiresCarried ==
    ASSUME PumpInv
    PROVE  /\ \A d \in deliv : FireId(d) \in Fires /\ d.attempts \in Nat
           /\ \A t \in pump.tasks : /\ t \in Attempt /\ FireId(t.d) \in Fires
                                    /\ t.d.attempts \in Nat /\ t.d.attempts < MaxSent
                                    /\ t.d.id \in pump.busy
           /\ \A t, u \in pump.tasks : FireId(t.d) = FireId(u.d) => t = u
           /\ \A d, e : FireId(d) = FireId(e) => d.id = e.id
           /\ MaxSent \in Nat /\ faults \in Nat
<1>1. /\ deliv \subseteq Delivery /\ clock \in Nat /\ clock <= MaxTime /\ MaxTime \in Nat
      /\ \A d \in deliv : d.slot <= clock
  BY ModuleAssumption DEF PumpInv, TableInv, TableTypeOK, DelivInv, FireOK, Instant
<1>2. /\ pump.tasks \subseteq Attempt /\ pump.busy = {t.d.id : t \in pump.tasks}
      /\ \A t \in pump.tasks : t.d.slot <= clock /\ t.d.attempts < MaxSent
      /\ \A t, u \in pump.tasks : t.d.id = u.d.id => t = u
  BY PumpFacts DEF PumpInv, TasksInv, TasksOK, FireOK
<1>3. ASSUME NEW d \in Delivery, d.slot <= clock
      PROVE  FireId(d) \in Fires /\ d.attempts \in Nat
  <2>1. d.slot \in 0..MaxTime
    BY <1>1, <1>3 DEF Delivery, Instant
  <2>. QED  BY <2>1 DEF FireId, Fires, Delivery
<1>4. \A d, e : FireId(d) = FireId(e) => d.id = e.id
  BY DEF FireId
<1>5. MaxSent \in Nat /\ faults \in Nat
  BY DeliveryAssumption DEF PumpInv, TasksInv
<1>6. \A t \in pump.tasks : t.d \in Delivery
  BY <1>2 DEF Attempt
<1>7. \A t \in pump.tasks : FireId(t.d) \in Fires /\ t.d.attempts \in Nat
  BY <1>2, <1>3, <1>6
<1>. QED  BY <1>1, <1>2, <1>3, <1>4, <1>5, <1>7

LEMMA FiresCarriedNext ==
    ASSUME PumpInv'
    PROVE  \A d \in deliv' : FireId(d) \in Fires /\ d.attempts \in Nat
<1>1. /\ deliv' \subseteq Delivery /\ clock' \in Nat /\ clock' <= MaxTime /\ MaxTime \in Nat
      /\ \A d \in deliv' : d.slot <= clock'
  BY ModuleAssumption DEF PumpInv, TableInv, TableTypeOK, DelivInv, FireOK, Instant
<1>2. ASSUME NEW d \in deliv' PROVE FireId(d) \in Fires /\ d.attempts \in Nat
  <2>1. d.slot \in 0..MaxTime
    BY <1>1 DEF Delivery, Instant
  <2>. QED  BY <1>1, <2>1 DEF FireId, Fires, Delivery
<1>. QED  BY <1>2

\* The rows outstanding after a step that applies no result: old ones, and that of a fire
\* that never was open.
NewOrKept ==
    \A d \in deliv' :
        Outstanding(d) => \/ d \in deliv
                          \/ d.attempts = 0 /\ FireId(d) \notin OpenFires \cup closed

LEMMA RowsMove ==
    ASSUME PumpInv, FiresKept, NeverReopened', closed' = closed \cup (OpenFires \ OpenFires')
    PROVE  NewOrKept
<1>1. CASE Keeps(deliv, deliv', clock')
  BY <1>1 DEF Keeps, NewOrKept
<1>2. ASSUME NEW fire \in Delivery, Opens(deliv, deliv', fire, clock')
      PROVE  NewOrKept
  <2>1. OpenFires = OpenOf(deliv) /\ OpenFires' = OpenOf(deliv')
    BY DEF OpenFires, OpenOf
  <2>2. FireId(fire) \notin OpenFires /\ FireId(fire) \in OpenFires'
    <3>1. deliv \in SUBSET Delivery
      BY DEF PumpInv, TableInv, TableTypeOK
    <3>. QED  BY <1>2, <2>1, <3>1, OpensFires
  <2>3. FireId(fire) \notin closed
    BY <2>2 DEF NeverReopened
  <2>. QED  BY <1>2, <2>2, <2>3 DEF Opens, NewOrKept
<1>. QED  BY <1>1, <1>2 DEF FiresKept

\* A fire that was ever open stays open or closed.
LEMMA FiresRemembered ==
    ASSUME PumpInv, [Next]_vars
    PROVE  OpenFires \cup closed \subseteq OpenFires' \cup closed'
  BY FiresOfAStep

\* The tables move, or the pump fails to sweep: no request, no attempt.
LEMMA QuietSends ==
    ASSUME PumpInv, SendsInv, PumpInv', [Next]_vars, NewOrKept,
           pump'.tasks = pump.tasks, sends' = sends, faults' >= faults
    PROVE  SendsInv'
<1>1. OpenFires \cup closed \subseteq OpenFires' \cup closed'
  BY FiresRemembered
<1>2. faults \in Nat /\ faults' \in Nat /\ MaxSent \in Nat /\ sends \in [Fires -> Nat]
  BY FiresCarried, DeliveryAssumption DEF PumpInv, TasksInv, SendsInv
<1>3. \A f \in Fires : sends'[f] <= MaxSent + faults'
  BY <1>2 DEF SendsInv
<1>4. \A t \in pump'.tasks : sends'[FireId(t.d)] <= Charged(t) + faults'
  <2>1. \A t \in pump.tasks : Charged(t) \in Nat /\ sends[FireId(t.d)] \in Nat
    BY <1>2, FiresCarried DEF Charged
  <2>. QED  BY <1>2, <2>1 DEF SendsInv
<1>5. ASSUME NEW d \in deliv', Outstanding(d)
      PROVE  /\ \/ sends'[FireId(d)] <= d.attempts + faults'
                \/ \E t \in pump'.tasks : FireId(t.d) = FireId(d)
             /\ \A t \in pump'.tasks : FireId(t.d) = FireId(d) => t.d.attempts = d.attempts
  <2>1. CASE d \in deliv
    <3>1. d.attempts \in Nat /\ sends[FireId(d)] \in Nat
      BY <1>2, <2>1, FiresCarried
    <3>2. /\ \/ sends[FireId(d)] <= d.attempts + faults
             \/ \E t \in pump.tasks : FireId(t.d) = FireId(d)
          /\ \A t \in pump.tasks : FireId(t.d) = FireId(d) => t.d.attempts = d.attempts
      BY <1>5, <2>1 DEF SendsInv
    <3>. QED  BY <1>2, <3>1, <3>2
  <2>2. CASE d.attempts = 0 /\ FireId(d) \notin OpenFires \cup closed
    <3>1. FireId(d) \in Fires
      BY <1>5, FiresCarriedNext
    <3>2. sends[FireId(d)] = 0 /\ \A t \in pump.tasks : FireId(t.d) # FireId(d)
      BY <2>2, <3>1 DEF SendsInv
    <3>3. sends'[FireId(d)] = 0
      BY <3>2, Zenon
    <3>4. d.attempts \in Nat
      BY <1>5, FiresCarriedNext
    <3>5. sends'[FireId(d)] <= d.attempts + faults'
      BY <1>2, <3>3, <3>4
    <3>6. \A t \in pump'.tasks : FireId(t.d) # FireId(d)
      BY <3>2
    <3>. QED  BY <3>5, <3>6
  <2>. QED  BY <1>5, <2>1, <2>2 DEF NewOrKept
<1>6. \A f \in Fires \ (OpenFires' \cup closed') :
         sends'[f] = 0 /\ \A t \in pump'.tasks : FireId(t.d) # f
  BY <1>1 DEF SendsInv
<1>. QED  BY <1>2, <1>3, <1>4, <1>5, <1>6 DEF SendsInv


\* One wake of the loop: an attempt begins with what its row counts.
LEMMA FetchSends ==
    ASSUME PumpInv, SendsInv, PumpInv', [Next]_vars, FetchAndSpawn
    PROVE  SendsInv'
<1>1. OpenFires \cup closed \subseteq OpenFires' \cup closed'
  BY FiresRemembered
<1>2. Keeps(deliv, deliv', clock) /\ sends' = sends /\ faults' = faults
  BY FetchKeeps DEF PumpInv, FetchAndSpawn
<1>3. \A d \in deliv' : Outstanding(d) => d \in deliv
  BY <1>2 DEF Keeps
<1>4. PICK C \in SUBSET deliv' : /\ pump'.tasks = pump.tasks \cup Begun(C)
                                 /\ \A d \in C : Outstanding(d) /\ d.id \notin pump.busy
  BY FetchKeeps DEF PumpInv
<1>5. \A t \in pump'.tasks :
         \/ t \in pump.tasks
         \/ \E d \in C : t.d = d /\ t.outcome = NULL
  <2>1. \A t \in Begun(C) : \E d \in C : t.d = d /\ t.outcome = NULL
    BY BegunFacts
  <2>. QED  BY <1>4, <2>1
<1>6. \A t \in pump.tasks, d \in C : FireId(t.d) # FireId(d)
  BY <1>4, FiresCarried
<1>7. \A t \in pump'.tasks : sends'[FireId(t.d)] <= Charged(t) + faults'
  <2>1. SUFFICES ASSUME NEW t \in pump'.tasks PROVE sends[FireId(t.d)] <= Charged(t) + faults
    BY <1>2
  <2>2. CASE t \in pump.tasks
    BY <2>2 DEF SendsInv
  <2>3. ASSUME NEW d \in C, t.d = d, t.outcome = NULL
        PROVE  sends[FireId(t.d)] <= Charged(t) + faults
    <3>1. d \in deliv /\ Outstanding(d)
      BY <1>3, <1>4
    <3>2. sends[FireId(d)] <= d.attempts + faults
      BY <1>6, <3>1 DEF SendsInv
    <3>3. Charged(t) = d.attempts
      BY <2>3, <3>1, FiresCarried DEF Charged, Sent
    <3>. QED  BY <2>3, <3>2, <3>3
  <2>. QED  BY <1>5, <2>2, <2>3
<1>8. \A d \in deliv' :
         Outstanding(d) => \/ sends'[FireId(d)] <= d.attempts + faults'
                           \/ \E t \in pump'.tasks : FireId(t.d) = FireId(d)
  BY <1>2, <1>3, <1>4 DEF SendsInv
<1>9. \A d \in deliv', t \in pump'.tasks :
         Outstanding(d) /\ FireId(t.d) = FireId(d) => t.d.attempts = d.attempts
  <2>1. SUFFICES ASSUME NEW d \in deliv', NEW t \in pump'.tasks, Outstanding(d),
                        FireId(t.d) = FireId(d)
                 PROVE  t.d.attempts = d.attempts
    OBVIOUS
  <2>2. CASE t \in pump.tasks
    BY <1>3, <2>1, <2>2 DEF SendsInv
  <2>3. ASSUME NEW e \in C, t.d = e PROVE t.d = d
    BY <1>2, <2>1, <2>3 DEF Keeps, OneRowEach
  <2>. QED  BY <1>5, <2>2, <2>3
<1>10. \A f \in Fires \ (OpenFires' \cup closed') :
          sends'[f] = 0 /\ \A t \in pump'.tasks : FireId(t.d) # f
  <2>1. SUFFICES ASSUME NEW f \in Fires, f \notin OpenFires' \cup closed'
                 PROVE  sends[f] = 0 /\ \A t \in pump'.tasks : FireId(t.d) # f
    BY <1>2
  <2>2. sends[f] = 0 /\ \A t \in pump.tasks : FireId(t.d) # f
    BY <1>1, <2>1 DEF SendsInv
  <2>3. \A d \in C : FireId(d) # f
    BY <1>4, <2>1 DEF OpenFires
  <2>. QED  BY <1>5, <2>2, <2>3
<1>11. sends' \in [Fires -> Nat] /\ \A f \in Fires : sends'[f] <= MaxSent + faults'
  BY <1>2 DEF SendsInv
<1>. QED  BY <1>7, <1>8, <1>9, <1>10, <1>11 DEF SendsInv

\* An attempt ends: it sent its request, or was deferred.
LEMMA RunSends ==
    ASSUME PumpInv, SendsInv, PumpInv', [Next]_vars,
           NEW t \in pump.tasks, NEW outcome \in Outcome, RunAttempt(t, outcome)
    PROVE  SendsInv'
<1>. DEFINE u == [t EXCEPT !.outcome = outcome]
            g == FireId(t.d)
            sent == IF outcome = "deferred" THEN 0 ELSE 1
<1>1. /\ t \in Attempt /\ g \in Fires /\ t.d.attempts \in Nat /\ t.d.attempts < MaxSent
      /\ t.outcome = NULL /\ outcome # NULL /\ MaxSent \in Nat /\ faults \in Nat
      /\ sends \in [Fires -> Nat] /\ pump \in Pump
  BY FiresCarried, PumpAssumption DEF SendsInv, RunAttempt, PumpInv, TasksInv, TasksOK
<1>2. /\ pump'.tasks = (pump.tasks \ {t}) \cup {u}
      /\ sends' = IF outcome = "deferred" THEN sends ELSE [sends EXCEPT ![g] = @ + 1]
      /\ deliv' = deliv /\ closed' = closed /\ faults' = faults
  BY <1>1 DEF RunAttempt, tableVars, Pump
<1>3. u.d = t.d /\ u.outcome = outcome
  BY <1>1 DEF Attempt
<1>4. /\ sends' \in [Fires -> Nat] /\ sends'[g] = sends[g] + sent
      /\ \A f \in Fires \ {g} : sends'[f] = sends[f]
  BY <1>1, <1>2
<1>5. Charged(t) = t.d.attempts /\ Charged(u) = t.d.attempts + sent
  BY <1>1, <1>3 DEF Charged, Sent
<1>. HIDE DEF u
<1>6. sends[g] <= t.d.attempts + faults /\ sends[g] \in Nat
  BY <1>1, <1>5 DEF SendsInv
<1>7. \A f \in Fires : sends'[f] <= MaxSent + faults'
  <2>1. sends'[g] <= MaxSent + faults'
    BY <1>1, <1>2, <1>4, <1>6
  <2>. QED  BY <1>2, <1>4, <2>1 DEF SendsInv
<1>8. \A v \in pump'.tasks : sends'[FireId(v.d)] <= Charged(v) + faults'
  <2>1. sends'[FireId(u.d)] <= Charged(u) + faults'
    BY <1>1, <1>2, <1>3, <1>4, <1>5, <1>6
  <2>2. ASSUME NEW v \in pump.tasks, v # t PROVE sends'[FireId(v.d)] <= Charged(v) + faults'
    <3>1. FireId(v.d) \in Fires \ {g}
      BY <2>2, FiresCarried
    <3>. QED  BY <1>2, <1>4, <3>1 DEF SendsInv
  <2>. QED  BY <1>2, <2>1, <2>2
<1>9. \A d \in deliv' :
         Outstanding(d) => \/ sends'[FireId(d)] <= d.attempts + faults'
                           \/ \E v \in pump'.tasks : FireId(v.d) = FireId(d)
  <2>1. SUFFICES ASSUME NEW d \in deliv, Outstanding(d), FireId(d) # g
                 PROVE  \/ sends'[FireId(d)] <= d.attempts + faults'
                        \/ \E v \in pump'.tasks : FireId(v.d) = FireId(d)
    BY <1>2, <1>3
  <2>2. sends'[FireId(d)] = sends[FireId(d)]
    BY <1>4, <2>1, FiresCarried
  <2>. QED  BY <1>2, <2>1, <2>2 DEF SendsInv
<1>10. \A d \in deliv', v \in pump'.tasks :
          Outstanding(d) /\ FireId(v.d) = FireId(d) => v.d.attempts = d.attempts
  BY <1>2, <1>3 DEF SendsInv
<1>11. \A f \in Fires \ (OpenFires' \cup closed') :
          sends'[f] = 0 /\ \A v \in pump'.tasks : FireId(v.d) # f
  <2>1. SUFFICES ASSUME NEW f \in Fires, f \notin OpenFires \cup closed
                 PROVE  sends'[f] = 0 /\ \A v \in pump'.tasks : FireId(v.d) # f
    BY <1>2 DEF OpenFires
  <2>2. sends[f] = 0 /\ \A v \in pump.tasks : FireId(v.d) # f
    BY <2>1 DEF SendsInv
  <2>. QED  BY <1>2, <1>3, <1>4, <2>2
<1>. QED  BY <1>4, <1>7, <1>8, <1>9, <1>10, <1>11 DEF SendsInv


\* The task of an attempt whose result is applied, or lost, leaves the join set.
LEMMA ApplyTasks ==
    ASSUME PumpInv, NEW t \in pump.tasks, ApplyAttempt(t) \/ ApplyError(t)
    PROVE  pump'.tasks = pump.tasks \ {t}
<1>1. pump \in Pump
  BY DEF PumpInv, TasksInv, TasksOK
<1>2. EndAttempt(pump, t, clock).tasks = pump.tasks \ {t}
  BY <1>1 DEF EndAttempt, ReleaseSlot, Pump
<1>3. \A r : [EndAttempt(pump, t, clock) EXCEPT !.retry[t.d.id] = r].tasks
             = pump.tasks \ {t}
  BY <1>1, <1>2 DEF EndAttempt, ReleaseSlot, Pump
<1>. QED  BY <1>2, <1>3 DEF ApplyAttempt, ApplyError

\* The result of an attempt is written, or its row is gone.
LEMMA ApplySends ==
    ASSUME PumpInv, SendsInv, PumpInv', [Next]_vars,
           NEW t \in pump.tasks, ApplyAttempt(t)
    PROVE  SendsInv'
<1>. DEFINE a == ApplyOutcome(t.d.status, t.d.attempts, t.outcome, clock)
            g == FireId(t.d)
<1>1. /\ t \in Attempt /\ g \in Fires /\ t.d.attempts \in Nat /\ t.d.attempts < MaxSent
      /\ t.outcome \in Outcome /\ t.outcome # NULL /\ MaxSent \in Nat /\ faults \in Nat
      /\ sends \in [Fires -> Nat] /\ clock \in Nat
      /\ deliv \subseteq Delivery /\ OneRowEach(deliv)
      /\ \A d \in deliv : FireOK(d, clock)
      /\ t.d.status \in {"pending", "deferred"} /\ Outstanding(t.d)
  <2>1. /\ t \in Attempt /\ g \in Fires /\ t.d.attempts \in Nat /\ t.d.attempts < MaxSent
        /\ MaxSent \in Nat /\ faults \in Nat
    BY FiresCarried
  <2>2. sends \in [Fires -> Nat] /\ t.outcome # NULL
    BY DEF SendsInv, ApplyAttempt
  <2>3. clock \in Nat /\ deliv \subseteq Delivery /\ OneRowEach(deliv)
        /\ \A d \in deliv : FireOK(d, clock)
    BY DEF PumpInv, TableInv, TableTypeOK, Instant, DelivInv
  <2>4. Outstanding(t.d)
    BY DEF PumpInv, TasksInv, TasksOK
  <2>5. t.outcome \in Outcome
    BY <2>1, <2>2 DEF Attempt
  <2>. QED  BY <2>1, <2>2, <2>3, <2>4, <2>5 DEF Outstanding
<1>2. pump'.tasks = pump.tasks \ {t} /\ sends' = sends /\ faults' = faults
  BY ApplyTasks DEF ApplyAttempt
<1>3. OpenFires \cup closed \subseteq OpenFires' \cup closed'
  BY FiresRemembered
<1>4. \A v \in pump'.tasks : v \in pump.tasks /\ FireId(v.d) # g
  BY <1>2, FiresCarried
<1>5. /\ sends' \in [Fires -> Nat]
      /\ \A f \in Fires : sends'[f] <= MaxSent + faults'
      /\ \A v \in pump'.tasks : sends'[FireId(v.d)] <= Charged(v) + faults'
      /\ \A f \in Fires \ (OpenFires' \cup closed') :
            sends'[f] = 0 /\ \A v \in pump'.tasks : FireId(v.d) # f
  BY <1>1, <1>2, <1>3, <1>4 DEF SendsInv
<1>6. sends[g] <= Charged(t) + faults /\ sends[g] \in Nat
  BY <1>1 DEF SendsInv
<1>7. \A d \in deliv : Outstanding(d) /\ FireId(d) = g => OutcomeHolds(d, t.d)
  BY DEF SendsInv, OutcomeHolds
\* What remains to be shown of one row.
<1>. DEFINE RowOK(d) ==
              /\ \/ sends[FireId(d)] <= d.attempts + faults
                 \/ \E v \in pump'.tasks : FireId(v.d) = FireId(d)
              /\ \A v \in pump'.tasks : FireId(v.d) = FireId(d) => v.d.attempts = d.attempts
<1>8. ASSUME NEW d \in deliv, Outstanding(d), FireId(d) # g PROVE RowOK(d)
  BY <1>2, <1>4, <1>8 DEF SendsInv
<1>9. ASSUME \A d \in deliv' : Outstanding(d) => RowOK(d) PROVE SendsInv'
  BY <1>2, <1>5, <1>9 DEF SendsInv
<1>10. CASE UNCHANGED <<rows, deliv>> /\ (a = NULL \/ \A d \in deliv : ~OutcomeHolds(d, t.d))
  <2>1. SUFFICES ASSUME NEW d \in deliv, Outstanding(d), FireId(d) = g PROVE RowOK(d)
    BY <1>8, <1>9, <1>10
  <2>2. OutcomeHolds(d, t.d) /\ a = NULL
    BY <1>7, <1>10, <2>1
  <2>3. t.outcome = "deferred"
    BY <1>1, <2>2, ApplyChanges
  <2>4. Charged(t) = d.attempts
    BY <1>1, <2>2, <2>3 DEF Charged, Sent, OutcomeHolds
  <2>. QED  BY <1>4, <1>6, <2>1, <2>4
<1>11. ASSUME NEW e \in deliv, OutcomeHolds(e, t.d), a # NULL, ApplyDeliveryOutcome(e, a, clock)
       PROVE  SendsInv'
  <2>. DEFINE f == AppliedRow(e, a, clock)
  <2>1. deliv' = (deliv \ {e}) \cup {f}
    BY <1>11 DEF ApplyDeliveryOutcome, AppliedRow
  <2>2. a = ApplyOutcome(t.d.status, t.d.attempts, t.outcome, clock) /\ a # NULL
    BY <1>11
  <2>. HIDE DEF a
  <2>3. f = AppliedRow(e, a, clock)
    OBVIOUS
  <2>. HIDE DEF f
  <2>4. FireId(f) = g /\ f.attempts = a.attempts
    <3>1. OutcomeHolds(e, t.d) /\ e \in Delivery /\ e.slot <= clock
      BY <1>1, <1>11 DEF FireOK
    <3>2. FireId(f) = FireId(e) /\ f.attempts = a.attempts
      BY <1>1, <2>2, <2>3, <3>1, AppliedFacts
    <3>. QED  BY <3>1, <3>2 DEF OutcomeHolds
  <2>5. a.attempts = IF t.outcome = "deferred" THEN t.d.attempts ELSE t.d.attempts + 1
    BY <1>1, <2>2, OutcomeFacts
  <2>6. Charged(t) = a.attempts
    BY <1>1, <2>5 DEF Charged, Sent
  <2>7. RowOK(f)
    BY <1>4, <1>6, <2>4, <2>6
  <2>8. \A d \in deliv \ {e} : FireId(d) # g
    BY <1>1, <1>11 DEF OneRowEach, OutcomeHolds
  <2>. HIDE DEF RowOK, g
  <2>. QED  BY <1>8, <1>9, <2>1, <2>7, <2>8
<1>12. \/ UNCHANGED <<rows, deliv>> /\ (a = NULL \/ \A d \in deliv : ~OutcomeHolds(d, t.d))
       \/ \E e \in deliv : OutcomeHolds(e, t.d) /\ a # NULL /\ ApplyDeliveryOutcome(e, a, clock)
  BY DEF ApplyAttempt
<1>. QED  BY <1>10, <1>11, <1>12

\* The result is lost: the fire may be sent once more.
LEMMA ErrorSends ==
    ASSUME PumpInv, SendsInv, PumpInv', [Next]_vars,
           NEW t \in pump.tasks, ApplyError(t)
    PROVE  SendsInv'
<1>1. pump'.tasks = pump.tasks \ {t} /\ sends' = sends /\ faults' = faults + 1
      /\ deliv' = deliv /\ closed' = closed
  BY ApplyTasks DEF ApplyError, tableVars
<1>2. /\ sends \in [Fires -> Nat] /\ faults \in Nat /\ MaxSent \in Nat
      /\ \A v \in pump.tasks : FireId(v.d) \in Fires /\ Charged(v) \in Nat
                               /\ Charged(v) <= v.d.attempts + 1 /\ v.d.attempts \in Nat
      /\ \A d \in deliv : FireId(d) \in Fires /\ d.attempts \in Nat
  <2>1. ASSUME NEW v \in pump.tasks
        PROVE  FireId(v.d) \in Fires /\ Charged(v) \in Nat
               /\ Charged(v) <= v.d.attempts + 1 /\ v.d.attempts \in Nat
    BY FiresCarried DEF Charged
  <2>. QED  BY <2>1, FiresCarried DEF SendsInv
<1>3. \A f \in Fires : sends'[f] <= MaxSent + faults'
  BY <1>1, <1>2 DEF SendsInv
<1>4. \A v \in pump'.tasks : sends'[FireId(v.d)] <= Charged(v) + faults'
  BY <1>1, <1>2 DEF SendsInv
<1>5. \A d \in deliv' :
         Outstanding(d) => \/ sends'[FireId(d)] <= d.attempts + faults'
                           \/ \E v \in pump'.tasks : FireId(v.d) = FireId(d)
  <2>1. SUFFICES ASSUME NEW d \in deliv, Outstanding(d)
                 PROVE  \/ sends[FireId(d)] <= d.attempts + faults'
                        \/ \E v \in pump'.tasks : FireId(v.d) = FireId(d)
    BY <1>1
  <2>2. CASE FireId(d) = FireId(t.d)
    <3>1. t.d.attempts = d.attempts
      BY <2>1, <2>2 DEF SendsInv
    <3>2. sends[FireId(d)] <= Charged(t) + faults
      BY <2>2 DEF SendsInv
    <3>. QED  BY <1>1, <1>2, <3>1, <3>2
  <2>3. CASE FireId(d) # FireId(t.d)
    <3>1. \/ sends[FireId(d)] <= d.attempts + faults
          \/ \E v \in pump.tasks \ {t} : FireId(v.d) = FireId(d)
      BY <2>1, <2>3 DEF SendsInv
    <3>. QED  BY <1>1, <1>2, <3>1
  <2>. QED  BY <2>2, <2>3
<1>6. \A d \in deliv', v \in pump'.tasks :
         Outstanding(d) /\ FireId(v.d) = FireId(d) => v.d.attempts = d.attempts
  BY <1>1 DEF SendsInv
<1>7. \A f \in Fires \ (OpenFires' \cup closed') :
         sends'[f] = 0 /\ \A v \in pump'.tasks : FireId(v.d) # f
  BY <1>1 DEF SendsInv, OpenFires
<1>. QED  BY <1>1, <1>2, <1>3, <1>4, <1>5, <1>6, <1>7 DEF SendsInv

\* The daemon dies: a request on its way may have reached the module.
LEMMA CrashSends ==
    ASSUME PumpInv, SendsInv, PumpInv', [Next]_vars, Crash
    PROVE  SendsInv'
<1>1. pump'.tasks = {} /\ faults' = faults + 1 /\ deliv' = deliv /\ closed' = closed
  BY DEF Crash, NewPump
<1>2. /\ sends \in [Fires -> Nat] /\ faults \in Nat /\ MaxSent \in Nat
      /\ \A d \in deliv : FireId(d) \in Fires /\ d.attempts \in Nat
  BY FiresCarried DEF SendsInv
<1>3. sends' = [f \in Fires |->
                  IF \E t \in pump.tasks : FireId(t.d) = f /\ t.outcome = NULL
                  THEN sends[f] + 1 ELSE sends[f]]
  BY DEF Crash
<1>4. sends' \in [Fires -> Nat] /\ \A f \in Fires : sends'[f] <= sends[f] + 1
  BY <1>2, <1>3
<1>5. \A f \in Fires : sends'[f] <= MaxSent + faults'
  BY <1>1, <1>2, <1>4 DEF SendsInv
<1>6. \A d \in deliv : Outstanding(d) => sends'[FireId(d)] <= d.attempts + faults'
  <2>1. SUFFICES ASSUME NEW d \in deliv, Outstanding(d)
                 PROVE  sends'[FireId(d)] <= d.attempts + faults'
    OBVIOUS
  <2>2. CASE sends[FireId(d)] <= d.attempts + faults
    BY <1>1, <1>2, <1>4, <2>2
  <2>3. ASSUME NEW t \in pump.tasks, FireId(t.d) = FireId(d)
        PROVE  sends'[FireId(d)] <= d.attempts + faults'
    <3>1. t.d.attempts = d.attempts /\ sends[FireId(d)] <= Charged(t) + faults
      BY <2>1, <2>3 DEF SendsInv
    <3>2. CASE t.outcome = NULL
      <4>1. Charged(t) = d.attempts
        BY <1>2, <3>1, <3>2 DEF Charged, Sent
      <4>. QED  BY <1>1, <1>2, <1>4, <3>1, <4>1
    <3>3. CASE t.outcome # NULL
      <4>1. ~ \E v \in pump.tasks : FireId(v.d) = FireId(d) /\ v.outcome = NULL
        BY <2>3, <3>3, FiresCarried
      <4>2. sends'[FireId(d)] = sends[FireId(d)]
        BY <1>2, <1>3, <4>1
      <4>3. Charged(t) \in Nat /\ Charged(t) <= d.attempts + 1
        BY <1>2, <3>1 DEF Charged
      <4>. QED  BY <1>1, <1>2, <3>1, <4>2, <4>3
    <3>. QED  BY <3>2, <3>3
  <2>. QED  BY <2>1, <2>2, <2>3 DEF SendsInv
<1>7. \A f \in Fires \ (OpenFires' \cup closed') : sends'[f] = 0
  <2>1. SUFFICES ASSUME NEW f \in Fires, f \notin OpenFires \cup closed PROVE sends'[f] = 0
    BY <1>1 DEF OpenFires
  <2>2. sends[f] = 0 /\ \A t \in pump.tasks : FireId(t.d) # f
    BY <2>1 DEF SendsInv
  <2>. QED  BY <1>3, <2>2
<1>. QED  BY <1>1, <1>4, <1>5, <1>6, <1>7 DEF SendsInv


\* Every step keeps the bound on requests, as long as no closed fire opens again.
LEMMA SendsKeep ==
    ASSUME PumpInv, SendsInv, PumpInv', NeverReopened', [Next]_vars
    PROVE  SendsInv'
<1>1. ASSUME UNCHANGED <<deliv, sends>>, pump'.tasks = pump.tasks, faults' >= faults
      PROVE  SendsInv'
  <2>1. NewOrKept
    BY <1>1 DEF NewOrKept
  <2>. QED  BY <1>1, <2>1, QuietSends
<1>2. faults \in Nat
  BY DEF PumpInv, TasksInv
<1>3. CASE Table
  <2>1. FiresKept
    BY <1>3, TableStepMoves DEF PumpInv, Table, TableMoves
  <2>2. NewOrKept
    BY <1>3, <2>1, RowsMove DEF Table, Recorded
  <2>. QED  BY <1>2, <1>3, <2>2, QuietSends DEF Table
<1>4. CASE FetchAndSpawn
  BY <1>4, FetchSends
<1>5. CASE SweepError
  <2>1. pump'.tasks = pump.tasks
    BY <1>5 DEF SweepError, PumpInv, TasksInv, TasksOK, Pump
  <2>. QED  BY <1>1, <1>2, <1>5, <2>1 DEF SweepError, tableVars, historyVars
<1>6. ASSUME NEW t \in pump.tasks, NEW outcome \in Outcome, RunAttempt(t, outcome)
      PROVE  SendsInv'
  BY <1>6, RunSends
<1>7. ASSUME NEW t \in pump.tasks, ApplyAttempt(t) \/ ApplyError(t)
      PROVE  SendsInv'
  BY <1>7, ApplySends, ErrorSends
<1>8. CASE TickError
  BY <1>1, <1>2, <1>8 DEF TickError, FireError, historyVars
<1>9. CASE Crash
  BY <1>9, CrashSends
<1>10. CASE UNCHANGED vars
  BY <1>1, <1>2, <1>10 DEF vars, tableVars, historyVars
<1>. QED  BY <1>3, <1>4, <1>5, <1>6, <1>7, <1>8, <1>9, <1>10 DEF Next, Attempts

\* A fire is sent at most MaxSent times, plus once for each result lost to a crash or to a
\* failed write, in every behaviour that keeps the ledger.
LEMMA SendsBoundedOnLedger == Spec /\ LedgerSpec => []SendsBounded
<1>1. Init => SendsInv
  <2>1. SUFFICES ASSUME Init PROVE SendsInv
    OBVIOUS
  <2>2. /\ sends = [f \in Fires |-> 0] /\ pump.tasks = {} /\ deliv = {} /\ faults = 0
        /\ MaxSent \in Nat
    BY <2>1, DeliveryAssumption DEF Init, TableInit, NewPump
  <2>. QED  BY <2>2 DEF SendsInv
<1>2. PumpInv /\ PumpInv' /\ SendsInv /\ NeverReopened' /\ [Next]_vars => SendsInv'
  BY SendsKeep
<1>3. SendsInv => SendsBounded
  BY DEF SendsInv, SendsBounded
<1>. QED  BY <1>1, <1>2, <1>3, PumpInvariant, LedgerNeverReopens, PTL DEF Spec


-----------------------------------------------------------------------------
(* No closed fire opens again.                                             *)

\* What the ledger needs beyond the code's checks: a call lands within a tick of the clock,
\* and a source keeps at least the four ended rows the code keeps.
Timely == CallTimeout <= 1 /\ Keep >= 4

\* Every fire that ever opened.
Ever == OpenFires \cup closed
HasFire(f) == \E d \in deliv : FireId(d) = f

\* The stamps of a row: it is retired at most a tick before its slot, by an upsert that was
\* on its way.
Timed(d, now) ==
    /\ d.updated <= now /\ d.slot <= d.updated + 1
    /\ d.slot + Ttl <= d.expires /\ d.expires <= now + Ttl

EverInv ==
    /\ \A f \in Ever : f \in Fires /\ f[2] \in used /\ f[3] <= clock
    /\ \A d \in deliv : FireId(d) \in Ever

\* A row waits for no slot older than a fire it had, and for one it had only while the
\* delivery row is there to refuse it.
ArmedInv ==
    \A id \in Ids : Exists(id) /\ rows[id].next # NULL =>
        \A f \in Ever : f[1] = "tick" /\ f[2] = id =>
            /\ f[3] <= rows[id].next
            /\ f[3] = rows[id].next => HasFire(f)

\* A fire of this instant, which could still be asked for again, has its row.
NowInv == \A f \in Ever : f[3] = clock /\ Exists(f[2]) => HasFire(f)

\* The earlier slots of a source whose rows are open, or ended at this instant.
Recent(D, id, trigger, now) ==
    {d.slot : d \in {e \in D : /\ e.id = id /\ e.trigger = trigger /\ e.slot < now
                               /\ Outstanding(e) \/ e.updated = now}}

\* Such slots still to come: the one the row waits for, and the one a tick that began
\* earlier will arm when it advances the row.
Behind(id) == rows[id].next # NULL /\ rows[id].next < clock
Lagging(id) == tickNow < clock /\ \E s \in todo : s.id = id /\ s.row.next = rows[id].next
Weight(id) == (IF Behind(id) THEN 1 ELSE 0) + (IF Lagging(id) THEN 1 ELSE 0)

\* So a source ends too few rows in one instant to push a row of this instant out.
RoomInv ==
    \A id \in Ids, trigger \in Trigger :
        Exists(id) => Cardinality(Recent(deliv, id, trigger, clock)) + Weight(id) <= 3

LedgerInv ==
    /\ \A d \in deliv : Timed(d, clock)
    /\ EverInv /\ ArmedInv /\ NowInv /\ RoomInv
    /\ NeverReopened

\* A row of the table after a statement continues one of those before.
Continues(e, d, now) ==
    /\ FireId(e) = FireId(d) /\ e.expires = d.expires
    /\ Outstanding(e) => Outstanding(d)
    /\ \/ e = d
       \/ Outstanding(d) /\ d.slot <= e.updated + 1 /\ e.updated <= now

Descends(D, E, now) == \A e \in E : \E d \in D : Continues(e, d, now)
Survives(D, E) == \A d \in D : \E e \in E : FireId(e) = FireId(d)

LEMMA RecentFacts ==
    ASSUME NEW D, NEW id, NEW trigger, NEW now
    PROVE  \A n : n \in Recent(D, id, trigger, now) <=>
              \E d \in D : /\ d.id = id /\ d.trigger = trigger /\ d.slot < now
                           /\ Outstanding(d) \/ d.updated = now
                           /\ n = d.slot
  BY DEF Recent

LEMMA FireIdFacts ==
    ASSUME NEW d, NEW e
    PROVE  /\ FireId(d)[1] = d.trigger /\ FireId(d)[2] = d.id /\ FireId(d)[3] = d.slot
           /\ FireId(d) = FireId(e) <=>
                 d.trigger = e.trigger /\ d.id = e.id /\ d.slot = e.slot
  BY DEF FireId

LEMMA RecentFinite ==
    ASSUME NEW D \in SUBSET Delivery, NEW id, NEW trigger, NEW now \in Nat
    PROVE  /\ IsFiniteSet(Recent(D, id, trigger, now))
           /\ Cardinality(Recent(D, id, trigger, now)) \in Nat
<1>1. Recent(D, id, trigger, now) \subseteq 0..now
  BY RecentFacts DEF Delivery, Instant
<1>2. IsFiniteSet(0..now)
  BY FS_Interval
<1>3. IsFiniteSet(Recent(D, id, trigger, now))
  BY <1>1, <1>2, FS_Subset
<1>. QED  BY <1>3, FS_CardinalityType

\* A statement that opens no fire leaves no more recent slots, and rows in time.
LEMMA DescendsFacts ==
    ASSUME NEW D \in SUBSET Delivery, NEW E \in SUBSET Delivery, NEW now \in Nat,
           Descends(D, E, now), \A d \in D : Timed(d, now)
    PROVE  /\ \A e \in E : Timed(e, now)
           /\ \A id, trigger : Recent(E, id, trigger, now) \subseteq Recent(D, id, trigger, now)
           /\ OpenOf(E) \subseteq OpenOf(D)
           /\ \A e \in E : \E d \in D : FireId(e) = FireId(d)
<1>1. ASSUME NEW e \in E PROVE Timed(e, now)
  <2>1. PICK d \in D : Continues(e, d, now)
    BY DEF Descends
  <2>2. CASE e = d
    BY <2>2
  <2>3. CASE Outstanding(d) /\ d.slot <= e.updated + 1 /\ e.updated <= now
    <3>1. e.slot = d.slot /\ e.expires = d.expires
      BY <2>1, FireIdFacts DEF Continues
    <3>. QED  BY <2>3, <3>1 DEF Timed
  <2>. QED  BY <2>1, <2>2, <2>3 DEF Continues
<1>2. ASSUME NEW id, NEW trigger, NEW n \in Recent(E, id, trigger, now)
      PROVE  n \in Recent(D, id, trigger, now)
  <2>1. PICK e \in E : /\ e.id = id /\ e.trigger = trigger /\ e.slot < now /\ n = e.slot
                       /\ Outstanding(e) \/ e.updated = now
    BY RecentFacts
  <2>2. PICK d \in D : Continues(e, d, now)
    BY DEF Descends
  <2>3. d.id = id /\ d.trigger = trigger /\ d.slot = e.slot
    BY <2>1, <2>2, FireIdFacts DEF Continues
  <2>4. Outstanding(d) \/ d.updated = now
    BY <2>1, <2>2 DEF Continues
  <2>. QED  BY <2>1, <2>3, <2>4, RecentFacts
<1>3. OpenOf(E) \subseteq OpenOf(D)
  BY OpenFacts DEF Descends, Continues
<1>. QED  BY <1>1, <1>2, <1>3 DEF Descends, Continues

\* Rows are retired, and maybe some deleted.
LEMMA RetireDescends ==
    ASSUME NEW D \in SUBSET Delivery, NEW R, NEW E, NEW stamp \in Nat, NEW now \in Nat,
           stamp <= now, \A d \in D : FireOK(d, now),
           \A d \in D : d \in R => Outstanding(d) /\ d.slot <= stamp + 1,
           E \subseteq {IF d \in R THEN Retired(d, stamp) ELSE d : d \in D}
    PROVE  /\ Descends(D, E, now)
           /\ E = {IF d \in R THEN Retired(d, stamp) ELSE d : d \in D} => Survives(D, E)
<1>. DEFINE to(d) == IF d \in R THEN Retired(d, stamp) ELSE d
<1>1. (\A e \in E : \E d \in D : e = to(d))
      /\ (E = {IF d \in R THEN Retired(d, stamp) ELSE d : d \in D} => \A d \in D : to(d) \in E)
  OBVIOUS
<1>2. ASSUME NEW d \in D PROVE Continues(to(d), d, now) /\ FireId(to(d)) = FireId(d)
  <2>1. CASE d \in R
    <3>1. /\ FireId(Retired(d, stamp)) = FireId(d) /\ ~Outstanding(Retired(d, stamp))
      BY RetiredFacts
    <3>2. Retired(d, stamp).expires = d.expires /\ Retired(d, stamp).updated = stamp
      BY DEF Retired, Delivery
    <3>. QED  BY <2>1, <3>1, <3>2 DEF Continues
  <2>2. CASE d \notin R
    BY <2>2 DEF Continues
  <2>. QED  BY <2>1, <2>2
<1>. HIDE DEF to
<1>. QED  BY <1>1, <1>2 DEF Descends, Survives

LEMMA ExpireDescends ==
    ASSUME NEW D \in SUBSET Delivery, NEW id, NEW stamp \in Nat, NEW now \in Nat,
           stamp <= now, now <= stamp + 1, \A d \in D : FireOK(d, now)
    PROVE  /\ Descends(D, ExpireOutstanding(D, id, stamp), now)
           /\ Survives(D, ExpireOutstanding(D, id, stamp))
           /\ Descends(D, ExpireDeliveries(D, stamp), now)
           /\ Survives(D, ExpireDeliveries(D, stamp))
<1>. DEFINE R == {d \in D : d.id = id /\ Outstanding(d)}
            S == {d \in D : Outstanding(d) /\ d.expires <= stamp}
<1>1. /\ ExpireOutstanding(D, id, stamp) =
            {IF d \in R THEN Retired(d, stamp) ELSE d : d \in D}
      /\ ExpireDeliveries(D, stamp) =
            {IF d \in S THEN Retired(d, stamp) ELSE d : d \in D}
  BY DEF ExpireOutstanding, ExpireDeliveries
<1>2. \A d \in D : d.slot <= stamp + 1
  BY DEF FireOK, Delivery, Instant
<1>3. /\ \A d \in R : Outstanding(d)
      /\ \A d \in S : Outstanding(d)
  OBVIOUS
<1>. HIDE DEF R, S
<1>. QED  BY <1>1, <1>2, <1>3, RetireDescends

LEMMA SubsetDescends ==
    ASSUME NEW D, NEW E \in SUBSET D, NEW now
    PROVE  Descends(D, E, now)
  BY DEF Descends, Continues

\* record_fire_in: the other rows of the table descend from those there were, and no row of
\* another source goes.
LEMMA RecordDescends ==
    ASSUME NEW D \in SUBSET Delivery, NEW now \in Nat, NEW stamp \in Nat, stamp <= now,
           \A d \in D : FireOK(d, now), NEW fire \in Delivery,
           \A d \in D : d.id = fire.id /\ d.trigger = fire.trigger => d.slot <= stamp + 1,
           NEW E, E = RecordFireIn(D, fire, stamp)
    PROVE  /\ Descends(D, E \ {fire}, now)
           /\ \A d \in D : ~(d.id = fire.id /\ d.trigger = fire.trigger) => d \in E
<1>. DEFINE R == Rivals(D, fire)
            S == Supersede(D, fire, stamp)
            I == InsertFire(S, fire)
<1>1. S \subseteq {IF d \in R THEN Retired(d, stamp) ELSE d : d \in D}
  BY DEF Supersede, Rivals
<1>2. \A d \in D : d \in R => Outstanding(d) /\ d.slot <= stamp + 1
  BY DEF Rivals
<1>3. Descends(D, S, now)
  <2>. HIDE DEF R, S
  <2>. QED  BY <1>1, <1>2, RetireDescends
<1>4. E \subseteq I /\ I \subseteq S \cup {fire} /\ S \subseteq I
  BY DEF RecordFireIn, PruneTerminal, InsertFire
<1>5. \A d \in I : ~(d.id = fire.id /\ d.trigger = fire.trigger) => d \in E
  BY DEF RecordFireIn, PruneTerminal, Finished
<1>6. \A d \in D : ~(d.id = fire.id /\ d.trigger = fire.trigger) => d \in S
  BY DEF Supersede, Rivals
<1>7. Descends(D, E \ {fire}, now)
  <2>. HIDE DEF R, S, I
  <2>. QED  BY <1>3, <1>4 DEF Descends
<1>. QED  BY <1>4, <1>5, <1>6, <1>7

\* A fire of this instant that has a row keeps it: its source has ended at most three rows
\* in this instant, and the prune spares Keep.
LEMMA RecordSurvives ==
    ASSUME Keep >= 4, NEW D \in SUBSET Delivery, IsFiniteSet(D), OneRowEach(D), NEW now \in Nat,
           \A d \in D : FireOK(d, now) /\ Timed(d, now),
           NEW id \in Ids, NEW trigger \in Trigger,
           Cardinality(Recent(D, id, trigger, now)) <= 3,
           NEW fire, fire = NewFire(id, trigger, now, now),
           NEW E, E = RecordFireIn(D, fire, now)
    PROVE  \E e \in E : FireId(e) = FireId(fire)
<1>. DEFINE R == Rivals(D, fire)
            S == Supersede(D, fire, now)
            I == InsertFire(S, fire)
<1>1. /\ fire \in Delivery /\ fire.id = id /\ fire.trigger = trigger /\ fire.slot = now
      /\ Outstanding(fire)
  BY NewFireFacts DEF NewFire, Outstanding
<1>2. \A d \in I : Outstanding(d) => d \in E
  BY DEF RecordFireIn, PruneTerminal, Finished
<1>3. S \subseteq {IF d \in R THEN Retired(d, now) ELSE d : d \in D}
  BY DEF Supersede, Rivals
<1>4. Keeps(D, S, now)
  <2>. HIDE DEF R, S
  <2>. QED  BY <1>3, RetireKeeps
<1>5. CASE ~(\E d \in S : FireId(d) = FireId(fire))
  BY <1>1, <1>2, <1>5 DEF InsertFire
<1>6. ASSUME NEW d \in S, FireId(d) = FireId(fire), ~Outstanding(d)
      PROVE  d \in E
  <2>1. I = S
    BY <1>6 DEF InsertFire
  <2>. DEFINE done == Finished(I, id, trigger)
              newer == {e \in done : Newer(e, d)}
              recent == Recent(D, id, trigger, now)
  <2>2. d.slot = now /\ d.id = id /\ d.trigger = trigger
    BY <1>1, <1>6, FireIdFacts
  <2>3. \A e \in S : /\ e \in Delivery /\ e.slot <= now
                     /\ Timed(e, now)
                     /\ e \in D \/ (\E r \in D : Outstanding(r) /\ e = Retired(r, now))
    <3>1. ASSUME NEW e \in S
          PROVE  e \in D \/ (\E r \in D : Outstanding(r) /\ e = Retired(r, now))
      BY <1>3 DEF Rivals
    <3>2. ASSUME NEW r \in D PROVE Timed(Retired(r, now), now)
      <4>1. /\ Retired(r, now).slot = r.slot /\ Retired(r, now).expires = r.expires
            /\ Retired(r, now).updated = now /\ r.slot \in Nat /\ r.slot <= now
        BY DEF Retired, Delivery, FireOK, Instant
      <4>. QED  BY <4>1 DEF Timed
    <3>. QED  BY <1>4, <3>1, <3>2 DEF Keeps, FireOK
  <2>4. ASSUME NEW e \in newer
        PROVE  e.slot \in recent
    <3>1. e \in S /\ e.id = id /\ e.trigger = trigger /\ ~Outstanding(e) /\ Newer(e, d)
      BY <2>1 DEF Finished
    <3>2. /\ e.updated \in Nat /\ d.updated \in Nat /\ e.expires \in Nat /\ d.expires \in Nat
          /\ e.slot \in Nat /\ d.slot \in Nat /\ Ttl \in Nat
      BY <1>6, <2>3, <3>1, DeliveryAssumption DEF Delivery, Instant
    <3>3. /\ e.updated <= now /\ now <= d.updated + 1 /\ now + Ttl <= d.expires
          /\ e.expires <= now + Ttl /\ e.slot <= now
      BY <1>6, <2>2, <2>3, <3>1 DEF Timed
    <3>4. e.updated = now /\ e.updated > d.updated
      BY <2>2, <3>1, <3>2, <3>3 DEF Newer
    <3>5. e.slot < now
      <4>1. SUFFICES ASSUME e.slot = now PROVE FALSE
        BY <3>2, <3>3
      <4>2. FireId(e) = FireId(d)
        BY <2>2, <3>1, <4>1, FireIdFacts
      <4>3. e = d
        BY <1>4, <1>6, <3>1, <4>2 DEF Keeps, OneRowEach
      <4>. QED  BY <3>2, <3>4, <4>3
    <3>6. CASE e \in D
      BY <3>1, <3>4, <3>5, <3>6, RecentFacts
    <3>7. ASSUME NEW r \in D, Outstanding(r), e = Retired(r, now) PROVE e.slot \in recent
      <4>1. FireId(e) = FireId(r)
        BY <3>7, RetiredFacts
      <4>2. r.id = id /\ r.trigger = trigger /\ r.slot = e.slot
        BY <3>1, <4>1, FireIdFacts
      <4>. QED  BY <3>5, <3>7, <4>2, RecentFacts
    <3>. QED  BY <2>3, <3>1, <3>6, <3>7
  <2>5. IsFiniteSet(recent) /\ Cardinality(recent) \in Nat
    BY RecentFinite
  <2>6. newer \subseteq S /\ \A e \in newer : e.id = id /\ e.trigger = trigger
    BY <2>1 DEF Finished
  <2>7. IsFiniteSet(newer) /\ Cardinality(newer) <= Cardinality(recent)
    <3>1. IsFiniteSet(newer)
      BY <1>4, <2>6, FS_Subset DEF Keeps
    <3>. DEFINE slot == [e \in newer |-> e.slot]
    <3>. HIDE DEF newer, recent
    <3>2. slot \in [newer -> recent]
      BY <2>4
    <3>3. \A x, y \in newer : slot[x] = slot[y] => x = y
      <4>1. SUFFICES ASSUME NEW x \in newer, NEW y \in newer, x.slot = y.slot PROVE x = y
        OBVIOUS
      <4>2. FireId(x) = FireId(y)
        BY <2>6, <4>1, FireIdFacts
      <4>. QED  BY <1>4, <2>6, <4>2 DEF Keeps, OneRowEach
    <3>4. slot \in Injection(newer, recent)
      BY <3>2, <3>3 DEF Injection, IsInjective
    <3>. QED  BY <2>5, <3>1, <3>4, FS_Injection
  <2>8. ~(Cardinality(newer) >= Keep)
    BY <2>5, <2>7, FS_CardinalityType, DeliveryAssumption
  <2>. QED  BY <1>1, <1>6, <2>1, <2>8 DEF RecordFireIn, PruneTerminal
<1>7. S \subseteq I
  BY DEF InsertFire
<1>. QED  BY <1>2, <1>5, <1>6, <1>7

\* A row is armed for no slot of the past, and a tick takes no instant of the past.
ArmsAhead ==
    \A id \in Ids : Exists(id)' =>
        /\ Exists(id) \/ id \notin used
        /\ \/ Exists(id) /\ rows'[id].next = rows[id].next
           \/ rows'[id].next = NULL
           \/ rows'[id].next >= clock

TickStays == \A s \in todo' : tickNow' < clock => s \in todo /\ tickNow' = tickNow

\* A step that opens no fire and removes the row of one only with its schedule.
Quiet ==
    /\ clock' = clock /\ ArmsAhead /\ TickStays
    /\ Descends(deliv, deliv', clock)
    /\ \A d \in deliv : Exists(d.id)' => \E e \in deliv' : FireId(e) = FireId(d)

\* The types that the invariants of the ledger are about.
LEMMA LedgerTypes ==
    ASSUME PumpInv
    PROVE  /\ clock \in Nat /\ tickNow \in Nat /\ tickNow <= clock
           /\ deliv \in SUBSET Delivery /\ IsFiniteSet(deliv) /\ OneRowEach(deliv)
           /\ \A d \in deliv : d.id \in Ids /\ d.trigger \in Trigger /\ d.slot \in Nat
                               /\ FireOK(d, clock)
           /\ OpenFires = OpenOf(deliv)
           /\ \A id \in Ids : Exists(id) => id \in used /\ rows[id] \in Row
                                            /\ rows[id].next \in InstantOrNull
           /\ \A s \in todo : s.id \in used /\ s.id \in Ids /\ s.row.next \in Nat
                              /\ s.row.next <= tickNow
           /\ NULL \notin Nat
<1>1. /\ clock \in Nat /\ tickNow \in Nat /\ tickNow <= clock
      /\ deliv \in SUBSET Delivery /\ IsFiniteSet(deliv) /\ OneRowEach(deliv)
      /\ \A d \in deliv : d \in Delivery /\ FireOK(d, clock)
      /\ \A s \in todo : s.id \in used /\ s.row.next \in Nat /\ s.row.next <= tickNow
      /\ used \subseteq Ids
  BY DEF PumpInv, TableInv, TableTypeOK, TodoInv, DelivInv, Instant
<1>2. \A id \in Ids : Exists(id) => id \in used /\ rows[id] \in Row
  BY DEF PumpInv, TableInv, TableTypeOK, UsedInv, Exists
<1>3. OpenFires = OpenOf(deliv)
  BY DEF OpenFires, OpenOf
<1>. QED  BY <1>1, <1>2, <1>3, RowFacts, NullAssumption DEF Delivery, Instant

LEMMA FireFacts ==
    ASSUME NEW f \in Fires
    PROVE  /\ f = <<f[1], f[2], f[3]>> /\ f[1] \in Trigger /\ f[2] \in Ids /\ f[3] \in Nat
  BY ModuleAssumption DEF Fires

\* Fires that ever opened: no step forgets one.
LEMMA EverOfAStep ==
    ASSUME PumpInv, [Next]_vars
    PROVE  /\ Ever \subseteq Ever'
           /\ \A f \in Ever' : f \in Ever \/ f \in OpenFires'
           /\ OpenFires' \cap closed = {} => NeverReopened'
<1>1. closed' = closed \cup (OpenFires \ OpenFires')
  BY FiresOfAStep
<1>. QED  BY <1>1 DEF Ever, NeverReopened

\* The slots still to come are no more than before.
LEMMA QuietWeight ==
    ASSUME PumpInv, PumpInv', Quiet, NEW id \in Ids, Exists(id)'
    PROVE  /\ Behind(id)' => Exists(id) /\ Behind(id)
           /\ Lagging(id)' => Exists(id) /\ Lagging(id)
<1>1. /\ clock \in Nat /\ clock' = clock /\ tickNow' \in Nat
      /\ \A s \in todo' : s.row.next \in Nat /\ s.row.next <= tickNow'
      /\ NULL \notin Nat
      /\ rows'[id].next \in InstantOrNull
  <2>1. PumpInv' => /\ tickNow' \in Nat
                    /\ \A s \in todo' : s.row.next \in Nat /\ s.row.next <= tickNow'
                    /\ rows'[id] \in Row
    BY DEF PumpInv, TableInv, TableTypeOK, TodoInv, DelivInv, Instant, Exists
  <2>. QED  BY <2>1, LedgerTypes, RowFacts DEF Quiet, ArmsAhead, TickStays
<1>2. \/ Exists(id) /\ rows'[id].next = rows[id].next
      \/ rows'[id].next = NULL
      \/ rows'[id].next >= clock
  BY DEF Quiet, ArmsAhead, TickStays
<1>3. ASSUME rows'[id].next # NULL, rows'[id].next < clock
      PROVE  Exists(id) /\ rows'[id].next = rows[id].next
  BY <1>1, <1>2, <1>3 DEF InstantOrNull, Instant
<1>4. ASSUME Behind(id)' PROVE Exists(id) /\ Behind(id)
  BY <1>1, <1>3, <1>4 DEF Behind
<1>5. ASSUME Lagging(id)' PROVE Exists(id) /\ Lagging(id)
  <2>1. PICK s \in todo' : s.id = id /\ s.row.next = rows'[id].next
    BY <1>5 DEF Lagging
  <2>2. tickNow' < clock
    BY <1>1, <1>5 DEF Lagging
  <2>3. s \in todo /\ tickNow' = tickNow
    BY <2>1, <2>2 DEF Quiet, ArmsAhead, TickStays
  <2>4. Exists(id) /\ rows'[id].next = rows[id].next
    BY <1>1, <1>3, <2>1, <2>2
  <2>. QED  BY <2>1, <2>2, <2>3, <2>4 DEF Lagging
<1>. QED  BY <1>4, <1>5

LEMMA WeightFacts ==
    ASSUME NEW id
    PROVE  /\ Weight(id) \in 0..2
           /\ Weight(id) = 0 <=> ~Behind(id) /\ ~Lagging(id)
           /\ Weight(id) = 2 <=> Behind(id) /\ Lagging(id)
  BY DEF Weight

\* Ids are issued and never taken back.
LEMMA StepUses ==
    ASSUME [Next]_vars
    PROVE  used \subseteq used'
<1>1. CASE TableStep
  BY <1>1 DEF TableStep, AdvanceClock, UpsertCall, UpsertLand, UpsertCreate, UpsertUpdate,
              UpsertDrop, ResumeCall, ResumeWrite, ResumeMiss, Delete, Suspend, RunNow,
              TickList, FireModule
<1>. QED  BY <1>1 DEF Next, vars, tableVars, Table, FetchAndSpawn, SweepError, Attempts,
                      RunAttempt, ApplyAttempt, ApplyError, TickError, FireError, Crash

\* A schedule that did not exist before has an id that was never used.
LEMMA FreshIsEmpty ==
    ASSUME PumpInv, LedgerInv, NEW id \in Ids, id \notin used
    PROVE  /\ \A f \in Ever : f[2] # id
           /\ \A trigger, now : Recent(deliv, id, trigger, now) = {}
<1>1. \A f \in Ever : f[2] # id
  BY DEF LedgerInv, EverInv
<1>2. \A d \in deliv : d.id # id
  BY <1>1, FireIdFacts DEF LedgerInv, EverInv
<1>. QED  BY <1>1, <1>2 DEF Recent

\* A quiet step keeps the ledger's invariant.
LEMMA QuietLedger ==
    ASSUME PumpInv, PumpInv', LedgerInv, [Next]_vars, Quiet
    PROVE  LedgerInv'
<1>1. /\ clock' = clock /\ clock \in Nat
      /\ deliv \in SUBSET Delivery /\ deliv' \in SUBSET Delivery
      /\ OpenFires = OpenOf(deliv) /\ OpenFires' = OpenOf(deliv')
      /\ Descends(deliv, deliv', clock) /\ \A d \in deliv : Timed(d, clock)
  <2>1. OpenFires' = OpenOf(deliv') /\ deliv' \in SUBSET Delivery
    BY DEF OpenFires, OpenOf, PumpInv, TableInv, TableTypeOK
  <2>. QED  BY <2>1, LedgerTypes DEF Quiet, ArmsAhead, TickStays, LedgerInv
<1>2. /\ \A e \in deliv' : Timed(e, clock)
      /\ \A id, trigger :
            Recent(deliv', id, trigger, clock) \subseteq Recent(deliv, id, trigger, clock)
      /\ OpenFires' \subseteq OpenFires
      /\ \A e \in deliv' : \E d \in deliv : FireId(e) = FireId(d)
  BY <1>1, DescendsFacts
<1>3. Ever' = Ever /\ NeverReopened'
  <2>1. OpenFires \subseteq Ever /\ OpenFires \cap closed = {}
    BY DEF Ever, LedgerInv, NeverReopened
  <2>. QED  BY <1>2, <2>1, EverOfAStep
<1>4. EverInv'
  <2>1. used \subseteq used'
    BY StepUses
  <2>. QED  BY <1>1, <1>2, <1>3, <2>1 DEF EverInv, LedgerInv
<1>5. ASSUME NEW f \in Ever, Exists(f[2])', HasFire(f), f[2] \in Ids
      PROVE  HasFire(f)'
  <2>1. PICK d \in deliv : FireId(d) = f
    BY <1>5 DEF HasFire
  <2>2. d.id = f[2]
    BY <2>1, FireIdFacts
  <2>3. \E e \in deliv' : FireId(e) = FireId(d)
    BY <1>5, <2>2 DEF Quiet, ArmsAhead, TickStays
  <2>. QED  BY <2>1, <2>3 DEF HasFire
<1>6. used \subseteq Ids
  BY DEF PumpInv, TableInv, TableTypeOK
<1>7. ASSUME NEW f \in Ever, f[3] = clock, Exists(f[2])' PROVE HasFire(f)'
  <2>1. f[2] \in used /\ f[2] \in Ids
    BY <1>6 DEF LedgerInv, EverInv
  <2>2. Exists(f[2])
    BY <1>7, <2>1 DEF Quiet, ArmsAhead, TickStays
  <2>. QED  BY <1>5, <1>7, <2>1, <2>2 DEF LedgerInv, NowInv
<1>8. ArmedInv'
  <2>1. SUFFICES ASSUME NEW id \in Ids, Exists(id)', rows'[id].next # NULL,
                        NEW f \in Ever, f[1] = "tick", f[2] = id
                 PROVE  f[3] <= rows'[id].next /\ (f[3] = rows'[id].next => HasFire(f)')
    BY <1>3 DEF ArmedInv
  <2>2. Exists(id) /\ f[3] \in Nat /\ f[3] <= clock
    BY <2>1, FireFacts DEF LedgerInv, EverInv, Quiet, ArmsAhead
  <2>3. CASE rows'[id].next = rows[id].next
    <3>1. f[3] <= rows[id].next /\ (f[3] = rows[id].next => HasFire(f))
      BY <2>1, <2>2, <2>3 DEF LedgerInv, ArmedInv
    <3>. QED  BY <1>5, <2>1, <2>3, <3>1
  <2>4. CASE rows'[id].next >= clock
    <3>1. rows'[id].next \in Nat
      <4>1. PumpInv' => rows'[id] \in Row
        BY <2>1 DEF PumpInv, TableInv, TableTypeOK, Exists
      <4>. QED  BY <2>1, <4>1, RowFacts DEF InstantOrNull, Instant
    <3>2. f[3] <= rows'[id].next /\ (f[3] = rows'[id].next => f[3] = clock)
      BY <1>1, <2>2, <2>4, <3>1
    <3>. QED  BY <1>7, <2>1, <3>2
  <2>. QED  BY <2>1, <2>3, <2>4 DEF Quiet, ArmsAhead, TickStays
<1>9. NowInv'
  BY <1>1, <1>3, <1>7 DEF NowInv
<1>10. RoomInv'
  <2>1. SUFFICES ASSUME NEW id \in Ids, NEW trigger \in Trigger, Exists(id)'
                 PROVE  Cardinality(Recent(deliv', id, trigger, clock)) + Weight(id)' <= 3
    BY <1>1 DEF RoomInv
  <2>. DEFINE old == Recent(deliv, id, trigger, clock)
              new == Recent(deliv', id, trigger, clock)
  <2>2. /\ IsFiniteSet(old) /\ Cardinality(old) \in Nat /\ Cardinality(new) \in Nat
        /\ Cardinality(new) <= Cardinality(old)
    BY <1>1, <1>2, RecentFinite, FS_Subset
  <2>3. Weight(id) \in 0..2 /\ Weight(id)' \in 0..2
    BY DEF Weight
  <2>4. /\ Behind(id)' => Exists(id) /\ Behind(id)
        /\ Lagging(id)' => Exists(id) /\ Lagging(id)
    BY <2>1, QuietWeight
  <2>5. CASE Exists(id)
    <3>1. Cardinality(old) + Weight(id) <= 3
      BY <1>1, <2>5 DEF LedgerInv, RoomInv
    <3>2. Weight(id)' <= Weight(id)
      BY <2>4 DEF Weight
    <3>. QED  BY <2>2, <2>3, <3>1, <3>2
  <2>6. CASE ~Exists(id)
    <3>1. id \notin used
      BY <2>1, <2>6 DEF Quiet, ArmsAhead, TickStays
    <3>2. Cardinality(old) = 0
      BY <3>1, FreshIsEmpty, FS_EmptySet
    <3>3. Weight(id)' = 0
      BY <2>4, <2>6 DEF Weight
    <3>. QED  BY <2>2, <3>2, <3>3
  <2>. QED  BY <2>5, <2>6
<1>. QED  BY <1>1, <1>2, <1>3, <1>4, <1>8, <1>9, <1>10 DEF LedgerInv

\* One row is written.
LEMMA OneArmed ==
    ASSUME TableTypeOK, NEW id \in Ids, NEW row, rows' = [rows EXCEPT ![id] = row],
           Exists(id) \/ id \notin used,
           \/ Exists(id) /\ row.next = rows[id].next
           \/ row.next = NULL
           \/ row.next >= clock
    PROVE  ArmsAhead
<1>1. \A i \in Ids : rows'[i] = IF i = id THEN row ELSE rows[i]
  BY DEF TableTypeOK
<1>. QED  BY <1>1 DEF ArmsAhead, Exists

\* Neither rows nor their fires change.
LEMMA StillQuiet ==
    ASSUME UNCHANGED <<clock, rows, deliv>>, TickStays
    PROVE  Quiet
  BY DEF Quiet, ArmsAhead, Exists, Descends, Continues

\* A listed row is done with, or the tick waits.
LEMMA TickWaits ==
    ASSUME PumpInv, \/ UNCHANGED <<tickNow, todo>>
                    \/ todo' = {}
                    \/ \E s \in todo : Done(s)
    PROVE  TickStays
  BY DEF TickStays, Done

\* The slot a call computed is not past when its transaction comes.
LEMMA CallAhead ==
    ASSUME TableInv, Timely, NEW c \in Clients, call[c] # NULL,
           clock <= call[c].now + CallTimeout
    PROVE  /\ call[c].now \in Nat /\ call[c].now <= clock /\ clock <= call[c].now + 1
           /\ call[c].kind = "upsert" =>
                 call[c].next = NULL \/ call[c].next >= clock
           /\ call[c].kind = "resume" /\ ResumeHolds(c) =>
                 call[c].next = NULL \/ call[c].next >= clock
<1>. DEFINE u == call[c]
<1>1. u \in Upserting \cup Resuming /\ CallOK(u)
  BY DEF TableInv, TableTypeOK, CallInv
<1>2. clock \in Nat /\ u.now \in Nat /\ u.now <= clock /\ clock <= u.now + 1
  BY <1>1, ModuleAssumption DEF Timely, CallOK, Upserting, Resuming, Instant, TableInv, TableTypeOK
<1>3. ASSUME NEW spec \in AnySpec, u.next = NextFire(spec, u.now)
      PROVE  u.next = NULL \/ u.next >= clock
  <2>1. u.next # NULL => u.next \in Nat /\ u.next > u.now
    BY <1>2, <1>3, NextFireLater
  <2>. QED  BY <1>2, <2>1
<1>4. ASSUME u.kind = "upsert" PROVE u.next = NULL \/ u.next >= clock
  <2>1. u.desired.spec \in AnySpec /\ u.next = NextFire(u.desired.spec, u.now)
    BY <1>1, <1>4, ModuleAssumption DEF CallOK, Upserting, Resuming, Desired
  <2>. QED  BY <1>3, <2>1
<1>5. ASSUME u.kind = "resume", ResumeHolds(c) PROVE u.next = NULL \/ u.next >= clock
  <2>1. u.id \in Ids
    BY <1>1, <1>5 DEF Upserting, Resuming
  <2>2. rows[u.id] \in Row /\ u.next = SlotAt(rows[u.id], u.now)
    BY <1>1, <1>5, <2>1 DEF ResumeHolds, CallOK, TableInv, TableTypeOK, Exists
  <2>3. rows[u.id].spec \in AnySpec
    BY <2>2, RowFacts
  <2>. QED  BY <1>3, <2>2, <2>3 DEF SlotAt
<1>. QED  BY <1>2, <1>4, <1>5

\* The fires of one schedule are retired, with a stamp of this tick of the clock or the last.
LEMMA RetireQuiet ==
    ASSUME PumpInv, LedgerInv, ArmsAhead, TickStays, clock' = clock, NEW id,
           NEW stamp \in Nat, stamp <= clock, clock <= stamp + 1,
           deliv' \in {deliv, ExpireOutstanding(deliv, id, stamp), ExpireDeliveries(deliv, stamp)}
    PROVE  Quiet
<1>1. /\ deliv \in SUBSET Delivery /\ clock \in Nat /\ \A d \in deliv : FireOK(d, clock)
  BY LedgerTypes
<1>2. Descends(deliv, deliv', clock) /\ Survives(deliv, deliv')
  <2>1. CASE deliv' = deliv
    BY <2>1 DEF Descends, Continues, Survives
  <2>. QED  BY <1>1, <2>1, ExpireDescends
<1>. QED  BY <1>2 DEF Quiet, Survives

LEMMA UpsertQuiet ==
    ASSUME PumpInv, LedgerInv, Timely, NEW c \in Clients, UpsertLand(c)
    PROVE  Quiet
<1>. DEFINE u == call[c]
<1>1. /\ clock' = clock /\ UNCHANGED <<tickNow, todo>> /\ u # NULL /\ u.kind = "upsert"
      /\ clock <= u.now + CallTimeout
  BY DEF UpsertLand
<1>2. /\ u.now \in Nat /\ u.now <= clock /\ clock <= u.now + 1
      /\ u.next = NULL \/ u.next >= clock
  BY <1>1, CallAhead DEF PumpInv
<1>3. TickStays
  BY <1>1, TickWaits
<1>4. ASSUME NEW id \in Ids, UpsertCreate(c, id) PROVE Quiet
  <2>. DEFINE row == [enabled |-> u.desired.enabled, suspended |-> FALSE, sys |-> FALSE,
                      spec |-> u.desired.spec, label |-> u.desired.label,
                      next |-> IF u.desired.enabled THEN u.next ELSE NULL,
                      failures |-> 0, revision |-> 1]
  <2>1. rows' = [rows EXCEPT ![id] = row] /\ id \notin used /\ deliv' = deliv
    BY <1>4 DEF UpsertCreate
  <2>2. row.next = NULL \/ row.next >= clock
    BY <1>2
  <2>. HIDE DEF row
  <2>3. ArmsAhead
    BY <2>1, <2>2, OneArmed DEF PumpInv, TableInv
  <2>. QED  BY <1>1, <1>2, <1>3, <2>1, <2>3, RetireQuiet
<1>5. ASSUME NEW id \in Ids, UpsertUpdate(c, id) PROVE Quiet
  <2>1. CASE UNCHANGED <<rows, deliv>>
    BY <1>1, <1>3, <2>1, StillQuiet
  <2>2. CASE /\ rows' = [rows EXCEPT ![id] = Declared(rows[id], u.desired, u.next)]
             /\ deliv' \in {deliv, ExpireOutstanding(deliv, id, u.now)}
    <3>. DEFINE row == Declared(rows[id], u.desired, u.next)
    <3>1. Exists(id) /\ rows[id] \in Row
      BY <1>5 DEF UpsertUpdate, Holder, RowsOf, PumpInv, TableInv, TableTypeOK, Exists
    <3>2. row.next = UpsertNext(rows[id], u.desired, u.next)
      <4>1. u.desired \in Desired /\ u.next \in InstantOrNull
        BY <1>1 DEF PumpInv, TableInv, TableTypeOK, Upserting, Resuming
      <4>. QED  BY <3>1, <4>1, DeclaredFacts
    <3>3. row.next = rows[id].next \/ row.next = NULL \/ row.next >= clock
      BY <1>2, <3>2 DEF UpsertNext
    <3>4. rows' = [rows EXCEPT ![id] = row]
      BY <2>2
    <3>. HIDE DEF row
    <3>5. ArmsAhead
      BY <3>1, <3>3, <3>4, OneArmed DEF PumpInv, TableInv
    <3>. QED  BY <1>1, <1>2, <1>3, <2>2, <3>5, RetireQuiet
  <2>. QED  BY <1>5, <2>1, <2>2 DEF UpsertUpdate
<1>. QED  BY <1>4, <1>5 DEF UpsertLand

LEMMA SwitchQuiet ==
    ASSUME PumpInv, LedgerInv, Timely,
           \/ \E id \in Ids : Suspend(id) \/ Delete(id)
           \/ \E c \in Clients : ResumeWrite(c)
    PROVE  Quiet
<1>1. clock \in Nat /\ clock' = clock /\ TickStays
  BY LedgerTypes, TickWaits DEF Suspend, Delete, ResumeWrite
<1>2. ASSUME NEW id \in Ids, Suspend(id) PROVE Quiet
  <2>1. /\ Exists(id) /\ rows[id] \in Row
        /\ rows' = [rows EXCEPT ![id] = SuspendedRow(rows[id])]
        /\ deliv' = ExpireOutstanding(deliv, id, clock)
    BY <1>2 DEF Suspend, SuspendedDeliveries, PumpInv, TableInv, TableTypeOK, Exists
  <2>2. SuspendedRow(rows[id]).next = NULL
    BY <2>1 DEF SuspendedRow, Row
  <2>3. ArmsAhead
    BY <2>1, <2>2, OneArmed DEF PumpInv, TableInv
  <2>. QED  BY <1>1, <2>1, <2>3, RetireQuiet
<1>3. ASSUME NEW id \in Ids, Delete(id) PROVE Quiet
  <2>1. \A i \in Ids : rows'[i] = IF i = id THEN NULL ELSE rows[i]
    BY <1>3 DEF Delete, PumpInv, TableInv, TableTypeOK
  <2>2. ArmsAhead
    BY <2>1 DEF ArmsAhead, Exists
  <2>3. deliv' = {d \in deliv : d.id # id} /\ Descends(deliv, deliv', clock)
    BY <1>3, SubsetDescends DEF Delete
  <2>4. \A d \in deliv : Exists(d.id)' => d \in deliv'
    <3>1. ~Exists(id)'
      BY <2>1 DEF Exists
    <3>. QED  BY <2>3, <3>1
  <2>. QED  BY <1>1, <2>2, <2>3, <2>4 DEF Quiet
<1>4. ASSUME NEW c \in Clients, ResumeWrite(c) PROVE Quiet
  <2>. DEFINE id == call[c].id
  <2>1. call[c] \in Resuming /\ id \in Ids /\ Exists(id) /\ rows[id] \in Row
    BY <1>4 DEF ResumeWrite, ResumeHolds, PumpInv, TableInv, TableTypeOK, Upserting, Resuming,
                Exists
  <2>2. rows' = [rows EXCEPT ![id] = ResumedRow(rows[id], call[c].next)] /\ deliv' = deliv
    BY <1>4 DEF ResumeWrite
  <2>3. ResumedRow(rows[id], call[c].next).next = IF rows[id].enabled THEN call[c].next ELSE NULL
    <3>1. call[c].next \in InstantOrNull
      BY <2>1 DEF Resuming
    <3>. QED  BY <2>1, <3>1, SwitchedFacts
  <2>4. call[c].next = NULL \/ call[c].next >= clock
    BY <1>4, CallAhead DEF ResumeWrite, PumpInv
  <2>5. ArmsAhead
    BY <2>1, <2>2, <2>3, <2>4, OneArmed DEF PumpInv, TableInv
  <2>. QED  BY <1>1, <2>2, <2>5, RetireQuiet
<1>. QED  BY <1>2, <1>3, <1>4

\* One wake of the loop.
LEMMA FetchQuiet ==
    ASSUME PumpInv, LedgerInv, FetchAndSpawn
    PROVE  Quiet
<1>1. /\ UNCHANGED <<clock, rows, tickNow, todo>> /\ clock \in Nat
      /\ deliv' \in {deliv, ExpireDeliveries(deliv, clock)}
  BY LedgerTypes DEF FetchAndSpawn
<1>2. TickStays /\ ArmsAhead
  BY <1>1, TickWaits DEF ArmsAhead, Exists
<1>. QED  BY <1>1, <1>2, RetireQuiet

\* The result of an attempt is written to the row it was for.
LEMMA ApplyQuiet ==
    ASSUME PumpInv, LedgerInv, NEW t \in pump.tasks, ApplyAttempt(t)
    PROVE  Quiet
<1>1. /\ deliv \in SUBSET Delivery /\ clock \in Nat /\ UNCHANGED <<clock, tickNow, todo>>
      /\ \A d \in deliv : FireOK(d, clock)
  BY LedgerTypes DEF ApplyAttempt
<1>2. TickStays
  BY <1>1, TickWaits
<1>3. CASE UNCHANGED <<rows, deliv>>
  BY <1>1, <1>2, <1>3, StillQuiet
<1>4. ASSUME NEW e \in deliv, OutcomeHolds(e, t.d), NEW a, ApplyDeliveryOutcome(e, a, clock)
      PROVE  Quiet
  <2>. DEFINE f == AppliedRow(e, a, clock)
  <2>1. deliv' = (deliv \ {e}) \cup {f}
    BY <1>4 DEF ApplyDeliveryOutcome, AppliedRow
  <2>2. /\ FireId(f) = FireId(e) /\ f.expires = e.expires /\ f.updated = clock
        /\ Outstanding(e) /\ e.slot \in Nat /\ e.slot <= clock /\ e.id \in Ids
    <3>1. e \in Delivery
      BY <1>1
    <3>. QED  BY <1>1, <1>4, <3>1 DEF AppliedRow, FireId, Delivery, OutcomeHolds, FireOK, Instant
  <2>. HIDE DEF f
  <2>3. Descends(deliv, deliv', clock)
    <3>1. Continues(f, e, clock)
      BY <1>1, <2>2 DEF Continues
    <3>. QED  BY <2>1, <3>1 DEF Descends, Continues
  <2>4. \A d \in deliv : \E x \in deliv' : FireId(x) = FireId(d)
    BY <2>1, <2>2
  <2>5. ArmsAhead
    <3>1. rows \in [Ids -> Row \cup {NULL}] /\ Exists(e.id)
      BY <2>2 DEF PumpInv, TableInv, TableTypeOK, DelivInv, HasRow
    <3>2. rows[e.id] \in Row
      BY <2>2, <3>1 DEF Exists
    <3>3. \/ rows' = [rows EXCEPT ![e.id].failures = 0]
          \/ rows' = [rows EXCEPT ![e.id] = CountFailure(rows[e.id])]
          \/ rows' = rows
      <4>1. rows' = CASE a.resets -> [rows EXCEPT ![e.id].failures = 0]
                      [] a.counts -> [rows EXCEPT ![e.id] = CountFailure(@)]
                      [] OTHER    -> rows
        BY <1>4 DEF ApplyDeliveryOutcome
      <4>. QED  BY <4>1
    <3>4. CountFailure(rows[e.id]).next \in {rows[e.id].next, NULL}
      BY <3>2 DEF CountFailure, Row
    <3>5. [rows[e.id] EXCEPT !.failures = 0].next = rows[e.id].next
      BY <3>2 DEF Row
    <3>6. CASE rows' = [rows EXCEPT ![e.id] = [rows[e.id] EXCEPT !.failures = 0]]
      BY <2>2, <3>1, <3>5, <3>6, OneArmed DEF PumpInv, TableInv
    <3>7. CASE rows' = [rows EXCEPT ![e.id] = CountFailure(rows[e.id])]
      BY <2>2, <3>1, <3>4, <3>7, OneArmed DEF PumpInv, TableInv
    <3>8. CASE rows' = rows
      BY <3>8 DEF ArmsAhead, Exists
    <3>. QED  BY <3>3, <3>6, <3>7, <3>8
  <2>. QED  BY <1>1, <1>2, <2>3, <2>4, <2>5 DEF Quiet
<1>. QED  BY <1>3, <1>4 DEF ApplyAttempt

\* All steps but time and the two that record a fire are quiet.
LEMMA QuietSteps ==
    ASSUME PumpInv, LedgerInv, Timely, [Next]_vars
    PROVE  \/ Quiet \/ AdvanceClock
           \/ \E id \in Ids : RunNow(id)
           \/ \E s \in todo : FireModule(s) /\ AdvanceHolds(s)
<1>1. CASE TableStep
  <2>1. ASSUME NEW c \in Clients, UpsertLand(c) PROVE Quiet
    BY <2>1, UpsertQuiet
  <2>2. ASSUME \/ \E id \in Ids : Suspend(id) \/ Delete(id)
               \/ \E c \in Clients : ResumeWrite(c)
        PROVE  Quiet
    BY <2>2, SwitchQuiet
  <2>3. ASSUME NEW c \in Clients,
               \/ \E id \in Ids, want \in Desired : UpsertCall(c, OwnerOf[id], KeyOf[id], want)
               \/ UpsertDrop(c) \/ ResumeMiss(c)
               \/ \E id \in Ids : ResumeCall(c, id)
        PROVE  Quiet
    BY <2>3, StillQuiet, TickWaits DEF UpsertCall, UpsertDrop, ResumeMiss, ResumeCall
  <2>4. ASSUME TickList PROVE Quiet
    <3>. DEFINE due == {id \in Ids : /\ Exists(id) /\ rows[id].enabled
                                     /\ rows[id].next # NULL /\ rows[id].next <= clock}
    <3>1. /\ todo' = {[id |-> id, row |-> rows[id]] : id \in due}
          /\ tickNow' = IF due = {} THEN 0 ELSE clock
          /\ UNCHANGED <<clock, rows, deliv>>
      BY <2>4 DEF TickList
    <3>2. TickStays
      <4>1. CASE due = {}
        BY <3>1, <4>1 DEF TickStays
      <4>2. CASE due # {}
        <5>1. tickNow' = clock /\ clock \in Nat
          BY <3>1, <4>2, LedgerTypes
        <5>. QED  BY <5>1 DEF TickStays
      <4>. QED  BY <4>1, <4>2
    <3>. QED  BY <3>1, <3>2, StillQuiet
  <2>5. ASSUME NEW s \in todo, FireModule(s), ~AdvanceHolds(s) PROVE Quiet
    BY <2>5, StillQuiet, TickWaits DEF FireModule
  <2>. QED  BY <1>1, <2>1, <2>2, <2>3, <2>4, <2>5 DEF TableStep
<1>2. CASE FetchAndSpawn
  BY <1>2, FetchQuiet
<1>3. ASSUME NEW t \in pump.tasks, ApplyAttempt(t) PROVE Quiet
  BY <1>3, ApplyQuiet
<1>4. CASE UNCHANGED <<clock, rows, deliv, tickNow, todo>>
  BY <1>4, StillQuiet, TickWaits
<1>5. CASE TickError
  BY <1>5, StillQuiet, TickWaits DEF TickError, FireError
<1>6. CASE Crash
  BY <1>6, StillQuiet, TickWaits DEF Crash
<1>7. ASSUME NEW t \in pump.tasks,
             (\E outcome \in Outcome : RunAttempt(t, outcome)) \/ ApplyError(t)
      PROVE  UNCHANGED <<clock, rows, deliv, tickNow, todo>>
  BY <1>7 DEF RunAttempt, ApplyError, tableVars
<1>8. ASSUME SweepError \/ UNCHANGED vars
      PROVE  UNCHANGED <<clock, rows, deliv, tickNow, todo>>
  BY <1>8 DEF SweepError, vars, tableVars
<1>. QED  BY <1>1, <1>2, <1>3, <1>4, <1>5, <1>6, <1>7, <1>8 DEF Next, Table, Attempts

\* Time passes: of the rows ended in the last instant only an outstanding one is left to
\* count, and there is one per source.
LEMMA ClockLedger ==
    ASSUME PumpInv, LedgerInv, [Next]_vars, AdvanceClock
    PROVE  LedgerInv'
<1>1. /\ clock' = clock + 1 /\ clock \in Nat /\ UNCHANGED <<rows, used, deliv, todo, tickNow>>
      /\ deliv \in SUBSET Delivery /\ Ttl \in Nat
  BY LedgerTypes, DeliveryAssumption DEF AdvanceClock
<1>2. \A d \in deliv : Timed(d, clock) /\ d.updated \in Nat /\ d.expires \in Nat
  BY <1>1 DEF LedgerInv, Delivery, Instant
<1>3. \A d \in deliv' : Timed(d, clock')
  BY <1>1, <1>2 DEF Timed
<1>4. Ever' = Ever /\ NeverReopened'
  <2>1. OpenFires' = OpenFires
    BY <1>1 DEF OpenFires
  <2>. QED  BY <2>1, EverOfAStep DEF Ever, LedgerInv, NeverReopened
<1>5. \A f \in Ever : f \in Fires /\ f[2] \in used /\ f[3] < clock' /\ f[3] <= clock'
  BY <1>1, FireFacts DEF LedgerInv, EverInv
<1>6. EverInv'
  BY <1>1, <1>4, <1>5 DEF LedgerInv, EverInv
<1>7. ArmedInv'
  BY <1>1, <1>4 DEF LedgerInv, ArmedInv, Exists, HasFire
<1>8. NowInv'
  BY <1>1, <1>4, <1>5 DEF NowInv
<1>9. RoomInv'
  <2>1. SUFFICES ASSUME NEW id \in Ids, NEW trigger \in Trigger
                 PROVE  Cardinality(Recent(deliv', id, trigger, clock')) + Weight(id)' <= 3
    BY DEF RoomInv
  <2>. DEFINE new == Recent(deliv', id, trigger, clock')
  <2>2. ASSUME NEW n \in new
        PROVE  \E d \in deliv : /\ d.id = id /\ d.trigger = trigger /\ Outstanding(d)
                                /\ n = d.slot
    BY <1>1, <1>2, <2>2, RecentFacts DEF Timed
  <2>3. \A m, n \in new : m = n
    BY <2>2 DEF PumpInv, DelivInv, OneOpenEach
  <2>. HIDE DEF new
  <2>4. Cardinality(new) \in 0..1
    <3>1. CASE new = {}
      BY <3>1, FS_EmptySet
    <3>2. ASSUME NEW n \in new PROVE Cardinality(new) = 1
      <4>1. new = {n}
        BY <2>3
      <4>. QED  BY <4>1, FS_Singleton
    <3>. QED  BY <3>1, <3>2
  <2>5. Weight(id)' \in 0..2
    BY DEF Weight
  <2>. QED  BY <2>4, <2>5 DEF new
<1>. QED  BY <1>3, <1>4, <1>6, <1>7, <1>8, <1>9 DEF LedgerInv

\* What a step that may record this fire keeps.
FireStays(id, trigger, slot) ==
    /\ \A d \in deliv' : Timed(d, clock)
    /\ EverInv' /\ NowInv' /\ NeverReopened'
    /\ Ever' \subseteq Ever \cup {<<trigger, id, slot>>}
    /\ \A f \in Ever : ~(f[1] = trigger /\ f[2] = id) /\ HasFire(f) => HasFire(f)'
    /\ \A i, tr : Recent(deliv', i, tr, clock) \subseteq
          Recent(deliv, i, tr, clock) \cup {n \in {slot} : i = id /\ tr = trigger /\ n < clock}

\* A fire is recorded, of a slot its source has not gone past, which has its row if it ever
\* opened: then it does not open again, and the rows that had to stay do.
LEMMA RecordLedger ==
    ASSUME PumpInv, PumpInv', LedgerInv, Timely, [Next]_vars, clock' = clock,
           NEW id \in Ids, Exists(id), NEW trigger \in Trigger,
           NEW slot \in Nat, NEW stamp \in Nat, slot <= stamp, stamp <= clock,
           NEW fire, fire = NewFire(id, trigger, slot, stamp),
           deliv' = RecordFireIn(deliv, fire, stamp),
           \A i \in Ids : Exists(i)' <=> Exists(i),
           \A f \in Ever : f[1] = trigger /\ f[2] = id => f[3] <= slot,
           FireId(fire) \in Ever => HasFire(FireId(fire))
    PROVE  FireStays(id, trigger, slot)
<1>1. /\ fire \in Delivery /\ fire.id = id /\ fire.trigger = trigger /\ fire.slot = slot
      /\ fire.updated = stamp /\ fire.expires = stamp + Ttl /\ Outstanding(fire) /\ Ttl \in Nat
  BY NewFireFacts, DeliveryAssumption DEF NewFire, Outstanding
<1>2. /\ deliv \in SUBSET Delivery /\ clock \in Nat /\ IsFiniteSet(deliv) /\ OneRowEach(deliv)
      /\ \A d \in deliv : FireOK(d, clock) /\ Timed(d, clock) /\ FireId(d) \in Ever
      /\ OpenFires = OpenOf(deliv) /\ OpenFires' = OpenOf(deliv') /\ deliv' \in SUBSET Delivery
      /\ \A d \in deliv : d.slot \in Nat
  <2>1. OpenFires' = OpenOf(deliv') /\ deliv' \in SUBSET Delivery
    BY DEF OpenFires, OpenOf, PumpInv, TableInv, TableTypeOK
  <2>. QED  BY <2>1, LedgerTypes DEF LedgerInv, EverInv
<1>. DEFINE rest == deliv' \ {fire}
<1>3. /\ Descends(deliv, rest, clock)
      /\ \A d \in deliv : ~(d.id = id /\ d.trigger = trigger) => d \in deliv'
  <2>1. \A d \in deliv : d.id = fire.id /\ d.trigger = fire.trigger => d.slot <= stamp + 1
    <3>1. SUFFICES ASSUME NEW d \in deliv, d.id = fire.id, d.trigger = fire.trigger
                   PROVE  d.slot <= stamp + 1
      OBVIOUS
    <3>2. d.slot <= slot
      BY <1>1, <1>2, <3>1, FireIdFacts
    <3>. QED  BY <1>2, <3>2
  <2>2. \A d \in deliv : FireOK(d, clock)
    BY <1>2
  <2>3. fire \in Delivery /\ deliv \in SUBSET Delivery /\ clock \in Nat
    BY <1>1, <1>2
  <2>4. /\ Descends(deliv, rest, clock)
        /\ \A d \in deliv : ~(d.id = fire.id /\ d.trigger = fire.trigger) => d \in deliv'
    BY <2>1, <2>2, <2>3, RecordDescends
  <2>. HIDE DEF rest
  <2>. QED  BY <1>1, <2>4
<1>4. /\ \A e \in rest : Timed(e, clock)
      /\ \A i, tr : Recent(rest, i, tr, clock) \subseteq Recent(deliv, i, tr, clock)
      /\ OpenOf(rest) \subseteq OpenOf(deliv)
      /\ \A e \in rest : \E d \in deliv : FireId(e) = FireId(d)
  <2>1. rest \in SUBSET Delivery
    BY <1>2
  <2>. HIDE DEF rest
  <2>. QED  BY <1>2, <1>3, <2>1, DescendsFacts
<1>5. \A d \in deliv' : d \in rest \/ d = fire
  OBVIOUS
<1>. HIDE DEF rest
<1>6. \A d \in deliv' : Timed(d, clock)
  BY <1>1, <1>2, <1>4, <1>5 DEF Timed
<1>7. \A i, tr : Recent(deliv', i, tr, clock) \subseteq
            Recent(deliv, i, tr, clock) \cup {n \in {slot} : i = id /\ tr = trigger /\ n < clock}
  <2>1. SUFFICES ASSUME NEW i, NEW tr, NEW n \in Recent(deliv', i, tr, clock)
                 PROVE  \/ n \in Recent(deliv, i, tr, clock)
                        \/ n = slot /\ i = id /\ tr = trigger /\ n < clock
    OBVIOUS
  <2>2. PICK d \in deliv' : /\ d.id = i /\ d.trigger = tr /\ d.slot < clock /\ n = d.slot
                            /\ Outstanding(d) \/ d.updated = clock
    BY <2>1, RecentFacts
  <2>3. CASE d = fire
    BY <1>1, <2>2, <2>3
  <2>4. CASE d \in rest
    <3>1. n \in Recent(rest, i, tr, clock)
      BY <2>2, <2>4, RecentFacts
    <3>. QED  BY <1>4, <3>1
  <2>. QED  BY <1>5, <2>3, <2>4
<1>8. \A g \in OpenFires' : g \in OpenFires \/ g = FireId(fire)
  BY <1>2, <1>4, <1>5, OpenFacts
<1>9. Ever' \subseteq Ever \cup {FireId(fire)} /\ Ever \subseteq Ever'
  BY <1>8, EverOfAStep DEF Ever
<1>10. NeverReopened'
  <2>1. Keeps(deliv, deliv', clock) \/ Opens(deliv, deliv', fire, clock)
    BY <1>2, RecordOpens
  <2>2. OpenFires \cap closed = {}
    BY DEF LedgerInv, NeverReopened
  <2>3. CASE Keeps(deliv, deliv', clock)
    BY <1>2, <2>2, <2>3, KeepsFires, EverOfAStep
  <2>4. CASE Opens(deliv, deliv', fire, clock)
    <3>1. ~HasFire(FireId(fire))
      BY <2>4 DEF Opens, HasFire
    <3>2. FireId(fire) \notin closed
      BY <3>1 DEF Ever
    <3>. QED  BY <1>8, <2>2, <3>2, EverOfAStep
  <2>. QED  BY <2>1, <2>3, <2>4
<1>11. FireId(fire)[1] = trigger /\ FireId(fire)[2] = id /\ FireId(fire)[3] = slot
       /\ FireId(fire) = <<trigger, id, slot>>
  BY <1>1, FireIdFacts DEF FireId
<1>12. EverInv'
  <2>1. used \subseteq used' /\ id \in used
    BY StepUses, LedgerTypes
  <2>2. \A d \in deliv' : FireId(d) \in Ever'
    <3>1. fire \in deliv' => FireId(fire) \in Ever'
      BY <1>1, <1>2, OpenFacts DEF Ever
    <3>2. \A d \in rest : FireId(d) \in Ever
      BY <1>2, <1>4
    <3>. QED  BY <1>5, <1>9, <3>1, <3>2
  <2>3. \A f \in Ever : f \in Fires /\ f[2] \in used /\ f[3] <= clock
    BY DEF LedgerInv, EverInv
  <2>4. FireId(fire) \in Fires
    <3>1. clock <= MaxTime /\ MaxTime \in Nat
      BY ModuleAssumption DEF PumpInv, DelivInv
    <3>2. slot \in 0..MaxTime
      BY <1>2, <3>1
    <3>. QED  BY <1>11, <3>2 DEF Fires
  <2>. QED  BY <1>2, <1>9, <1>11, <2>1, <2>2, <2>3, <2>4 DEF EverInv
<1>13. ASSUME NEW f \in Ever, ~(f[1] = trigger /\ f[2] = id), HasFire(f) PROVE HasFire(f)'
  <2>1. PICK d \in deliv : FireId(d) = f
    BY <1>13 DEF HasFire
  <2>2. d \in deliv'
    BY <1>3, <1>13, <2>1, FireIdFacts
  <2>. QED  BY <2>1, <2>2 DEF HasFire
<1>14. NowInv'
  <2>1. SUFFICES ASSUME NEW f \in Ever', f[3] = clock, Exists(f[2])'
                 PROVE  HasFire(f)'
    BY DEF NowInv
  <2>2. CASE f[1] = trigger /\ f[2] = id
    <3>1. f[3] <= slot
      BY <1>9, <1>11, <2>2
    <3>2. slot = clock /\ stamp = clock
      BY <1>2, <2>1, <3>1
    <3>3. f = FireId(fire)
      <4>1. f \in Fires
        BY <1>12 DEF EverInv
      <4>. QED  BY <1>11, <2>1, <2>2, <3>2, <4>1, FireFacts
    <3>4. Cardinality(Recent(deliv, id, trigger, clock)) <= 3
      <4>1. Cardinality(Recent(deliv, id, trigger, clock)) + Weight(id) <= 3
        BY DEF LedgerInv, RoomInv
      <4>2. Weight(id) \in 0..2 /\ Cardinality(Recent(deliv, id, trigger, clock)) \in Nat
        BY <1>2, WeightFacts, RecentFinite
      <4>. QED  BY <4>1, <4>2
    <3>5. \E e \in deliv' : FireId(e) = FireId(fire)
      BY <1>2, <3>2, <3>4, RecordSurvives DEF Timely
    <3>. QED  BY <3>3, <3>5 DEF HasFire
  <2>3. CASE ~(f[1] = trigger /\ f[2] = id)
    <3>1. f \in Ever
      BY <1>9, <1>11, <2>3
    <3>2. f[2] \in Ids
      BY <3>1, FireFacts DEF LedgerInv, EverInv
    <3>3. HasFire(f)
      BY <2>1, <3>1, <3>2 DEF LedgerInv, NowInv
    <3>. QED  BY <1>13, <2>3, <3>1, <3>3
  <2>. QED  BY <2>2, <2>3
<1>. QED  BY <1>6, <1>7, <1>9, <1>10, <1>11, <1>12, <1>13, <1>14 DEF FireStays

\* Nothing is recorded.
LEMMA NoRecordLedger ==
    ASSUME PumpInv, LedgerInv, [Next]_vars, UNCHANGED <<clock, deliv>>,
           \A i \in Ids : Exists(i)' <=> Exists(i), NEW id, NEW trigger, NEW slot
    PROVE  FireStays(id, trigger, slot)
<1>1. used \subseteq used'
  BY StepUses
<1>2. Ever' = Ever /\ NeverReopened'
  <2>1. OpenFires' = OpenFires
    BY DEF OpenFires
  <2>. QED  BY <2>1, EverOfAStep DEF Ever, LedgerInv, NeverReopened
<1>3. EverInv' /\ \A d \in deliv' : Timed(d, clock)
  BY <1>1, <1>2 DEF LedgerInv, EverInv
<1>4. \A f : HasFire(f)' <=> HasFire(f)
  BY DEF HasFire
<1>5. NowInv'
  <2>1. \A f \in Ever : f[2] \in Ids
    BY FireFacts DEF LedgerInv, EverInv
  <2>. QED  BY <1>2, <1>4, <2>1 DEF LedgerInv, NowInv
<1>. QED  BY <1>2, <1>3, <1>4, <1>5 DEF FireStays

\* A fire by hand, of this instant: its row, if it has one, is still there to refuse it.
LEMMA RunNowLedger ==
    ASSUME PumpInv, PumpInv', LedgerInv, Timely, [Next]_vars, NEW id \in Ids, RunNow(id)
    PROVE  LedgerInv'
<1>. DEFINE fire == NewFire(id, "run_now", clock, clock)
<1>1. /\ clock \in Nat /\ Exists(id) /\ UNCHANGED <<clock, rows, tickNow, todo>>
      /\ deliv' = RecordFireIn(deliv, fire, clock) /\ deliv \in SUBSET Delivery
      /\ deliv' \in SUBSET Delivery
  <2>1. deliv' \in SUBSET Delivery
    BY DEF PumpInv, TableInv, TableTypeOK
  <2>. QED  BY <2>1, LedgerTypes DEF RunNow
<1>2. \A i \in Ids : /\ Exists(i)' <=> Exists(i)
                     /\ Weight(i)' = Weight(i)
  BY <1>1 DEF Exists, Weight, Behind, Lagging
<1>3. FireId(fire) = <<"run_now", id, clock>>
  BY DEF FireId, NewFire
<1>4. FireId(fire) \in Ever => HasFire(FireId(fire))
  BY <1>1, <1>3 DEF LedgerInv, NowInv
<1>5. \A f \in Ever : f[1] = "run_now" /\ f[2] = id => f[3] <= clock
  BY DEF LedgerInv, EverInv
<1>6. FireStays(id, "run_now", clock)
  <2>1. "run_now" \in Trigger /\ clock <= clock
    BY <1>1 DEF Trigger
  <2>2. NewFire(id, "run_now", clock, clock) = fire
    OBVIOUS
  <2>. HIDE DEF fire
  <2>. QED  BY <1>1, <1>2, <1>4, <1>5, <2>1, <2>2, RecordLedger
<1>7. ArmedInv'
  <2>1. SUFFICES ASSUME NEW i \in Ids, Exists(i), rows[i].next # NULL,
                        NEW f \in Ever', f[1] = "tick", f[2] = i
                 PROVE  f[3] <= rows[i].next /\ (f[3] = rows[i].next => HasFire(f)')
    BY <1>1 DEF ArmedInv, Exists
  <2>2. f \in Ever
    BY <1>6, <2>1 DEF FireStays
  <2>3. HasFire(f) => HasFire(f)'
    BY <1>6, <2>1, <2>2 DEF FireStays
  <2>. QED  BY <2>1, <2>2, <2>3 DEF LedgerInv, ArmedInv
<1>8. RoomInv'
  <2>1. SUFFICES ASSUME NEW i \in Ids, NEW trigger \in Trigger, Exists(i)
                 PROVE  Cardinality(Recent(deliv', i, trigger, clock)) + Weight(i) <= 3
    BY <1>1, <1>2 DEF RoomInv
  <2>2. Recent(deliv', i, trigger, clock) \subseteq Recent(deliv, i, trigger, clock)
    BY <1>1, <1>6 DEF FireStays
  <2>3. /\ Cardinality(Recent(deliv', i, trigger, clock)) \in Nat
        /\ Cardinality(Recent(deliv, i, trigger, clock)) \in Nat
        /\ Cardinality(Recent(deliv', i, trigger, clock)) <=
              Cardinality(Recent(deliv, i, trigger, clock))
    BY <1>1, <2>2, RecentFinite, FS_Subset
  <2>4. Cardinality(Recent(deliv, i, trigger, clock)) + Weight(i) <= 3
    BY <2>1 DEF LedgerInv, RoomInv
  <2>. QED  BY <2>3, <2>4, WeightFacts
<1>. QED  BY <1>1, <1>6, <1>7, <1>8 DEF LedgerInv, FireStays

\* The row of a listed schedule goes on to a slot after the tick's instant.
LEMMA AdvanceFacts ==
    ASSUME PumpInv, NEW s \in todo, FireModule(s), AdvanceHolds(s)
    PROVE  /\ s.id \in Ids /\ Exists(s.id) /\ rows[s.id].next = s.row.next
           /\ s.row.next \in Nat /\ s.row.next <= tickNow /\ tickNow <= clock
           /\ \A i \in Ids : /\ Exists(i)' <=> Exists(i)
                             /\ i # s.id => rows'[i] = rows[i]
           /\ rows'[s.id].next # NULL => rows'[s.id].next \in Nat /\ rows'[s.id].next > tickNow
           /\ todo' \subseteq todo
           /\ \A r \in todo' : tickNow' = tickNow
<1>. DEFINE next == NextFire(s.row.spec, tickNow)
            row == [rows[s.id] EXCEPT !.next = next]
<1>1. /\ s.id \in Ids /\ Exists(s.id) /\ rows[s.id].next = s.row.next
      /\ s.row.next \in Nat /\ s.row.next <= tickNow /\ tickNow <= clock /\ tickNow \in Nat
      /\ rows[s.id] \in Row
  BY LedgerTypes DEF AdvanceHolds
<1>2. s.row.spec \in AnySpec
  <2>1. s.row \in Row
    BY DEF PumpInv, TableInv, TableTypeOK, Snapshot
  <2>. QED  BY <2>1, RowFacts
<1>3. next \in InstantOrNull /\ (next # NULL => next \in Nat /\ next > tickNow)
  BY <1>1, <1>2, NextFireLater
<1>. HIDE DEF next
<1>4. row \in Row /\ row.next = next
  BY <1>1, <1>3 DEF Row
<1>5. \A i \in Ids : rows'[i] = IF i = s.id THEN row ELSE rows[i]
  <2>1. rows \in [Ids -> Row \cup {NULL}]
    BY DEF PumpInv, TableInv, TableTypeOK
  <2>2. rows' = [rows EXCEPT ![s.id].next = NextFire(s.row.spec, tickNow)]
    BY DEF FireModule
  <2>3. rows' = [rows EXCEPT ![s.id] = row]
    BY <2>2 DEF next
  <2>. HIDE DEF row
  <2>. QED  BY <2>1, <2>3
<1>. HIDE DEF row
<1>6. todo' \subseteq todo /\ \A r \in todo' : tickNow' = tickNow
  BY DEF FireModule, Done
<1>7. \A i \in Ids : Exists(i)' <=> Exists(i)
  BY <1>1, <1>4, <1>5, RowFacts DEF Exists
<1>. QED  BY <1>1, <1>3, <1>4, <1>5, <1>6, <1>7

\* A fire of the tick: its slot is the one its row waited for, so it opens only if it never
\* did, and the row goes on to a slot that no fire has.
LEMMA AdvanceLedger ==
    ASSUME PumpInv, PumpInv', LedgerInv, Timely, [Next]_vars,
           NEW s \in todo, FireModule(s), AdvanceHolds(s)
    PROVE  LedgerInv'
<1>. DEFINE id == s.id
            slot == s.row.next
            fire == NewFire(id, "tick", slot, tickNow)
<1>1. /\ id \in Ids /\ Exists(id) /\ rows[id].next = slot
      /\ slot \in Nat /\ slot <= tickNow /\ tickNow <= clock
      /\ \A i \in Ids : /\ Exists(i)' <=> Exists(i)
                        /\ i # id => rows'[i] = rows[i]
      /\ rows'[id].next # NULL => rows'[id].next \in Nat /\ rows'[id].next > tickNow
      /\ todo' \subseteq todo /\ \A r \in todo' : tickNow' = tickNow
  BY AdvanceFacts
<1>2. /\ clock \in Nat /\ tickNow \in Nat /\ clock' = clock /\ NULL \notin Nat
      /\ deliv \in SUBSET Delivery /\ deliv' \in SUBSET Delivery
      /\ \A r \in todo : r.row.next \in Nat /\ r.row.next <= tickNow
  <2>1. deliv' \in SUBSET Delivery
    BY DEF PumpInv, TableInv, TableTypeOK
  <2>. QED  BY <2>1, LedgerTypes DEF FireModule
<1>3. \A f \in Ever : f[1] = "tick" /\ f[2] = id =>
         /\ f[3] <= slot
         /\ f[3] = slot => HasFire(f)
  <2>1. rows[id].next # NULL
    BY <1>1, <1>2
  <2>. HIDE DEF id, slot
  <2>. QED  BY <1>1, <2>1 DEF LedgerInv, ArmedInv
<1>4. FireStays(id, "tick", slot)
  <2>1. CASE deliv' = deliv
    BY <1>1, <1>2, <2>1, NoRecordLedger
  <2>2. CASE deliv' = RecordFireIn(deliv, fire, tickNow)
    <3>1. "tick" \in Trigger
      BY DEF Trigger
    <3>2. FireId(fire) = <<"tick", id, slot>>
      BY DEF FireId, NewFire
    <3>3. FireId(fire) \in Ever => HasFire(FireId(fire))
      BY <1>3, <3>2
    <3>4. fire = NewFire(id, "tick", slot, tickNow)
      OBVIOUS
    <3>. HIDE DEF fire, id, slot
    <3>. QED  BY <1>1, <1>2, <1>3, <2>2, <3>1, <3>3, <3>4, RecordLedger
  <2>. QED  BY <2>1, <2>2 DEF FireModule
<1>. HIDE DEF id, slot, fire
<1>5. ArmedInv'
  <2>1. SUFFICES ASSUME NEW i \in Ids, Exists(i), rows'[i].next # NULL,
                        NEW f \in Ever', f[1] = "tick", f[2] = i
                 PROVE  f[3] <= rows'[i].next /\ (f[3] = rows'[i].next => HasFire(f)')
    BY <1>1 DEF ArmedInv
  <2>2. f \in Ever \/ f = <<"tick", id, slot>>
    BY <1>4 DEF FireStays
  <2>3. CASE i = id
    <3>1. f[3] <= slot
      BY <1>1, <1>3, <2>1, <2>2, <2>3
    <3>2. f[3] \in Nat
      <4>1. f \in Fires
        BY <1>4 DEF FireStays, EverInv
      <4>. QED  BY <4>1, FireFacts
    <3>3. rows'[id].next \in Nat /\ rows'[id].next > tickNow
      BY <1>1, <2>1, <2>3
    <3>4. f[3] < rows'[id].next
      BY <1>1, <1>2, <3>1, <3>2, <3>3
    <3>. QED  BY <2>3, <3>2, <3>3, <3>4
  <2>4. CASE i # id
    <3>1. f \in Ever /\ rows'[i] = rows[i]
      BY <1>1, <2>1, <2>2, <2>4
    <3>2. f[3] <= rows[i].next /\ (f[3] = rows[i].next => HasFire(f))
      BY <2>1, <3>1 DEF LedgerInv, ArmedInv
    <3>3. HasFire(f) => HasFire(f)'
      BY <1>4, <2>1, <2>4, <3>1 DEF FireStays
    <3>. QED  BY <3>1, <3>2, <3>3
  <2>. QED  BY <2>3, <2>4
<1>6. RoomInv'
  <2>1. SUFFICES ASSUME NEW i \in Ids, NEW trigger \in Trigger, Exists(i)
                 PROVE  Cardinality(Recent(deliv', i, trigger, clock)) + Weight(i)' <= 3
    BY <1>1, <1>2 DEF RoomInv
  <2>. DEFINE old == Recent(deliv, i, trigger, clock)
              new == Recent(deliv', i, trigger, clock)
  <2>2. /\ IsFiniteSet(old) /\ Cardinality(old) \in Nat /\ Cardinality(new) \in Nat
        /\ Cardinality(old) + Weight(i) <= 3
        /\ Weight(i) \in 0..2 /\ Weight(i)' \in 0..2
    BY <1>2, <2>1, RecentFinite DEF LedgerInv, RoomInv, Weight
  <2>3. new \subseteq old \cup {n \in {slot} : i = id /\ trigger = "tick" /\ n < clock}
    BY <1>4 DEF FireStays
  <2>. SUFFICES Cardinality(new) + Weight(i)' <= 3
    OBVIOUS
  <2>. HIDE DEF old, new
  <2>4. new \subseteq old => Cardinality(new) <= Cardinality(old)
    BY <2>2, FS_Subset
  <2>5. Cardinality(new) <= Cardinality(old) + 1
    <3>1. IsFiniteSet(old \cup {slot})
          /\ Cardinality(old \cup {slot}) <= Cardinality(old) + 1
      <4>1. IsFiniteSet(old)
        BY <2>2
      <4>2. IsFiniteSet(old \cup {slot})
            /\ Cardinality(old \cup {slot}) =
                  IF slot \in old THEN Cardinality(old) ELSE Cardinality(old) + 1
        BY <4>1, FS_AddElement
      <4>. QED  BY <2>2, <4>2
    <3>2. Cardinality(new) <= Cardinality(old \cup {slot}) /\ Cardinality(old \cup {slot}) \in Nat
      BY <2>3, <3>1, FS_Subset, FS_CardinalityType
    <3>. QED  BY <2>2, <3>1, <3>2
  <2>6. CASE i # id
    <3>1. new \subseteq old /\ rows'[i] = rows[i]
      BY <1>1, <2>1, <2>3, <2>6
    <3>2. /\ Behind(i)' => Behind(i)
          /\ Lagging(i)' => Lagging(i)
      BY <1>1, <1>2, <3>1 DEF Behind, Lagging
    <3>3. Weight(i)' <= Weight(i)
      BY <3>2 DEF Weight
    <3>. QED  BY <2>2, <2>4, <3>1, <3>3
  <2>7. CASE i = id
    <3>1. ~Lagging(i)'
      <4>1. SUFFICES ASSUME NEW r \in todo', r.row.next = rows'[id].next PROVE FALSE
        BY <2>7 DEF Lagging
      <4>2. r.row.next \in Nat /\ r.row.next <= tickNow
        BY <1>1, <1>2
      <4>. QED  BY <1>1, <1>2, <4>1, <4>2
    <3>2. Behind(i)' => tickNow < clock
      BY <1>1, <1>2, <2>7 DEF Behind
    <3>3. slot < clock => Behind(i)
      BY <1>1, <1>2, <2>7 DEF Behind
    <3>4. tickNow < clock => Behind(i) /\ Lagging(i)
      BY <1>1, <1>2, <2>7, <3>3 DEF Lagging, id, slot
    <3>5. CASE tickNow < clock
      <4>1. Weight(i) = 2 /\ Weight(i)' <= 1
        BY <3>1, <3>4, <3>5 DEF Weight
      <4>. QED  BY <2>2, <2>5, <4>1
    <3>6. CASE ~(tickNow < clock)
      <4>1. Weight(i)' = 0
        BY <3>1, <3>2, <3>6 DEF Weight
      <4>2. CASE slot < clock
        <5>1. Weight(i) >= 1
          BY <3>3, <4>2 DEF Weight
        <5>. QED  BY <2>2, <2>5, <4>1, <5>1
      <4>3. CASE ~(slot < clock)
        <5>1. new \subseteq old
          BY <2>3, <4>3
        <5>. QED  BY <2>2, <2>4, <4>1, <5>1
      <4>. QED  BY <4>2, <4>3
    <3>. QED  BY <3>5, <3>6
  <2>. QED  BY <2>6, <2>7
<1>. QED  BY <1>2, <1>4, <1>5, <1>6 DEF LedgerInv, FireStays

\* The start.
LEMMA InitLedgerInv ==
    ASSUME Init
    PROVE  LedgerInv
<1>1. /\ deliv = {} /\ closed = {} /\ OpenFires = {}
      /\ \A id \in Ids : ~Exists(id)
  BY DEF Init, TableInit, OpenFires, Exists
<1>. QED  BY <1>1 DEF LedgerInv, EverInv, ArmedInv, NowInv, RoomInv, Ever, NeverReopened

LEMMA LedgerStep ==
    ASSUME PumpInv, PumpInv', LedgerInv, Timely, [Next]_vars
    PROVE  LedgerInv'
  BY QuietSteps, QuietLedger, ClockLedger, RunNowLedger, AdvanceLedger

\* The tables and the pump implement the ledger of fires for any schedules, callers, caps
\* and faults: at most one open fire per source, and no late upsert, prune, sweep, result or
\* restart lets a closed fire open again.  What the code has that this needs: a call's
\* transaction comes within a tick of the instant it took, and a source keeps four ended
\* rows.
THEOREM LedgerKept ==
    ASSUME Timely
    PROVE  Spec => LedgerSpec
<1>1. Init => LedgerInv
  BY InitLedgerInv
<1>2. PumpInv /\ PumpInv' /\ LedgerInv /\ [Next]_vars => LedgerInv'
  BY LedgerStep
<1>3. LedgerInv => NeverReopened
  BY DEF LedgerInv
<1>. QED  BY <1>1, <1>2, <1>3, PumpInvariant, LedgerImplemented, PTL DEF Spec

\* The kernel disables a schedule only after MaxFailures of its fires failed for good: the
\* retries of a fire, a result applied late and a fire asked for twice count once.
THEOREM DisableEarned ==
    ASSUME Timely
    PROVE  Spec => []SystemDisableEarned
<1>. QED  BY LedgerKept, DisableEarnedOnLedger, PTL

\* A module sees a fire at most MaxSent times, plus once for each result lost to a crash or
\* to a failed write: superseding, sweeping and re-declaring grant no extra attempts.
THEOREM SendsAreBounded ==
    ASSUME Timely
    PROVE  Spec => []SendsBounded
<1>. QED  BY LedgerKept, SendsBoundedOnLedger, PTL

=============================================================================
