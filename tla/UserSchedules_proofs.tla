------------------------ MODULE UserSchedules_proofs ------------------------
(***************************************************************************)
(* The safety of user schedules for every number of rows, callers, specs   *)
(* and faults.                                                             *)
(*                                                                         *)
(* No property of a row is inductive on its own: a tick and a PATCH write  *)
(* back values computed from a row they read earlier.  The strengthening   *)
(* says what such a stale copy is still worth: at equal revision it agrees *)
(* with the stored row on the switch and the spec (Agrees), because every  *)
(* write that changes either bumps the revision.                           *)
(***************************************************************************)
EXTENDS UserSchedules, TLAPS
LOCAL INSTANCE WellFoundedInduction

-----------------------------------------------------------------------------
(* What next_fire and initial_fire guarantee, for every spec and instant.  *)

\* A non-empty set of instants has an earliest one: Min is one of its members.
LEMMA EarliestInstant ==
    ASSUME NEW S \in SUBSET Nat, S # {}
    PROVE  Min(S) \in S /\ \A t \in S : Min(S) <= t
<1>1. PICK x \in S : \A y \in S : ~(<<y, x>> \in OpToRel(<, Nat))
  BY NatLessThanWellFounded, WFMin
<1>2. \A y \in S : x <= y
  <2>1. TAKE y \in S
  <2>2. y \in Nat /\ x \in Nat
    OBVIOUS
  <2>3. ~(y < x)
    BY <1>1, <2>2 DEF OpToRel
  <2>. QED  BY <2>2, <2>3
<1>. QED  BY <1>2 DEF Min

\* next_fire answers an instant strictly after its reference, or None: the pre-advance
\* always moves a slot into the future of the tick.
THEOREM NextFireLater ==
    ASSUME NEW spec \in AnySpec, NEW t \in Nat
    PROVE  /\ NextFire(spec, t) \in InstantOrNull
           /\ NextFire(spec, t) # NULL => NextFire(spec, t) \in Nat /\ NextFire(spec, t) > t
<1>1. CASE spec \in CronSpec
  <2>. DEFINE later == {u \in spec.slots : u > t}
  <2>1. spec.type = "cron" /\ spec.slots \in SUBSET Nat
    BY <1>1 DEF CronSpec
  <2>2. NextFire(spec, t) = IF later = {} THEN NULL ELSE Min(later)
    BY <2>1 DEF NextFire
  <2>3. later # {} => Min(later) \in later
    BY <2>1, EarliestInstant
  <2>. QED  BY <2>1, <2>2, <2>3 DEF InstantOrNull
<1>2. CASE spec \in EverySpec
  BY <1>2 DEF EverySpec, NextFire, InstantOrNull
<1>3. CASE spec \in AtSpec
  BY <1>3 DEF AtSpec, NextFire, InstantOrNull
<1>. QED  BY <1>1, <1>2, <1>3 DEF AnySpec

\* A spec with no firing left after t has none left after any later instant.
LEMMA NextFireExhausted ==
    ASSUME NEW spec \in AnySpec, NEW t \in Nat, NEW u \in Nat, t <= u,
           NextFire(spec, t) = NULL
    PROVE  NextFire(spec, u) = NULL
<1>1. CASE spec \in CronSpec
  <2>. DEFINE later(v) == {w \in spec.slots : w > v}
  <2>1. spec.type = "cron" /\ spec.slots \in SUBSET Nat
    BY <1>1 DEF CronSpec
  <2>2. \A v : NextFire(spec, v) = IF later(v) = {} THEN NULL ELSE Min(later(v))
    BY <2>1 DEF NextFire
  <2>3. later(t) = {}
    <3>1. SUFFICES ASSUME later(t) # {} PROVE FALSE
      OBVIOUS
    <3>2. Min(later(t)) \in later(t)
      BY <2>1, <3>1, EarliestInstant
    <3>3. Min(later(t)) \in Nat
      BY <2>1, <3>2
    <3>. QED  BY <2>2, <3>1, <3>3, NullAssumption
  <2>4. later(u) = {}
    BY <2>1, <2>3
  <2>. QED  BY <2>2, <2>4
<1>2. CASE spec \in EverySpec
  BY <1>2, NullAssumption DEF EverySpec, NextFire
<1>3. CASE spec \in AtSpec
  BY <1>3, NullAssumption DEF AtSpec, NextFire
<1>. QED  BY <1>1, <1>2, <1>3 DEF AnySpec

\* initial_fire answers an instant not before its reference, or None when nothing is left.
THEOREM InitialFireNotPast ==
    ASSUME NEW spec \in AnySpec, NEW t \in Nat
    PROVE  /\ InitialFire(spec, t) \in InstantOrNull
           /\ InitialFire(spec, t) # NULL
                => InitialFire(spec, t) \in Nat /\ InitialFire(spec, t) >= t
           /\ InitialFire(spec, t) = NULL => NextFire(spec, t) = NULL
<1>1. CASE IsAt(spec)
  <2>1. spec \in AtSpec
    BY <1>1 DEF IsAt, AnySpec, CronSpec, EverySpec
  <2>. QED  BY <1>1, <2>1, NullAssumption DEF InitialFire, AtSpec, InstantOrNull
<1>2. CASE ~IsAt(spec)
  BY <1>2, NextFireLater DEF InitialFire
<1>. QED  BY <1>1, <1>2

-----------------------------------------------------------------------------
(* What the strengthening says.                                            *)

\* A copy of row id read earlier, against what is stored now.
Agrees(id, copy) ==
    Exists(id) =>
       /\ copy.revision <= rows[id].revision
       /\ copy.revision = rows[id].revision =>
            /\ copy.spec = rows[id].spec
            /\ copy.enabled = rows[id].enabled
            /\ copy.failures <= failed[id]

\* A row some tick listed as due.
Listed(s) ==
    /\ s.id \in used
    /\ s.row.enabled
    /\ s.row.next \in Nat
    /\ s.row.next <= tickNow
    /\ Agrees(s.id, s.row)

UsedInv ==
    /\ \A id \in Ids : Exists(id) => id \in used
    /\ \A id \in Ids \ used : floor[id] = 0 /\ id \notin announced

TickInv ==
    /\ tickNow <= clock
    /\ \A s \in todo : Listed(s)
    /\ phase \in {"trigger", "succeeded", "failed"} =>
         /\ cur \in Snapshot
         /\ Listed(cur)
         /\ Computes(cur.row.spec)
    /\ phase = "failed" =>
         (Exists(cur.id) /\ rows[cur.id].revision = cur.row.revision
            => cur.row.failures + 1 <= failed[cur.id])

CallInv(p) ==
    /\ p.id \in used
    /\ 1 <= p.now /\ p.now <= clock
    /\ p.seen # NULL => Agrees(p.id, p.seen) /\ UpdateAccepted(p.seen, p.upd, p.now)

PatchInv == \A c \in Clients : patch[c] # NULL => CallInv(patch[c])

RowsInv ==
    /\ DormantUnarmed
    /\ NeverStranded
    /\ ConsumedSlotStaysConsumed
    /\ FailureCountHonest
    /\ AnnouncedIsDisabled

\* The inductive invariant.
Inv == TypeOK /\ clock >= 1 /\ UsedInv /\ TickInv /\ PatchInv /\ RowsInv

-----------------------------------------------------------------------------
(* The operators of a PATCH.                                               *)

LEMMA SpecFacts ==
    /\ Specs \subseteq AnySpec
    /\ NULL \notin Nat /\ NULL \notin BOOLEAN /\ NULL \notin Specs /\ NULL \notin Bodies
    /\ \A spec \in Specs \cup {BrokenSpec} : Computes(spec) => spec \in AnySpec
    /\ \A spec \in AnySpec : Computes(spec)
<1>1. \A spec \in AnySpec : Computes(spec)
  BY DEF AnySpec, CronSpec, EverySpec, AtSpec, Computes
<1>2. ~Computes(BrokenSpec)
  BY DEF BrokenSpec, Computes
<1>. QED  BY <1>1, <1>2, UserAssumption, NullAssumption

\* The slot a PATCH recomputes: in the future of 0, and NULL only when the row is off or
\* its spec is exhausted.
LEMMA RearmedFacts ==
    ASSUME NEW row \in Row, NEW upd \in Updates, NEW now \in Nat, now >= 1,
           UpdateAccepted(row, upd, now), Recomputes(row, upd)
    PROVE  LET spec == Given(upd.spec, row.spec)
               enabled == Given(upd.enabled, row.enabled)
               next == Rearmed(row, upd, now)
           IN  /\ next \in InstantOrNull
               /\ next # NULL => next > 0
               /\ ~enabled => next = NULL
               /\ enabled /\ next = NULL => spec \in AnySpec /\ NextFire(spec, now) = NULL
<1>. DEFINE spec == Given(upd.spec, row.spec)
            enabled == Given(upd.enabled, row.enabled)
<1>0. /\ upd.spec \in Specs \cup {NULL} /\ upd.enabled \in BOOLEAN \cup {NULL}
      /\ row.spec \in Specs \cup {BrokenSpec} /\ row.enabled \in BOOLEAN /\ row.failures \in Nat
  BY UserAssumption DEF Row
<1>1. enabled \in BOOLEAN
  BY <1>0 DEF Given
<1>2. CASE ~enabled
  BY <1>2 DEF Rearmed, InstantOrNull
<1>3. CASE enabled /\ upd.spec # NULL
  <2>1. spec = upd.spec /\ spec \in AnySpec
    BY <1>0, <1>3, SpecFacts DEF Given
  <2>2. Rearmed(row, upd, now) = InitialFire(spec, now)
    BY <1>3 DEF Rearmed
  <2>. QED  BY <1>3, <2>1, <2>2, InitialFireNotPast
<1>4. CASE enabled /\ upd.spec = NULL
  <2>1. spec = row.spec /\ spec \in AnySpec
    BY <1>0, <1>4, SpecFacts DEF Given, UpdateAccepted
  <2>2. CASE IsAt(spec) /\ row.failures > 0
    <3>1. Rearmed(row, upd, now) = now
      BY <1>4, <2>2 DEF Rearmed
    <3>. QED  BY <1>4, <3>1, SpecFacts DEF InstantOrNull
  <2>3. CASE ~(IsAt(spec) /\ row.failures > 0)
    <3>1. Rearmed(row, upd, now) = NextFire(spec, now)
      BY <1>4, <2>3 DEF Rearmed
    <3>. QED  BY <1>4, <2>1, <3>1, NextFireLater
  <2>. QED  BY <2>2, <2>3
<1>. QED  BY <1>1, <1>2, <1>3, <1>4

LEMMA RevisionFields ==
    ASSUME NEW row \in Row, NEW rev \in Nat
    PROVE  LET new == [row EXCEPT !.revision = rev]
           IN  /\ new \in Row /\ new.revision = rev
               /\ new.spec = row.spec /\ new.enabled = row.enabled
               /\ new.next = row.next /\ new.failures = row.failures
<1>. DEFINE new == [row EXCEPT !.revision = rev]
<1>1. new \in Row
  BY DEF Row
<1>2. new.revision = rev /\ new.spec = row.spec
  BY DEF Row
<1>3. new.enabled = row.enabled
  BY DEF Row
<1>4. new.next = row.next /\ new.failures = row.failures
  BY DEF Row
<1>. QED  BY <1>1, <1>2, <1>3, <1>4

\* The fields of the row a PATCH writes.
LEMMA ApplyFields ==
    ASSUME NEW row \in Row, NEW upd, NEW now, NEW rev \in Nat,
           ApplyUserUpdate(row, upd, now) \in Row
    PROVE  LET new == ApplyUserUpdate(row, upd, now)
               written == [new EXCEPT !.revision = rev]
           IN  /\ written \in Row
               /\ written.spec = Given(upd.spec, row.spec)
               /\ written.enabled = Given(upd.enabled, row.enabled)
               /\ written.next = IF Recomputes(row, upd) THEN Rearmed(row, upd, now)
                                 ELSE row.next
               /\ written.failures = IF Clears(row, upd) THEN 0 ELSE row.failures
               /\ written.revision = rev
               /\ new.enabled = written.enabled
<1>. DEFINE new == ApplyUserUpdate(row, upd, now)
            written == [new EXCEPT !.revision = rev]
<1>1. /\ new.spec = Given(upd.spec, row.spec)
      /\ new.enabled = Given(upd.enabled, row.enabled)
      /\ new.next = IF Recomputes(row, upd) THEN Rearmed(row, upd, now) ELSE row.next
      /\ new.failures = IF Clears(row, upd) THEN 0 ELSE row.failures
  BY DEF ApplyUserUpdate, Row
<1>2. /\ written \in Row /\ written.revision = rev
      /\ written.spec = new.spec /\ written.enabled = new.enabled
      /\ written.next = new.next /\ written.failures = new.failures
  BY RevisionFields
<1>. QED  BY <1>1, <1>2

\* What a PATCH writes is a row.
LEMMA ApplyType ==
    ASSUME NEW row \in Row, NEW upd \in Updates, NEW now \in Nat, now >= 1,
           UpdateAccepted(row, upd, now)
    PROVE  ApplyUserUpdate(row, upd, now) \in Row
<1>1. /\ upd.spec \in Specs \cup {NULL} /\ upd.enabled \in BOOLEAN \cup {NULL}
      /\ upd.body \in Bodies \cup {NULL}
  BY UserAssumption
<1>2. /\ Given(upd.spec, row.spec) \in Specs \cup {BrokenSpec}
      /\ Given(upd.enabled, row.enabled) \in BOOLEAN
      /\ Given(upd.body, row.body) \in Bodies
  BY <1>1 DEF Row, Given
<1>3. Recomputes(row, upd) => Rearmed(row, upd, now) \in InstantOrNull
  BY RearmedFacts
<1>. QED  BY <1>2, <1>3 DEF ApplyUserUpdate, Row

-----------------------------------------------------------------------------
(* Copies survive a step that only moves revisions forward.                *)

\* What a step may do to the row of an id already issued.
RowStep(id) ==
    Exists(id)' =>
       /\ Exists(id)
       /\ rows[id].revision <= rows'[id].revision
       /\ rows[id].revision = rows'[id].revision =>
            /\ rows'[id].spec = rows[id].spec
            /\ rows'[id].enabled = rows[id].enabled
            /\ failed[id] <= failed'[id]

\* A row that is left alone, or deleted, and whose count of failures does not shrink.
LEMMA SameRowStep ==
    ASSUME TypeOK, TypeOK', NEW id \in Ids, Exists(id)' => rows'[id] = rows[id],
           failed[id] <= failed'[id]
    PROVE  RowStep(id)
<1>. SUFFICES ASSUME Exists(id)' PROVE RowStep(id)
  BY DEF RowStep
<1>1. rows'[id] = rows[id] /\ rows[id] # NULL
  BY DEF Exists
<1>2. rows[id] \in Row
  BY <1>1 DEF TypeOK
<1>3. rows[id].revision \in Nat
  BY <1>2 DEF Row
<1>. QED  BY <1>1, <1>3 DEF RowStep, Exists

LEMMA AgreesStep ==
    ASSUME TypeOK, TypeOK', NEW id \in Ids, NEW copy \in Row, RowStep(id), Agrees(id, copy)
    PROVE  Agrees(id, copy)'
<1>. SUFFICES ASSUME Exists(id)'
              PROVE  /\ copy.revision <= rows'[id].revision
                     /\ copy.revision = rows'[id].revision =>
                          /\ copy.spec = rows'[id].spec
                          /\ copy.enabled = rows'[id].enabled
                          /\ copy.failures <= failed'[id]
  BY DEF Agrees
<1>1. rows[id] \in Row /\ rows'[id] \in Row
  BY DEF TypeOK, Exists, RowStep
<1>2. /\ rows[id].revision \in Nat /\ rows'[id].revision \in Nat /\ copy.revision \in Nat
      /\ copy.failures \in Nat /\ failed[id] \in Nat /\ failed'[id] \in Nat
  BY <1>1 DEF Row, TypeOK
<1>. QED  BY <1>2 DEF RowStep, Agrees

LEMMA ListedStep ==
    ASSUME TypeOK, TypeOK', \A id \in used : RowStep(id), used \subseteq used',
           tickNow' = tickNow, NEW s \in Snapshot, Listed(s)
    PROVE  Listed(s)'
<1>1. s.id \in Ids /\ s.row \in Row
  BY DEF Snapshot
<1>2. Agrees(s.id, s.row)'
  BY <1>1, AgreesStep DEF Listed
<1>. QED  BY <1>2 DEF Listed

LEMMA PatchInvStep ==
    ASSUME TypeOK, TypeOK', PatchInv, \A id \in used : RowStep(id), used \subseteq used',
           clock <= clock',
           NEW c \in Clients, patch'[c] = patch[c], patch[c] # NULL
    PROVE  CallInv(patch[c])'
<1>. DEFINE p == patch[c]
<1>1. p \in Call /\ CallInv(p)
  BY DEF TypeOK, PatchInv
<1>2. p.id \in used' /\ 1 <= p.now /\ p.now <= clock'
  BY <1>1 DEF CallInv, Call, TypeOK, Instant
<1>3. ASSUME p.seen # NULL
      PROVE  Agrees(p.id, p.seen)' /\ UpdateAccepted(p.seen, p.upd, p.now)
  <2>1. p.id \in Ids /\ p.seen \in Row
    BY <1>1, <1>3 DEF Call
  <2>2. Agrees(p.id, p.seen) /\ UpdateAccepted(p.seen, p.upd, p.now) /\ p.id \in used
    BY <1>1, <1>3 DEF CallInv
  <2>. QED  BY <2>1, <2>2, AgreesStep
<1>4. CallInv(p)'
  BY <1>2, <1>3 DEF CallInv, Agrees, Exists, UpdateAccepted
<1>. QED  BY <1>4

-----------------------------------------------------------------------------
(* The steps.                                                              *)

LEMMA InitInv == Init => Inv
<1>. SUFFICES ASSUME Init PROVE Inv
  OBVIOUS
<1>. USE DEF Init
<1>1. TypeOK
  BY UserAssumption, NullAssumption
     DEF TypeOK, Row, Snapshot, Call, Instant, InstantOrNull
<1>2. UsedInv /\ TickInv /\ PatchInv
  BY DEF UsedInv, TickInv, PatchInv, Exists
<1>3. RowsInv
  <2>1. \A id \in Ids : Exists(id) =>
           /\ rows[id].enabled /\ rows[id].next = 1 /\ rows[id].failures = 0
           /\ rows[id].spec = BrokenSpec
    BY DEF Exists
  <2>2. \A id \in Ids : floor[id] = 0 /\ failed[id] = 0 /\ announced = {}
    OBVIOUS
  <2>. QED  BY <2>1, <2>2, NullAssumption DEF RowsInv, DormantUnarmed, NeverStranded, ConsumedSlotStaysConsumed,
                   FailureCountHonest, AnnouncedIsDisabled
<1>. QED  BY <1>1, <1>2, <1>3 DEF Inv

LEMMA AdvanceClockInv == Inv /\ AdvanceClock => Inv'
<1>. SUFFICES ASSUME Inv, AdvanceClock PROVE Inv'
  OBVIOUS
<1>. USE DEF Inv, AdvanceClock, tickVars, ghostVars
<1>1. TypeOK' /\ (clock >= 1)'
  BY DEF TypeOK, Instant
<1>2. UsedInv'
  BY DEF UsedInv, Exists
<1>3. TickInv'
  BY DEF TickInv, Listed, Agrees, Exists, TypeOK, Instant
<1>4. PatchInv'
  BY DEF PatchInv, CallInv, Agrees, Exists, TypeOK, Instant, Call
<1>5. NeverStranded'
  <2>. SUFFICES ASSUME NEW id \in Ids, Exists(id), rows[id].enabled, Computes(rows[id].spec),
                       rows[id].next = NULL
                PROVE  NextFire(rows[id].spec, clock') = NULL
    BY DEF NeverStranded, Exists
  <2>1. rows[id].spec \in AnySpec
    BY SpecFacts DEF TypeOK, Row, Exists
  <2>2. NextFire(rows[id].spec, clock) = NULL
    BY DEF RowsInv, NeverStranded
  <2>. QED  BY <2>1, <2>2, NextFireExhausted DEF TypeOK, Instant
<1>6. RowsInv'
  BY <1>5 DEF RowsInv, DormantUnarmed, ConsumedSlotStaysConsumed, FailureCountHonest,
              AnnouncedIsDisabled, Exists
<1>. QED  BY <1>1, <1>2, <1>3, <1>4, <1>6

LEMMA CreateInv ==
    ASSUME Inv, NEW id \in Ids, NEW spec \in Specs, NEW enabled \in BOOLEAN, NEW body \in Bodies,
           Create(id, spec, enabled, body)
    PROVE  Inv'
<1>. USE DEF Inv, Create, tickVars, ghostVars
<1>. DEFINE new == NewRow(spec, enabled, body, clock)
<1>0. /\ clock \in Nat /\ spec \in AnySpec
      /\ InitialFire(spec, clock) \in InstantOrNull
      /\ InitialFire(spec, clock) # NULL => InitialFire(spec, clock) >= 1
      /\ InitialFire(spec, clock) = NULL => NextFire(spec, clock) = NULL
  BY SpecFacts, InitialFireNotPast DEF TypeOK, Instant, InstantOrNull
<1>1. new \in Row
  BY <1>0 DEF NewRow, Row, InstantOrNull
<1>2. TypeOK' /\ (clock >= 1)'
  BY <1>1 DEF TypeOK
<1>3. /\ rows'[id] = new
      /\ \A i \in Ids \ {id} : rows'[i] = rows[i]
  BY DEF TypeOK
<1>4. \A i \in used : RowStep(i)
  BY <1>2, <1>3, SameRowStep DEF TypeOK
<1>5. UsedInv'
  BY <1>3 DEF UsedInv, Exists
<1>6. TickInv'
  <2>1. \A s \in todo : Listed(s)'
    BY <1>2, <1>4, ListedStep DEF TickInv, TypeOK
  <2>2. phase \in {"trigger", "succeeded", "failed"} =>
          cur \in Snapshot /\ Listed(cur)' /\ cur.id # id
    BY <1>2, <1>4, ListedStep DEF TickInv, Listed
  <2>3. phase \in {"trigger", "succeeded", "failed"} => rows'[cur.id] = rows[cur.id]
    BY <2>2, <1>3 DEF Snapshot
  <2>. QED  BY <2>1, <2>2, <2>3 DEF TickInv, Exists
<1>7. PatchInv'
  BY <1>2, <1>4, PatchInvStep DEF PatchInv, TypeOK, Instant
<1>8. RowsInv'
  <2>1. floor[id] = 0 /\ id \notin announced /\ failed[id] \in Nat
    BY DEF UsedInv, TypeOK
  <2>2. /\ new.enabled = enabled /\ new.failures = 0 /\ new.spec = spec
        /\ new.next = IF enabled THEN InitialFire(spec, clock) ELSE NULL
    BY DEF NewRow
  <2>. QED  BY <1>0, <1>3, <2>1, <2>2
            DEF RowsInv, DormantUnarmed, NeverStranded, ConsumedSlotStaysConsumed,
                FailureCountHonest, AnnouncedIsDisabled, Exists, InstantOrNull
<1>. QED  BY <1>2, <1>5, <1>6, <1>7, <1>8

LEMMA DeleteInv ==
    ASSUME Inv, NEW id \in Ids, Delete(id)
    PROVE  Inv'
<1>. USE DEF Inv, Delete, tickVars, ghostVars
<1>1. TypeOK' /\ (clock >= 1)'
  BY DEF TypeOK
<1>2. \A i \in Ids : Exists(i)' => i # id /\ Exists(i) /\ rows'[i] = rows[i]
  BY DEF Exists, TypeOK
<1>3. \A i \in used : RowStep(i)
  BY <1>1, <1>2, SameRowStep DEF TypeOK
<1>4. UsedInv'
  BY <1>2 DEF UsedInv
<1>5. TickInv'
  <2>1. \A s \in todo : Listed(s)'
    BY <1>1, <1>3, ListedStep DEF TickInv, TypeOK
  <2>2. phase \in {"trigger", "succeeded", "failed"} => cur \in Snapshot /\ Listed(cur)'
    BY <1>1, <1>3, ListedStep DEF TickInv
  <2>3. phase \in {"trigger", "succeeded", "failed"} => cur.id \in Ids
    BY <2>2 DEF Snapshot
  <2>. QED  BY <1>2, <2>1, <2>2, <2>3 DEF TickInv
<1>6. PatchInv'
  BY <1>1, <1>3, PatchInvStep DEF PatchInv, TypeOK, Instant
<1>7. RowsInv'
  BY <1>2 DEF RowsInv, DormantUnarmed, NeverStranded, ConsumedSlotStaysConsumed,
              FailureCountHonest, AnnouncedIsDisabled, TypeOK
<1>. QED  BY <1>1, <1>4, <1>5, <1>6, <1>7

\* A step that touches no row, no ghost and no tick variable keeps what is said of them.
LEMMA RowsUnchanged ==
    ASSUME Inv, UNCHANGED <<clock, rows, used, tickVars, ghostVars>>
    PROVE  UsedInv' /\ TickInv' /\ RowsInv' /\ (clock >= 1)'
<1>. USE DEF Inv, tickVars, ghostVars
<1>1. UsedInv'
  BY DEF UsedInv, Exists
<1>2. TickInv'
  BY DEF TickInv, Listed, Agrees, Exists
<1>3. RowsInv'
  BY DEF RowsInv, DormantUnarmed, NeverStranded, ConsumedSlotStaysConsumed,
         FailureCountHonest, AnnouncedIsDisabled, Exists
<1>. QED  BY <1>1, <1>2, <1>3

LEMMA PatchCallInv ==
    ASSUME Inv, NEW c \in Clients, NEW id \in Ids, NEW upd \in Updates, PatchCall(c, id, upd)
    PROVE  Inv'
<1>. USE DEF Inv, PatchCall
<1>. DEFINE new == [id |-> id, upd |-> upd, now |-> clock, attempt |-> 1, seen |-> NULL]
<1>1. UsedInv' /\ TickInv' /\ RowsInv' /\ (clock >= 1)'
  BY RowsUnchanged
<1>2. new \in Call
  BY DEF Call, TypeOK
<1>3. TypeOK'
  BY <1>2 DEF TypeOK, tickVars, ghostVars
<1>4. patch'[c] = new /\ \A d \in Clients \ {c} : patch'[d] = patch[d]
  BY DEF TypeOK
<1>5. \A i \in used : RowStep(i)
  BY <1>3, SameRowStep DEF TypeOK, Exists, ghostVars
<1>6. CallInv(new)'
  <2>1. new.id \in used' /\ new.now = clock' /\ new.seen = NULL /\ clock' >= 1 /\ clock' \in Nat
    BY DEF UsedInv, TypeOK, Instant
  <2>. QED  BY <2>1 DEF CallInv
<1>7. PatchInv'
  <2>. SUFFICES ASSUME NEW d \in Clients, patch'[d] # NULL PROVE CallInv(patch[d])'
    BY DEF PatchInv
  <2>1. CASE d = c
    BY <2>1, <1>4, <1>6
  <2>2. CASE d # c
    BY <2>2, <1>3, <1>4, <1>5, PatchInvStep DEF TypeOK, Instant
  <2>. QED  BY <2>1, <2>2
<1>. QED  BY <1>1, <1>3, <1>7

LEMMA PatchReadInv ==
    ASSUME Inv, NEW c \in Clients, PatchRead(c)
    PROVE  Inv'
<1>. USE DEF Inv, PatchRead
<1>. DEFINE p == patch[c]
            new == [p EXCEPT !.seen = rows[p.id]]
<1>0. p \in Call /\ CallInv(p)
  BY DEF TypeOK, PatchInv
<1>1. UsedInv' /\ TickInv' /\ RowsInv' /\ (clock >= 1)'
  BY RowsUnchanged
<1>2. Exists(p.id) => new \in Call /\ new.id = p.id /\ new.upd = p.upd /\ new.now = p.now
                       /\ new.seen = rows[p.id]
  BY <1>0 DEF Call, TypeOK, Exists
<1>3. TypeOK'
  BY <1>2 DEF TypeOK, tickVars, ghostVars
<1>4. /\ patch'[c] = NULL \/ (Exists(p.id) /\ UpdateAccepted(rows[p.id], p.upd, p.now) /\ patch'[c] = new)
      /\ \A d \in Clients \ {c} : patch'[d] = patch[d]
  BY DEF TypeOK
<1>5. \A i \in used : RowStep(i)
  BY <1>3, SameRowStep DEF TypeOK, Exists, ghostVars
<1>6. ASSUME patch'[c] # NULL PROVE CallInv(patch[c])'
  <2>1. patch'[c] = new /\ Exists(p.id) /\ UpdateAccepted(rows[p.id], p.upd, p.now)
    BY <1>4, <1>6
  <2>2. p.id \in Ids /\ rows[p.id] \in Row
    BY <1>0, <2>1 DEF Call, Exists, TypeOK
  <2>3. rows[p.id].revision \in Nat /\ rows[p.id].failures <= failed[p.id]
    BY <2>1, <2>2 DEF Row, RowsInv, FailureCountHonest
  <2>5. p.id \in used' /\ 1 <= p.now /\ p.now <= clock'
    BY <1>0 DEF CallInv
  <2>6. patch'[c].id = p.id /\ patch'[c].upd = p.upd /\ patch'[c].now = p.now
        /\ patch'[c].seen = rows[p.id]
    BY <1>2, <2>1
  <2>7. Agrees(patch[c].id, patch[c].seen)'
    BY <2>3, <2>6 DEF Agrees, Exists, ghostVars
  <2>8. UpdateAccepted(patch[c].seen, patch[c].upd, patch[c].now)'
    BY <2>1, <2>6 DEF UpdateAccepted
  <2>. QED  BY <2>5, <2>6, <2>7, <2>8 DEF CallInv
<1>7. PatchInv'
  <2>. SUFFICES ASSUME NEW d \in Clients, patch'[d] # NULL PROVE CallInv(patch[d])'
    BY DEF PatchInv
  <2>1. CASE d = c
    BY <2>1, <1>6
  <2>2. CASE d # c
    BY <2>2, <1>3, <1>4, <1>5, PatchInvStep DEF TypeOK, Instant
  <2>. QED  BY <2>1, <2>2
<1>. QED  BY <1>1, <1>3, <1>7

LEMMA RetryFields ==
    ASSUME NEW p \in Call
    PROVE  LET new == [p EXCEPT !.attempt = p.attempt + 1, !.seen = NULL]
           IN  new \in Call /\ new.id = p.id /\ new.upd = p.upd /\ new.now = p.now
               /\ new.seen = NULL
<1>. DEFINE more == [p EXCEPT !.attempt = p.attempt + 1]
            new == [p EXCEPT !.attempt = p.attempt + 1, !.seen = NULL]
<1>1. more \in Call
  BY DEF Call
<1>2. new = [more EXCEPT !.seen = NULL]
  OBVIOUS
<1>3. [more EXCEPT !.seen = NULL] \in Call
  <2>. HIDE DEF more
  <2>. QED  BY <1>1 DEF Call
<1>4. new.id = p.id /\ new.upd = p.upd /\ new.now = p.now /\ new.seen = NULL
  BY DEF Call
<1>. QED  BY <1>2, <1>3, <1>4

LEMMA PatchLoseInv ==
    ASSUME Inv, NEW c \in Clients, PatchLose(c)
    PROVE  Inv'
<1>. USE DEF Inv, PatchLose
<1>. DEFINE p == patch[c]
            new == [p EXCEPT !.attempt = p.attempt + 1, !.seen = NULL]
<1>0. p \in Call /\ CallInv(p)
  BY DEF TypeOK, PatchInv
<1>1. UsedInv' /\ TickInv' /\ RowsInv' /\ (clock >= 1)'
  BY RowsUnchanged
<1>2. new \in Call /\ new.id = p.id /\ new.upd = p.upd /\ new.now = p.now /\ new.seen = NULL
  BY <1>0, RetryFields
<1>3. TypeOK'
  BY <1>2 DEF TypeOK, tickVars, ghostVars
<1>4. /\ patch'[c] = NULL \/ patch'[c] = new
      /\ \A d \in Clients \ {c} : patch'[d] = patch[d]
  BY DEF TypeOK
<1>5. \A i \in used : RowStep(i)
  BY <1>3, SameRowStep DEF TypeOK, Exists, ghostVars
<1>6. ASSUME patch'[c] # NULL PROVE CallInv(patch[c])'
  <2>1. patch'[c].id = p.id /\ patch'[c].now = p.now /\ patch'[c].seen = NULL
    BY <1>2, <1>4, <1>6
  <2>. QED  BY <1>0, <2>1 DEF CallInv
<1>7. PatchInv'
  <2>. SUFFICES ASSUME NEW d \in Clients, patch'[d] # NULL PROVE CallInv(patch[d])'
    BY DEF PatchInv
  <2>1. CASE d = c
    BY <2>1, <1>6
  <2>2. CASE d # c
    BY <2>2, <1>3, <1>4, <1>5, PatchInvStep DEF TypeOK, Instant
  <2>. QED  BY <2>1, <2>2
<1>. QED  BY <1>1, <1>3, <1>7

\* The write of a PATCH: the row it computes satisfies every row invariant because the
\* copy it was computed from still agrees with the stored row.
LEMMA PatchLandInv ==
    ASSUME Inv, NEW c \in Clients, PatchLand(c)
    PROVE  Inv'
<1>. USE DEF Inv, PatchLand
<1>. DEFINE p == patch[c]
            id == p.id
            new == ApplyUserUpdate(p.seen, p.upd, p.now)
            written == [new EXCEPT !.revision = rows[id].revision + 1]
<1>0. /\ p \in Call /\ p.id \in Ids /\ p.upd \in Updates /\ p.seen \in Row
      /\ p.now \in Nat /\ p.now >= 1 /\ p.now <= clock /\ clock \in Nat /\ id \in used
      /\ Agrees(id, p.seen) /\ UpdateAccepted(p.seen, p.upd, p.now)
  BY DEF TypeOK, PatchInv, CallInv, Call, Instant
<1>1. /\ Exists(id) /\ rows[id] \in Row /\ rows[id].revision = p.seen.revision
      /\ rows[id].next = p.seen.next
  BY <1>0 DEF TypeOK, UserCasHolds, Exists
<1>2. /\ p.seen.spec = rows[id].spec /\ p.seen.enabled = rows[id].enabled
      /\ p.seen.failures <= failed[id] /\ rows[id].revision \in Nat
  BY <1>0, <1>1 DEF Agrees, Row
<1>3. new \in Row
  BY <1>0, ApplyType
<1>4. /\ written \in Row
      /\ written.spec = Given(p.upd.spec, p.seen.spec)
      /\ written.enabled = Given(p.upd.enabled, p.seen.enabled)
      /\ written.next = IF Recomputes(p.seen, p.upd) THEN Rearmed(p.seen, p.upd, p.now)
                        ELSE p.seen.next
      /\ written.failures = IF Clears(p.seen, p.upd) THEN 0 ELSE p.seen.failures
      /\ written.revision = rows[id].revision + 1
      /\ new.enabled = written.enabled
  <2>. DEFINE rev == rows[id].revision + 1
  <2>1. p.seen \in Row /\ rev \in Nat
    BY <1>0, <1>2
  <2>. HIDE DEF Inv, PatchLand, p, rev
  <2>2. new.enabled = [new EXCEPT !.revision = rev].enabled
    BY <1>3, <2>1, RevisionFields
  <2>3. [new EXCEPT !.revision = rev] \in Row /\ [new EXCEPT !.revision = rev].revision = rev
    BY <1>3, <2>1, RevisionFields
  <2>. QED  BY <1>3, <2>1, <2>2, <2>3, ApplyFields DEF rev
<1>5. rows'[id] = written /\ \A i \in Ids \ {id} : rows'[i] = rows[i]
  BY <1>0 DEF TypeOK
<1>6. TypeOK' /\ (clock >= 1)'
  BY <1>0, <1>4 DEF TypeOK, tickVars, Instant
<1>7. \A i \in used : RowStep(i)
  <2>. SUFFICES ASSUME NEW i \in used PROVE RowStep(i)
    OBVIOUS
  <2>1. CASE i = id
    <3>1. rows'[id].revision = rows[id].revision + 1
      BY <1>4, <1>5
    <3>. QED  BY <2>1, <3>1, <1>1, <1>2 DEF RowStep
  <2>2. CASE i # id
    <3>1. failed[i] <= failed'[i]
      BY <2>2, <1>6 DEF TypeOK
    <3>. QED  BY <2>2, <3>1, <1>5, <1>6, SameRowStep DEF TypeOK
  <2>. QED  BY <2>1, <2>2
<1>8. UsedInv'
  BY <1>0, <1>1, <1>5 DEF UsedInv, Exists, TypeOK
<1>9. TickInv'
  <2>1. \A s \in todo : Listed(s)'
    BY <1>6, <1>7, ListedStep DEF TickInv, TypeOK, tickVars
  <2>2. phase \in {"trigger", "succeeded", "failed"} => cur \in Snapshot /\ Listed(cur)'
    BY <1>6, <1>7, ListedStep DEF TickInv, tickVars
  <2>3. ASSUME phase = "failed", Exists(cur.id)', rows'[cur.id].revision = cur.row.revision
        PROVE  cur.row.failures + 1 <= failed'[cur.id]
    <3>1. cur \in Snapshot /\ Agrees(cur.id, cur.row) /\ cur.id \in Ids /\ cur.row \in Row
      BY <2>3 DEF TickInv, Listed, Snapshot
    <3>2. cur.id # id
      BY <3>1, <2>3, <1>1, <1>2, <1>4, <1>5 DEF Agrees, Row
    <3>3. rows'[cur.id] = rows[cur.id] /\ failed'[cur.id] = failed[cur.id]
      BY <3>1, <3>2, <1>5 DEF TypeOK
    <3>4. Exists(cur.id) /\ rows[cur.id].revision = cur.row.revision
      BY <2>3, <3>3 DEF Exists, tickVars
    <3>. QED  BY <2>3, <3>3, <3>4 DEF TickInv
  <2>. QED  BY <2>1, <2>2, <2>3 DEF TickInv, tickVars
<1>10. PatchInv'
  <2>. SUFFICES ASSUME NEW d \in Clients, patch'[d] # NULL PROVE CallInv(patch[d])'
    BY DEF PatchInv
  <2>1. d # c /\ patch'[d] = patch[d]
    BY DEF TypeOK
  <2>. QED  BY <2>1, <1>6, <1>7, PatchInvStep DEF TypeOK, Instant
<1>11. RowsInv'
  <2>1. /\ \A i \in Ids \ {id} : floor'[i] = floor[i] /\ failed'[i] = failed[i]
        /\ \A i \in announced' : i \in announced
    BY DEF TypeOK
  <2>2. Recomputes(p.seen, p.upd) =>
          /\ written.next # NULL => written.next > 0
          /\ ~written.enabled => written.next = NULL
          /\ written.enabled /\ written.next = NULL =>
               written.spec \in AnySpec /\ NextFire(written.spec, p.now) = NULL
    BY <1>0, <1>4, RearmedFacts
  <2>3. ~Recomputes(p.seen, p.upd) =>
          /\ written.next = rows[id].next
          /\ written.enabled = rows[id].enabled
          /\ written.spec = rows[id].spec
    BY <1>1, <1>2, <1>4 DEF Recomputes, Given
  <2>4. ~written.enabled => written.next = NULL
    BY <2>2, <2>3, <1>0, <1>1 DEF RowsInv, DormantUnarmed
  <2>5. written.enabled /\ Computes(written.spec) /\ written.next = NULL
          => NextFire(written.spec, clock) = NULL
    <3>1. CASE Recomputes(p.seen, p.upd)
      BY <3>1, <2>2, <1>0, NextFireExhausted
    <3>2. CASE ~Recomputes(p.seen, p.upd)
      BY <3>2, <2>3, <1>0, <1>1 DEF RowsInv, NeverStranded
    <3>. QED  BY <3>1, <3>2
  <2>6. written.next # NULL => written.next > floor'[id]
    <3>1. CASE Recomputes(p.seen, p.upd)
      BY <3>1, <2>2, <1>0 DEF TypeOK
    <3>2. CASE ~Recomputes(p.seen, p.upd)
      BY <3>2, <2>3, <1>0, <1>1 DEF RowsInv, ConsumedSlotStaysConsumed
    <3>. QED  BY <3>1, <3>2
  <2>7. written.failures <= failed'[id]
    BY <1>0, <1>2, <1>4 DEF TypeOK
  <2>8. id \in announced' => ~written.enabled
    BY <1>4, <1>0
  <2>9. DormantUnarmed' /\ NeverStranded'
    BY <2>4, <2>5, <1>5, SMTT(40) DEF RowsInv, DormantUnarmed, NeverStranded, Exists
  <2>10. ConsumedSlotStaysConsumed' /\ FailureCountHonest'
    BY <2>1, <2>6, <2>7, <1>5, ZenonT(40)
    DEF RowsInv, ConsumedSlotStaysConsumed, FailureCountHonest, Exists
  <2>11. AnnouncedIsDisabled'
    BY <2>1, <2>8, <1>5 DEF RowsInv, AnnouncedIsDisabled, Exists, TypeOK
  <2>. QED  BY <2>9, <2>10, <2>11 DEF RowsInv
<1>. QED  BY <1>6, <1>8, <1>9, <1>10, <1>11

-----------------------------------------------------------------------------
(* The steps of the tick loop.                                             *)

LEMMA PatchKept ==
    ASSUME TypeOK, TypeOK', PatchInv, \A id \in used : RowStep(id), used' = used,
           clock' = clock, patch' = patch
    PROVE  PatchInv'
BY PatchInvStep DEF PatchInv, TypeOK, Instant

\* The tick moves on to another listed row, or goes to sleep.
LEMMA NextListedInv ==
    ASSUME TypeOK, TypeOK', TickInv, \A id \in used : RowStep(id), used' = used,
           clock' = clock, NEW rest, rest \subseteq todo, NextListed(rest)
    PROVE  TickInv'
<1>. USE DEF NextListed
<1>1. tickNow' <= clock'
  BY DEF TickInv, TypeOK, Instant
<1>2. \A s \in todo' : Listed(s)'
  BY ListedStep DEF TickInv, TypeOK
<1>3. phase' \in {"idle", "scan"}
  OBVIOUS
<1>. QED  BY <1>1, <1>2, <1>3 DEF TickInv

\* The fields of the pre-advance.
LEMMA AdvanceFields ==
    ASSUME NEW row \in Row, NEW t \in Nat, NEW n \in InstantOrNull
    PROVE  LET new == AdvanceWrite(row, t, n)
           IN  /\ new \in Row /\ new.next = n /\ new.spec = row.spec
               /\ new.enabled = row.enabled /\ new.failures = row.failures
               /\ new.revision = row.revision
<1>. DEFINE mid == [row EXCEPT !.last = t]
            new == AdvanceWrite(row, t, n)
<1>. USE DEF AdvanceWrite
<1>1. mid \in Row
  BY DEF Row, InstantOrNull
<1>2. new = [mid EXCEPT !.next = n]
  OBVIOUS
<1>3. [mid EXCEPT !.next = n] \in Row
  <2>. HIDE DEF mid
  <2>. QED  BY <1>1 DEF Row
<1>4. new.next = n /\ new.spec = row.spec
  BY DEF Row
<1>5. new.enabled = row.enabled
  BY DEF Row
<1>6. new.failures = row.failures /\ new.revision = row.revision
  BY DEF Row
<1>. QED  BY <1>2, <1>3, <1>4, <1>5, <1>6

\* The fields of a settle write.
LEMMA RuntimeFields ==
    ASSUME NEW row \in Row, NEW f \in Nat, NEW e \in BOOLEAN, NEW disable \in BOOLEAN
    PROVE  LET new == RuntimeWrite(row, f, e, disable)
           IN  /\ new \in Row /\ new.failures = f /\ new.enabled = e /\ new.spec = row.spec
               /\ disable => new.next = NULL /\ new.revision = row.revision + 1
               /\ ~disable => new.next = row.next /\ new.revision = row.revision
<1>. DEFINE n == IF disable THEN NULL ELSE row.next
            v == IF disable THEN row.revision + 1 ELSE row.revision
            one == [row EXCEPT !.failures = f]
            two == [one EXCEPT !.enabled = e]
            three == [two EXCEPT !.next = n]
            four == [three EXCEPT !.revision = v]
<1>0. n \in InstantOrNull /\ v \in Nat
  BY DEF Row, InstantOrNull
<1>1. one \in Row /\ one.failures = f /\ one.spec = row.spec /\ one.next = row.next
      /\ one.revision = row.revision
  BY DEF Row
<1>. HIDE DEF one, n, v
<1>2. two \in Row /\ two.enabled = e
  BY <1>1 DEF Row
<1>3. two.failures = one.failures /\ two.spec = one.spec /\ two.next = one.next
      /\ two.revision = one.revision
  BY <1>1 DEF Row
<1>. HIDE DEF two
<1>4. three \in Row /\ three.next = n
  BY <1>0, <1>2 DEF Row
<1>5. three.failures = two.failures /\ three.spec = two.spec /\ three.revision = two.revision
  BY <1>2 DEF Row
<1>6. three.enabled = two.enabled
  BY <1>2 DEF Row
<1>. HIDE DEF three
<1>7. four \in Row /\ four.revision = v
  BY <1>0, <1>4 DEF Row
<1>8. four.failures = three.failures /\ four.spec = three.spec /\ four.next = three.next
  BY <1>4 DEF Row
<1>9. four.enabled = three.enabled
  BY <1>4 DEF Row
<1>10. RuntimeWrite(row, f, e, disable) = four
  BY DEF RuntimeWrite, four, three, two, one, n, v
<1>. QED  BY <1>1, <1>2, <1>3, <1>4, <1>5, <1>6, <1>7, <1>8, <1>9, <1>10 DEF n, v

\* A step that leaves the rows alone and lets no count of failures shrink.
LEMMA QuietStep ==
    ASSUME TypeOK, TypeOK', rows' = rows, \A id \in Ids : failed[id] <= failed'[id]
    PROVE  \A id \in used : RowStep(id)
BY SameRowStep DEF TypeOK, Exists

LEMMA TickListInv == Inv /\ TickList => Inv'
<1>. SUFFICES ASSUME Inv, TickList PROVE Inv'
  OBVIOUS
<1>. USE DEF Inv, TickList
<1>. DEFINE due == {id \in Ids : Exists(id) /\ Due(rows[id], clock)}
<1>1. todo' \subseteq Snapshot
  BY DEF Snapshot, TypeOK, Exists
<1>2. TypeOK' /\ (clock >= 1)'
  BY <1>1 DEF TypeOK, ghostVars
<1>3. \A i \in used : RowStep(i)
  BY <1>2, QuietStep DEF ghostVars, TypeOK
<1>4. UsedInv' /\ RowsInv'
  <2>1. UsedInv'
    BY DEF UsedInv, Exists, ghostVars
  <2>2. RowsInv'
    BY DEF RowsInv, DormantUnarmed, NeverStranded, ConsumedSlotStaysConsumed,
           FailureCountHonest, AnnouncedIsDisabled, Exists, ghostVars
  <2>. QED  BY <2>1, <2>2
<1>5. PatchInv'
  BY <1>2, <1>3, PatchKept
<1>6. TickInv'
  <2>1. tickNow' <= clock' /\ phase' \in {"idle", "scan"}
    BY DEF TickInv, TypeOK, Instant
  <2>2. ASSUME NEW s \in todo' PROVE Listed(s)'
    <3>1. PICK id \in due : s = [id |-> id, row |-> rows[id]]
      OBVIOUS
    <3>2. /\ tickNow' = clock /\ id \in Ids /\ rows[id] \in Row /\ id \in used
          /\ Exists(id) /\ rows[id].failures <= failed[id]
      BY <3>1 DEF TypeOK, Exists, UsedInv, RowsInv, FailureCountHonest
    <3>3. rows[id].enabled /\ rows[id].next \in Nat /\ rows[id].next <= clock
          /\ rows[id].revision \in Nat
      BY <3>1, <3>2 DEF Due, Row, InstantOrNull
    <3>4. Agrees(id, rows[id])'
      BY <3>2, <3>3 DEF Agrees, Exists, ghostVars
    <3>5. s.id = id /\ s.row = rows[id]
      BY <3>1
    <3>. QED  BY <3>2, <3>3, <3>4, <3>5 DEF Listed, Agrees, Exists
  <2>. QED  BY <2>1, <2>2 DEF TickInv
<1>. QED  BY <1>2, <1>4, <1>5, <1>6

\* A step that only moves the tick on.
LEMMA MoveOnInv ==
    ASSUME Inv, NEW rest, rest \subseteq todo, NextListed(rest), faults' \in Nat,
           UNCHANGED <<clock, rows, used, patch, ghostVars>>
    PROVE  Inv'
<1>. USE DEF Inv
<1>1. TypeOK' /\ (clock >= 1)'
  BY DEF TypeOK, ghostVars, NextListed, Instant
<1>2. \A i \in used : RowStep(i)
  BY <1>1, QuietStep DEF ghostVars, TypeOK
<1>3. UsedInv'
  BY DEF UsedInv, Exists, ghostVars
<1>4. RowsInv'
  BY DEF RowsInv, DormantUnarmed, NeverStranded, ConsumedSlotStaysConsumed,
         FailureCountHonest, AnnouncedIsDisabled, Exists, ghostVars
<1>5. PatchInv'
  BY <1>1, <1>2, PatchKept
<1>6. TickInv'
  BY <1>1, <1>2, NextListedInv
<1>. QED  BY <1>1, <1>3, <1>4, <1>5, <1>6

LEMMA FireLostInv == ASSUME Inv, NEW s \in todo, FireLost(s) PROVE Inv'
<1>1. faults' \in Nat
  BY DEF Inv, TypeOK, FireLost
<1>. QED  BY <1>1, MoveOnInv DEF FireLost

LEMMA StoreErrorInv == Inv /\ StoreError => Inv'
<1>. SUFFICES ASSUME Inv, StoreError PROVE Inv'
  OBVIOUS
<1>1. faults' \in Nat
  BY DEF Inv, TypeOK, StoreError
<1>2. PICK rest : rest \subseteq todo /\ NextListed(rest)
  BY DEF StoreError
<1>. QED  BY <1>1, <1>2, MoveOnInv DEF StoreError

LEMMA CrashInv == Inv /\ Crash => Inv'
<1>. SUFFICES ASSUME Inv, Crash PROVE Inv'
  OBVIOUS
<1>. USE DEF Inv, Crash
<1>1. TypeOK' /\ (clock >= 1)'
  BY DEF TypeOK, ghostVars, NextListed, Instant
<1>2. \A i \in used : RowStep(i)
  BY <1>1, QuietStep DEF ghostVars, TypeOK
<1>3. UsedInv'
  BY DEF UsedInv, Exists, ghostVars
<1>4. RowsInv'
  BY DEF RowsInv, DormantUnarmed, NeverStranded, ConsumedSlotStaysConsumed,
         FailureCountHonest, AnnouncedIsDisabled, Exists, ghostVars
<1>5. PatchInv'
  BY DEF PatchInv
<1>6. TickInv'
  BY <1>1, <1>2, NextListedInv
<1>. QED  BY <1>1, <1>3, <1>4, <1>5, <1>6

\* The pre-advance arms a slot after the tick's instant, so after the slot it consumed.
LEMMA FireAdvanceInv ==
    ASSUME Inv, NEW s \in todo, FireAdvance(s)
    PROVE  Inv'
<1>. USE DEF Inv, FireAdvance
<1>. DEFINE id == s.id
            n == NextFire(s.row.spec, tickNow)
            new == AdvanceWrite(rows[id], tickNow, n)
<1>0. /\ s \in Snapshot /\ id \in Ids /\ s.row \in Row /\ Listed(s) /\ id \in used
      /\ rows[id] \in Row /\ Exists(id) /\ tickNow \in Nat /\ clock \in Nat /\ tickNow <= clock
  BY DEF TickInv, TypeOK, Snapshot, Listed, Exists, AdvanceHolds, Instant
<1>1. /\ rows[id].revision = s.row.revision /\ rows[id].enabled
      /\ rows[id].spec = s.row.spec /\ s.row.spec \in AnySpec
      /\ s.row.next \in Nat /\ s.row.next <= tickNow
  BY <1>0, SpecFacts DEF Listed, Agrees, AdvanceHolds, Row
<1>2. /\ n \in InstantOrNull
      /\ n # NULL => n > tickNow
      /\ n = NULL => NextFire(s.row.spec, clock) = NULL
  BY <1>0, <1>1, NextFireLater, NextFireExhausted
<1>3. /\ new \in Row /\ new.next = n /\ new.spec = rows[id].spec
      /\ new.enabled = rows[id].enabled /\ new.failures = rows[id].failures
      /\ new.revision = rows[id].revision
  BY <1>0, <1>2, AdvanceFields
<1>4. rows'[id] = new /\ \A i \in Ids \ {id} : rows'[i] = rows[i]
  BY <1>0 DEF TypeOK
<1>. HIDE DEF new, n
<1>5. TypeOK' /\ (clock >= 1)'
  <2>1. rows' \in [Ids -> Row \cup {NULL}]
    BY <1>0, <1>3 DEF TypeOK, new, n
  <2>. QED  BY <1>0, <1>1, <2>1 DEF TypeOK, Instant
<1>6. \A i \in used : RowStep(i)
  <2>. SUFFICES ASSUME NEW i \in used PROVE RowStep(i)
    OBVIOUS
  <2>1. CASE i = id
    <3>1. rows[id].revision \in Nat /\ failed[id] \in Nat /\ failed' = failed
      BY <1>0 DEF Row, TypeOK
    <3>. QED  BY <2>1, <3>1, <1>0, <1>3, <1>4 DEF RowStep
  <2>2. CASE i # id
    BY <2>2, <1>4, <1>5, SameRowStep DEF TypeOK
  <2>. QED  BY <2>1, <2>2
<1>7. UsedInv'
  BY <1>0, <1>4 DEF UsedInv, Exists, TypeOK
<1>8. PatchInv'
  BY <1>5, <1>6, PatchKept
<1>9. TickInv'
  <2>1. \A x \in todo : Listed(x)'
    BY <1>5, <1>6, ListedStep DEF TickInv, TypeOK
  <2>2. Listed(s)' /\ cur' = s
    BY <2>1
  <2>. QED  BY <1>0, <2>1, <2>2 DEF TickInv, Listed, Agrees, Exists
<1>10. RowsInv'
  <2>1. \A i \in Ids \ {id} : floor'[i] = floor[i]
    BY DEF TypeOK
  <2>2. floor'[id] = s.row.next
    BY <1>0 DEF TypeOK
  <2>3. DormantUnarmed'
    BY <1>1, <1>3, <1>4 DEF RowsInv, DormantUnarmed, Exists
  <2>4. NeverStranded'
    BY <1>1, <1>2, <1>3, <1>4 DEF RowsInv, NeverStranded, Exists
  <2>5. ConsumedSlotStaysConsumed'
    <3>1. n # NULL => n > s.row.next
      BY <1>0, <1>1, <1>2 DEF InstantOrNull
    <3>. QED  BY <3>1, <1>3, <1>4, <2>1, <2>2 DEF RowsInv, ConsumedSlotStaysConsumed, Exists
  <2>6. FailureCountHonest' /\ AnnouncedIsDisabled'
    BY <1>0, <1>3, <1>4 DEF RowsInv, FailureCountHonest, AnnouncedIsDisabled, Exists, TypeOK
  <2>. QED  BY <2>3, <2>4, <2>5, <2>6 DEF RowsInv
<1>. QED  BY <1>5, <1>7, <1>8, <1>9, <1>10

LEMMA TriggerInv ==
    ASSUME Inv, NEW ok \in BOOLEAN, Trigger(ok)
    PROVE  Inv'
<1>. USE DEF Inv, Trigger
<1>0. /\ cur \in Snapshot /\ cur.id \in Ids /\ cur.row \in Row /\ Listed(cur)
      /\ failed \in [Ids -> Nat]
  BY DEF TickInv, Snapshot, TypeOK
<1>1. /\ failed' \in [Ids -> Nat]
      /\ \A i \in Ids : failed[i] <= failed'[i]
      /\ ~ok => failed'[cur.id] = failed[cur.id] + 1
  BY <1>0
<1>2. TypeOK' /\ (clock >= 1)'
  BY <1>1 DEF TypeOK
<1>3. \A i \in used : RowStep(i)
  BY <1>1, <1>2, QuietStep
<1>4. UsedInv'
  BY DEF UsedInv, Exists
<1>5. PatchInv'
  BY <1>2, <1>3, PatchKept
<1>6. TickInv'
  <2>1. \A x \in todo : Listed(x)'
    BY <1>2, <1>3, ListedStep DEF TickInv, TypeOK
  <2>2. Listed(cur)'
    BY <1>0, <1>2, <1>3, ListedStep
  <2>3. ASSUME phase' = "failed", Exists(cur.id), rows[cur.id].revision = cur.row.revision
        PROVE  cur.row.failures + 1 <= failed'[cur.id]
    <3>1. cur.row.failures <= failed[cur.id] /\ cur.row.failures \in Nat
      BY <1>0, <2>3 DEF Listed, Agrees, Row
    <3>2. failed'[cur.id] = failed[cur.id] + 1 /\ failed[cur.id] \in Nat
      BY <1>0, <1>1, <2>3
    <3>. QED  BY <3>1, <3>2
  <2>. QED  BY <1>0, <2>1, <2>2, <2>3 DEF TickInv, Exists
<1>7. RowsInv'
  <2>1. FailureCountHonest'
    <3>. SUFFICES ASSUME NEW i \in Ids, Exists(i) PROVE rows[i].failures <= failed'[i]
      BY DEF FailureCountHonest, Exists
    <3>1. rows[i].failures <= failed[i] /\ rows[i].failures \in Nat
          /\ failed[i] \in Nat /\ failed'[i] \in Nat
      BY <1>0, <1>1 DEF RowsInv, FailureCountHonest, TypeOK, Exists, Row
    <3>. QED  BY <3>1, <1>1
  <2>. QED  BY <2>1 DEF RowsInv, DormantUnarmed, NeverStranded, ConsumedSlotStaysConsumed,
                      AnnouncedIsDisabled, Exists
<1>. QED  BY <1>2, <1>4, <1>5, <1>6, <1>7

\* A settle write that landed on the row its tick read: it keeps the slot unless it
\* disables, and an enabled row stays enabled unless it disables.
LEMMA SettleRows ==
    ASSUME Inv, TypeOK', NEW id \in Ids, id \in used, Exists(id), rows[id].enabled,
           NEW f \in Nat, f <= failed[id], NEW disable \in BOOLEAN,
           NEW e \in BOOLEAN, e <=> ~disable,
           rows' = [rows EXCEPT ![id] = RuntimeWrite(rows[id], f, e, disable)],
           UNCHANGED <<clock, used, floor, failed>>,
           announced' = announced \/ (disable /\ announced' = announced \cup {id})
    PROVE  /\ \A i \in used : RowStep(i)
           /\ UsedInv' /\ RowsInv'
<1>. DEFINE new == RuntimeWrite(rows[id], f, e, disable)
<1>0. rows[id] \in Row /\ failed[id] \in Nat
  BY DEF Inv, TypeOK, Exists
<1>1. /\ new \in Row /\ new.failures = f /\ new.spec = rows[id].spec
      /\ new.enabled = e
      /\ disable => new.next = NULL /\ new.revision = rows[id].revision + 1
      /\ ~disable => new.next = rows[id].next /\ new.revision = rows[id].revision
      /\ rows[id].revision \in Nat
  <2>1. rows[id].revision \in Nat
    BY <1>0 DEF Row
  <2>2. new \in Row /\ new.failures = f /\ new.spec = rows[id].spec
    BY <1>0, RuntimeFields, SMTT(40)
  <2>3. new.enabled = e
    BY <1>0, RuntimeFields, SMTT(40)
  <2>4. disable => new.next = NULL
    BY <1>0, RuntimeFields, ZenonT(40)
  <2>5. disable => new.revision = rows[id].revision + 1
    BY <1>0, RuntimeFields, ZenonT(40)
  <2>6. ~disable => new.next = rows[id].next /\ new.revision = rows[id].revision
    BY <1>0, RuntimeFields, SMTT(40)
  <2>. HIDE DEF new
  <2>. QED  BY <2>1, <2>2, <2>3, <2>4, <2>5, <2>6
<1>. USE DEF Inv
<1>2. rows'[id] = new /\ \A i \in Ids \ {id} : rows'[i] = rows[i]
  BY DEF TypeOK
<1>. HIDE DEF new
<1>3. \A i \in used : RowStep(i)
  <2>. SUFFICES ASSUME NEW i \in used PROVE RowStep(i)
    OBVIOUS
  <2>1. CASE i = id
    <3>1. CASE disable
      <4>1. rows'[id].revision = rows[id].revision + 1
        BY <3>1, <1>1, <1>2
      <4>. QED  BY <2>1, <4>1, <1>1 DEF RowStep
    <3>2. CASE ~disable
      <4>1. /\ rows'[id].revision = rows[id].revision /\ rows'[id].spec = rows[id].spec
            /\ failed'[id] = failed[id] /\ rows[id].revision \in Nat /\ failed[id] \in Nat
        BY <3>2, <1>0, <1>1, <1>2
      <4>2. rows'[id].enabled = e /\ rows[id].enabled \in BOOLEAN
        BY <1>0, <1>1, <1>2 DEF Row
      <4>3. rows'[id].enabled = rows[id].enabled
        BY <3>2, <4>2
      <4>4. rows[id].revision <= rows'[id].revision /\ failed[id] <= failed'[id]
        BY <4>1
      <4>. QED  BY <2>1, <4>1, <4>3, <4>4, Zenon DEF RowStep
    <3>. QED  BY <3>1, <3>2
  <2>2. CASE i # id
    BY <2>2, <1>2, SameRowStep DEF TypeOK
  <2>. QED  BY <2>1, <2>2
<1>4. UsedInv'
  BY <1>2 DEF UsedInv, Exists, TypeOK
<1>5. DormantUnarmed'
  BY <1>1, <1>2 DEF RowsInv, DormantUnarmed, Exists
<1>6. NeverStranded'
  BY <1>1, <1>2 DEF RowsInv, NeverStranded, Exists
<1>7. ConsumedSlotStaysConsumed'
  BY <1>1, <1>2 DEF RowsInv, ConsumedSlotStaysConsumed, Exists
<1>8. FailureCountHonest'
  BY <1>1, <1>2 DEF RowsInv, FailureCountHonest, Exists
<1>9. AnnouncedIsDisabled'
  <2>1. id \notin announced
    BY DEF RowsInv, AnnouncedIsDisabled
  <2>2. id \in announced' => ~new.enabled
    BY <2>1, <1>1
  <2>. QED  BY <2>2, <1>2 DEF RowsInv, AnnouncedIsDisabled, Exists, TypeOK
<1>. QED  BY <1>3, <1>4, <1>5, <1>6, <1>7, <1>8, <1>9 DEF RowsInv

\* What Listed and a CAS that held say together of the row a tick fires.
LEMMA HeldRow ==
    ASSUME Inv, NEW s \in Snapshot, Listed(s), Exists(s.id),
           rows[s.id].revision = s.row.revision
    PROVE  /\ s.id \in Ids /\ s.id \in used /\ rows[s.id].enabled
           /\ s.row.failures \in Nat /\ s.row.failures <= failed[s.id]
<1>1. s.id \in Ids /\ s.row \in Row /\ rows[s.id] \in Row
  BY DEF Snapshot, Inv, TypeOK, Exists
<1>2. rows[s.id].enabled = s.row.enabled /\ s.row.enabled
  BY DEF Listed, Agrees
<1>. QED  BY <1>1, <1>2 DEF Listed, Agrees, Row

LEMMA FireBrokenInv ==
    ASSUME Inv, NEW s \in todo, FireBroken(s)
    PROVE  Inv'
<1>. DEFINE held == RuntimeCasHolds(s.id, s.row.revision, s.row.next, s.row.last)
<1>0. s \in Snapshot /\ Listed(s) /\ TypeOK /\ clock >= 1 /\ TickInv /\ PatchInv
  BY DEF Inv, TickInv, TypeOK
<1>1. CASE ~held
  <2>1. UNCHANGED <<clock, rows, used, patch, ghostVars>> /\ faults' \in Nat
        /\ NextListed(todo \ {s})
    BY <1>0, <1>1 DEF FireBroken, ghostVars, TypeOK
  <2>. QED  BY <2>1, MoveOnInv
<1>2. CASE held
  <2>1. /\ Exists(s.id) /\ s.id \in Ids /\ s.id \in used /\ rows[s.id].enabled
        /\ s.row.failures \in Nat /\ s.row.failures <= failed[s.id]
    BY <1>0, <1>2, HeldRow DEF RuntimeCasHolds
  <2>2. /\ rows' = [rows EXCEPT ![s.id] = RuntimeWrite(rows[s.id], s.row.failures, FALSE, TRUE)]
        /\ announced' = announced \cup {s.id}
        /\ UNCHANGED <<clock, used, patch, faults, floor, failed>>
        /\ NextListed(todo \ {s})
    BY <1>2 DEF FireBroken
  <2>3. RuntimeWrite(rows[s.id], s.row.failures, FALSE, TRUE) \in Row
    <3>1. rows[s.id] \in Row
      BY <1>0, <2>1 DEF TypeOK, Exists
    <3>. QED  BY <2>1, <3>1, RuntimeFields
  <2>4. TypeOK' /\ (clock >= 1)'
    BY <1>0, <2>1, <2>2, <2>3 DEF TypeOK, NextListed, Instant
  <2>6. (\A i \in used : RowStep(i)) /\ UsedInv' /\ RowsInv'
    BY <2>1, <2>2, <2>4, SettleRows
  <2>7. TickInv'
    BY <1>0, <2>2, <2>4, <2>6, NextListedInv
  <2>8. PatchInv'
    BY <1>0, <2>2, <2>4, <2>6, PatchKept
  <2>. QED  BY <2>4, <2>6, <2>7, <2>8 DEF Inv
<1>. QED  BY <1>1, <1>2

LEMMA SettleSuccessInv == Inv /\ SettleSuccess => Inv'
<1>. SUFFICES ASSUME Inv, SettleSuccess PROVE Inv'
  OBVIOUS
<1>0. /\ cur \in Snapshot /\ Listed(cur) /\ TypeOK /\ clock >= 1 /\ TickInv /\ PatchInv
      /\ NextListed(todo) /\ faults' \in Nat
      /\ UNCHANGED <<clock, used, patch, ghostVars>>
  BY DEF Inv, TickInv, SettleSuccess, TypeOK
<1>1. CASE rows' = rows
  BY <1>0, <1>1, MoveOnInv
<1>2. CASE rows' # rows
  <2>1. SettleHolds /\ rows' = [rows EXCEPT ![cur.id] = RuntimeWrite(rows[cur.id], 0, TRUE, FALSE)]
    BY <1>2 DEF SettleSuccess
  <2>2. /\ Exists(cur.id) /\ cur.id \in Ids /\ cur.id \in used /\ rows[cur.id].enabled
        /\ failed[cur.id] \in Nat /\ rows[cur.id] \in Row
    BY <1>0, <2>1, HeldRow DEF SettleHolds, RuntimeCasHolds, TypeOK, Exists
  <2>3. RuntimeWrite(rows[cur.id], 0, TRUE, FALSE) \in Row
    BY <2>2, RuntimeFields
  <2>4. TypeOK' /\ (clock >= 1)'
    BY <1>0, <2>1, <2>2, <2>3 DEF TypeOK, NextListed, Instant, ghostVars
  <2>5. UNCHANGED <<clock, used, floor, failed>> /\ announced' = announced
        /\ 0 <= failed[cur.id]
    BY <1>0, <2>2 DEF ghostVars
  <2>6. (\A i \in used : RowStep(i)) /\ UsedInv' /\ RowsInv'
    BY <2>1, <2>2, <2>4, <2>5, SettleRows
  <2>7. TickInv'
    BY <1>0, <2>4, <2>6, NextListedInv
  <2>8. PatchInv'
    BY <1>0, <2>4, <2>6, PatchKept
  <2>. QED  BY <2>4, <2>6, <2>7, <2>8 DEF Inv
<1>. QED  BY <1>1, <1>2

LEMMA SettleFailureInv == Inv /\ SettleFailure => Inv'
<1>. SUFFICES ASSUME Inv, SettleFailure PROVE Inv'
  OBVIOUS
<1>0. /\ cur \in Snapshot /\ Listed(cur) /\ TypeOK /\ clock >= 1 /\ TickInv /\ PatchInv
      /\ NextListed(todo) /\ faults' \in Nat
      /\ UNCHANGED <<clock, used, patch, floor, failed>>
  BY DEF Inv, TickInv, SettleFailure, TypeOK
<1>1. CASE ~SettleHolds
  <2>1. rows' = rows /\ announced' = announced
    BY <1>1 DEF SettleFailure, Announces
  <2>. QED  BY <1>0, <2>1, MoveOnInv DEF ghostVars
<1>2. CASE SettleHolds
  <2>1. /\ rows' = [rows EXCEPT ![cur.id] =
                      RuntimeWrite(rows[cur.id], Failures, ~MustDisable, MustDisable)]
        /\ announced' = announced \/ (MustDisable /\ announced' = announced \cup {cur.id})
    BY <1>2 DEF SettleFailure, Announces
  <2>2. /\ Exists(cur.id) /\ cur.id \in Ids /\ cur.id \in used /\ rows[cur.id].enabled
        /\ failed[cur.id] \in Nat /\ rows[cur.id] \in Row
        /\ rows[cur.id].revision = cur.row.revision /\ cur.row.failures \in Nat
    BY <1>0, <1>2, HeldRow DEF SettleHolds, RuntimeCasHolds, TypeOK, Exists
  <2>3. Failures \in Nat /\ Failures <= failed[cur.id]
    BY <1>0, <2>2 DEF TickInv, SettleFailure, Failures
  <2>4. MustDisable \in BOOLEAN /\ (~MustDisable) \in BOOLEAN
    BY DEF MustDisable
  <2>5. RuntimeWrite(rows[cur.id], Failures, ~MustDisable, MustDisable) \in Row
    BY <2>2, <2>3, <2>4, RuntimeFields
  <2>6. TypeOK' /\ (clock >= 1)'
    BY <1>0, <2>1, <2>2, <2>5 DEF TypeOK, NextListed, Instant
  <2>7. (\A i \in used : RowStep(i)) /\ UsedInv' /\ RowsInv'
    BY <1>0, <2>1, <2>2, <2>3, <2>4, <2>6, SettleRows
  <2>8. TickInv'
    BY <1>0, <2>6, <2>7, NextListedInv
  <2>9. PatchInv'
    BY <1>0, <2>6, <2>7, PatchKept
  <2>. QED  BY <2>6, <2>7, <2>8, <2>9 DEF Inv
<1>. QED  BY <1>1, <1>2
-----------------------------------------------------------------------------
(* The theorems.                                                           *)

LEMMA StutterInv == Inv /\ UNCHANGED vars => Inv'
<1>. SUFFICES ASSUME Inv, UNCHANGED vars PROVE Inv'
  OBVIOUS
<1>. USE DEF vars
<1>1. UsedInv' /\ TickInv' /\ RowsInv' /\ (clock >= 1)'
  BY RowsUnchanged
<1>2. TypeOK'
  BY DEF Inv, TypeOK, tickVars, ghostVars
<1>3. \A i \in used : RowStep(i)
  BY <1>2, QuietStep DEF Inv, ghostVars, TypeOK
<1>4. PatchInv'
  BY <1>2, <1>3, PatchKept DEF Inv
<1>. QED  BY <1>1, <1>2, <1>4 DEF Inv

LEMMA NextInv == Inv /\ [Next]_vars => Inv'
<1>. SUFFICES ASSUME Inv, [Next]_vars PROVE Inv'
  OBVIOUS
<1>1. CASE AdvanceClock
  BY <1>1, AdvanceClockInv
<1>2. CASE \E id \in Ids, spec \in Specs, enabled \in BOOLEAN, body \in Bodies :
             Create(id, spec, enabled, body)
  BY <1>2, CreateInv
<1>3. CASE \E id \in Ids : Delete(id)
  BY <1>3, DeleteInv
<1>4. CASE \E id \in Ids, c \in Clients, upd \in Updates : PatchCall(c, id, upd)
  BY <1>4, PatchCallInv
<1>5. CASE \E c \in Clients : PatchStep(c)
  BY <1>5, PatchReadInv, PatchLandInv, PatchLoseInv DEF PatchStep
<1>6. CASE TickList
  BY <1>6, TickListInv
<1>7. CASE TickStep
  BY <1>7, FireAdvanceInv, FireLostInv, FireBrokenInv, TriggerInv, SettleSuccessInv,
     SettleFailureInv DEF TickStep
<1>8. CASE StoreError
  BY <1>8, StoreErrorInv
<1>9. CASE Crash
  BY <1>9, CrashInv
<1>10. CASE UNCHANGED vars
  BY <1>10, StutterInv
<1>. QED  BY <1>1, <1>2, <1>3, <1>4, <1>5, <1>6, <1>7, <1>8, <1>9, <1>10 DEF Next

\* The inductive invariant holds in every reachable state.
THEOREM SpecInv == Spec => []Inv
<1>1. Init => Inv
  BY InitInv
<1>2. Inv /\ [Next]_vars => Inv'
  BY NextInv
<1>. QED  BY <1>1, <1>2, PTL DEF Spec

\* Every variable keeps its type, whatever the rows, callers and faults.
THEOREM TypeCorrect == Spec => []TypeOK
<1>1. Inv => TypeOK
  BY DEF Inv
<1>. QED  BY <1>1, SpecInv, PTL

\* Scheduler::update_inner, the tick's two CAS writes and a crash never leave a disabled
\* row with a next_run_at.
THEOREM DormantSafe == Spec => []DormantUnarmed
<1>1. Inv => DormantUnarmed
  BY DEF Inv, RowsInv
<1>. QED  BY <1>1, SpecInv, PTL

\* No interleaving of PATCH, tick, store errors and crashes leaves an enabled row waiting
\* for nothing while its spec still has a firing.
THEOREM NoRowStranded == Spec => []NeverStranded
<1>1. Inv => NeverStranded
  BY DEF Inv, RowsInv
<1>. QED  BY <1>1, SpecInv, PTL

\* A slot fire_agent_run_inner pre-advanced is not armed again, short of a PATCH that
\* recomputes the slot.
THEOREM ConsumedSafe == Spec => []ConsumedSlotStaysConsumed
<1>1. Inv => ConsumedSlotStaysConsumed
  BY DEF Inv, RowsInv
<1>. QED  BY <1>1, SpecInv, PTL

\* consecutive_failures never counts a failure that did not happen.
THEOREM CountHonest == Spec => []FailureCountHonest
<1>1. Inv => FailureCountHonest
  BY DEF Inv, RowsInv
<1>. QED  BY <1>1, SpecInv, PTL

\* A schedule.disabled event is true until a PATCH enables the row again.
THEOREM AnnouncementTrue == Spec => []AnnouncedIsDisabled
<1>1. Inv => AnnouncedIsDisabled
  BY DEF Inv, RowsInv
<1>. QED  BY <1>1, SpecInv, PTL

\* A disabled row that a step turns on, and the step is no PATCH's.
TurnsOn(id) ==
    Exists(id) /\ ~rows[id].enabled /\ rows'[id] # NULL /\ rows'[id].enabled

LEMMA OnlyPatchTurnsOn ==
    ASSUME Inv, Next, NEW id \in Ids, TurnsOn(id)
    PROVE  patch' # patch
<1>. USE DEF TurnsOn
<1>0. rows \in [Ids -> Row \cup {NULL}] /\ rows[id] \in Row /\ rows'[id] # rows[id]
  BY DEF Inv, TypeOK, Exists
<1>1. ASSUME NEW i \in Ids, NEW spec \in Specs, NEW enabled \in BOOLEAN, NEW body \in Bodies,
             Create(i, spec, enabled, body)
      PROVE  FALSE
  <2>1. i # id
    BY <1>1 DEF Create, Inv, UsedInv
  <2>. QED  BY <1>0, <1>1, <2>1 DEF Create
<1>2. ASSUME NEW i \in Ids, Delete(i) PROVE FALSE
  BY <1>0, <1>2 DEF Delete
<1>3. ASSUME NEW c \in Clients, PatchLand(c) PROVE patch' # patch
  BY <1>3 DEF PatchLand, Inv, TypeOK
<1>4. ASSUME NEW s \in todo, FireAdvance(s) PROVE FALSE
  <2>1. s.id = id
    BY <1>0, <1>4 DEF FireAdvance
  <2>. QED  BY <1>4, <2>1 DEF FireAdvance, AdvanceHolds
<1>5. ASSUME NEW s \in todo, FireBroken(s) PROVE FALSE
  <2>1. s.id = id /\ rows'[id] = RuntimeWrite(rows[id], s.row.failures, FALSE, TRUE)
    BY <1>0, <1>5 DEF FireBroken
  <2>2. s.row.failures \in Nat
    BY DEF Inv, TypeOK, Snapshot, Row
  <2>3. RuntimeWrite(rows[id], s.row.failures, FALSE, TRUE).enabled = FALSE
    BY <1>0, <2>2, RuntimeFields
  <2>. QED  BY <2>1, <2>3
<1>6. ASSUME SettleSuccess \/ SettleFailure PROVE FALSE
  <2>1. cur \in Snapshot /\ Listed(cur)
    BY <1>6 DEF SettleSuccess, SettleFailure, Inv, TickInv
  <2>2. SettleHolds /\ cur.id = id
    BY <1>0, <1>6 DEF SettleSuccess, SettleFailure
  <2>. QED  BY <2>1, <2>2, HeldRow DEF SettleHolds, RuntimeCasHolds
<1>7. \/ \E i \in Ids, spec \in Specs, enabled \in BOOLEAN, body \in Bodies :
           Create(i, spec, enabled, body)
      \/ \E i \in Ids : Delete(i)
      \/ \E c \in Clients : PatchLand(c)
      \/ \E s \in todo : FireAdvance(s) \/ FireBroken(s)
      \/ SettleSuccess \/ SettleFailure
  BY <1>0 DEF Next, AdvanceClock, PatchCall, PatchStep, PatchRead, PatchLose, TickList, TickStep,
              FireLost, Trigger, StoreError, Crash
<1>. QED  BY <1>1, <1>2, <1>3, <1>4, <1>5, <1>6, <1>7

\* No write of the tick loop ever switches a disabled row on: a user's disable sticks.
THEOREM DisableSticks == Spec => UserDisableSticks
<1>1. Inv /\ [Next]_vars =>
        [\A id \in Ids :
           (Exists(id) /\ ~rows[id].enabled /\ rows'[id] # NULL /\ rows'[id].enabled)
              => patch' # patch]_vars
  BY OnlyPatchTurnsOn DEF TurnsOn
<1>. QED  BY <1>1, SpecInv, PTL DEF Spec, UserDisableSticks
=============================================================================
