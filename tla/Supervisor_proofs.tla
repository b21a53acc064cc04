-------------------------- MODULE Supervisor_proofs --------------------------
(***************************************************************************)
(* The supervisors of one slot, for any number of supervisors, generations *)
(* and requests.                                                           *)
(*                                                                         *)
(* At most one supervisor holds the slot, and whatever runs belongs to it. *)
(* What a supervisor still knows at each step of its loop is a predicate   *)
(* on its own state (Knows); the rest of the inductive invariant ties that *)
(* state to the slot, the generations and the process groups.              *)
(***************************************************************************)
EXTENDS Supervisor, FiniteSetTheorems, TLAPS

-----------------------------------------------------------------------------
(* Where a supervisor is.                                                  *)

\* It has a process and its generation.
Serving == {"spawned", "handshake", "admit", "publish_running", "serving", "drain", "draining",
            "revoke", "publish_stopping", "settle", "terminate"}
\* It gave up on a group that may still be there.
Lost == {"unconfirmed", "publish_failed", "wait_failed"}
\* It is on its way out, without a process.
Stopping == {"retire", "release", "publish_stopped"}
\* It has no process and may start one.
Between == {"none", "fresh", "top", "open", "spawning", "decide", "retire_gaveup",
            "publish_gaveup", "publish_backoff", "backoff", "check", "retire_changed",
            "publish_changed", "wait_stop"}
\* Its task unwinds.
Exiting == {"exit_retire", "exit_publish", "exit_release"}

\* Its run has the slot.
Installed == {"handshake", "admit", "publish_running", "serving", "drain", "draining"}
\* Its run is revoked.
Revoked == {"publish_stopping", "settle", "terminate", "gone"}
\* Before anything of a stop was recorded.
Unrecorded == Between \cup {"spawned", "handshake", "admit", "publish_running", "serving"}
\* Between the end of serving and the end of the group.
Ending == {"drain", "draining", "revoke", "publish_stopping", "settle", "terminate"}
\* The breaker has not tripped.
Trying == (Serving \cup Between \cup {"gone"}) \ {"retire_gaveup", "publish_gaveup", "wait_stop"}

-----------------------------------------------------------------------------
(* What the loop's state x says at each step.                              *)

\* Its run, its doubt about the group, its hold on the slot.
RunKnown(x) ==
    /\ x.run # NoGen <=> x.pc \in Serving \cup {"gone", "drop_process"}
    /\ x.mine = NoGen <=> x.pc = "none"
    /\ x.pc \in Serving \cup Lost => x.unconfirmed
    /\ x.pc \in Between \cup Stopping \cup {"gone"} => ~x.unconfirmed
    /\ x.released => ~x.unconfirmed /\ x.pc \in {"publish_stopped", "over"} \cup Exiting
    /\ x.pc = "publish_stopped" => x.released
    /\ x.pc = "over" => x.released \/ x.unconfirmed
    /\ x.pc \in Trying => x.fails < Threshold

Blank(rec) ==
    rec.process = "?" /\ rec.drain = "?" /\ rec.group = "?" /\ rec.end = "?" /\ ~rec.began

\* The record as far as it is written.
RecordKnown(x) ==
    /\ x.pc \in {"none"} \cup LivePcs => x.rec.end = "?"
    /\ x.pc \in {"drop_process"} \cup Exiting => x.rec.end \in {"?", "stopped"}
    /\ x.pc \in Unrecorded => Blank(x.rec)
    /\ x.pc \in Ending =>
          /\ x.rec.group = "?"
          /\ IF x.asked THEN x.rec.process = "running" ELSE Blank(x.rec)
    /\ x.pc \in {"drain", "draining"} => x.asked
    /\ x.pc = "gone" =>
          IF x.asked THEN x.rec.process = "running" /\ x.rec.group = "gone" ELSE Blank(x.rec)
    /\ x.pc \in Stopping => x.rec.process = "none" \/ x.rec.group = "gone"
    /\ x.unconfirmed => x.rec.process # "none" /\ x.rec.group # "gone"
    /\ x.pc = "over" =>
          /\ x.rec.process # "?" /\ x.rec.end # "?"
          /\ x.rec.began => x.rec.drain # "?"
          /\ x.status = "stopped" => x.rec.end = "stopped"
    /\ x.rec.end = "stopped" => x.how = "run"

\* Who asked for the end, and what was answered.
StopKnown(x) ==
    /\ x.pc \in {"none"} \cup LivePcs => x.how = "run"
    /\ x.asked => x.stop # "none"
    /\ x.status = "stopped" =>
          /\ x.pc \in {"over"} \cup Exiting
          /\ x.how = "run" /\ x.released
          /\ x.rec.process = "none" \/ x.rec.group = "gone"
    /\ x.ans # "none" => x.pc = "over"
    /\ x.ans = "ok" => x.how = "run" /\ x.status = "stopped"

Knows(x) == RunKnown(x) /\ RecordKnown(x) /\ StopKnown(x)

-----------------------------------------------------------------------------
(* The slot, the generations and the process groups.                       *)

Holds(s) == ~At(s, "none") /\ ~sup[s].released

\* One supervisor holds the slot while it is held, and none otherwise.
HeldInv ==
    /\ held <=> \E s \in Sups : Holds(s)
    /\ \A s, t \in Sups : Holds(s) /\ Holds(t) => s = t

\* A process group belongs to the supervisor that holds the slot, which is not sure it is
\* gone; while that supervisor has a run the group is the run's.
ProcInv ==
    /\ \A g \in Gens : Alive(g) =>
          \E s \in Sups :
              /\ proc[g].of = s /\ Holds(s) /\ sup[s].unconfirmed
              /\ sup[s].run # NoGen => sup[s].run = g
    /\ \A g, h \in Gens : Alive(g) /\ Alive(h) => g = h

\* What the generations are to their supervisors.
GenInv ==
    /\ \A s \in Sups : sup[s].mine # NoGen => gen[sup[s].mine].kind # "none"
    /\ \A s \in Sups : sup[s].run # NoGen =>
          /\ gen[sup[s].run].kind = "process"
          /\ At(s, "spawned") => gen[sup[s].run].state = "starting"
          /\ sup[s].pc \in Revoked => gen[sup[s].run].state = "revoked"
          /\ \A t \in Sups \ {s} : sup[t].mine # sup[s].run
    /\ \A g \in Gens : gen[g].kind = "process" /\ gen[g].state # "revoked" =>
          \E s \in Sups : sup[s].run = g

\* The slot has the run that serves, or something that can be replaced.
SlotInv ==
    /\ \A s \in Sups :
          /\ sup[s].pc \in Installed => slot = sup[s].run
          /\ At(s, "spawned") => slot # sup[s].run
    /\ Replaceable \/ \E s \in Sups : sup[s].run = slot

\* The inductive invariant.
Inv ==
    /\ TypeOK
    /\ \A s \in Sups : Knows(sup[s])
    /\ HeldInv /\ ProcInv /\ GenInv /\ SlotInv

-----------------------------------------------------------------------------
(* Lemmas about the operators of the model.                                *)

\* A name found free is a name, and is free.
LEMMA NewGenFacts ==
    ASSUME CanNew
    PROVE  NewGen \in Gens /\ FreeGen(NewGen)
<1>. DEFINE F == {g \in Gens : FreeGen(g)}
<1>1. F \in SUBSET Nat /\ F # {}
  BY GensAssumption DEF CanNew
<1>2. PICK g \in F : \A h \in F : ~(<<h, g>> \in OpToRel(<, Nat))
  BY <1>1, NatLessThanWellFounded, WFMin
<1>3. \A h \in F : g <= h
  <2>1. TAKE h \in F
  <2>2. h \in Nat /\ g \in Nat
    BY <1>1
  <2>3. ~(h < g)
    BY <1>2, <2>2 DEF OpToRel
  <2>. QED  BY <2>2, <2>3
<1>. QED  BY <1>3 DEF NewGen

\* The first generation of a slot is a name.
LEMMA FirstGen ==
    (CHOOSE g \in Gens : \A h \in Gens : g <= h) \in Gens
<1>1. PICK g \in Gens : \A h \in Gens : ~(<<h, g>> \in OpToRel(<, Nat))
  BY GensAssumption, NatLessThanWellFounded, WFMin
<1>2. \A h \in Gens : g <= h
  <2>1. TAKE h \in Gens
  <2>2. h \in Nat /\ g \in Nat
    BY GensAssumption
  <2>3. ~(h < g)
    BY <1>1, <2>2 DEF OpToRel
  <2>. QED  BY <2>2, <2>3
<1>. QED  BY <1>2

\* A field of the record is written once and the others are left alone.
LEMMA OnceProcess ==
    ASSUME NEW rec \in StopRecord, NEW v \in {"none", "running"}
    PROVE  LET n == Once(rec, "process", v)
           IN  /\ n \in StopRecord
               /\ n.process = IF rec.process = "?" THEN v ELSE rec.process
               /\ n.drain = rec.drain /\ n.group = rec.group /\ n.end = rec.end
               /\ n.began = rec.began /\ n.abandoning = rec.abandoning
BY DEF Once, StopRecord

LEMMA OnceDrain ==
    ASSUME NEW rec \in StopRecord,
           NEW v \in {"idle", "deadline", "exited", "callback", "skipped", "cut"}
    PROVE  LET n == Once(rec, "drain", v)
           IN  /\ n \in StopRecord
               /\ n.drain = IF rec.drain = "?" THEN v ELSE rec.drain
               /\ n.process = rec.process /\ n.group = rec.group /\ n.end = rec.end
               /\ n.began = rec.began /\ n.abandoning = rec.abandoning
BY DEF Once, StopRecord

LEMMA OnceGroup ==
    ASSUME NEW rec \in StopRecord, NEW v \in {"gone", "failed", "killed", "unavailable"}
    PROVE  LET n == Once(rec, "group", v)
           IN  /\ n \in StopRecord
               /\ n.group = IF rec.group = "?" THEN v ELSE rec.group
               /\ n.process = rec.process /\ n.drain = rec.drain /\ n.end = rec.end
               /\ n.began = rec.began /\ n.abandoning = rec.abandoning
BY DEF Once, StopRecord

LEMMA OnceEnd ==
    ASSUME NEW rec \in StopRecord, NEW v \in {"stopped", "cut_off", "killed", "panicked"}
    PROVE  LET n == Once(rec, "end", v)
           IN  /\ n \in StopRecord
               /\ n.end = IF rec.end = "?" THEN v ELSE rec.end
               /\ n.process = rec.process /\ n.drain = rec.drain /\ n.group = rec.group
               /\ n.began = rec.began /\ n.abandoning = rec.abandoning
BY DEF Once, StopRecord

\* saw_stop writes what process there was, and that nothing was drained.
LEMMA SawStopFacts ==
    ASSUME NEW rec \in StopRecord, NEW v \in {"none", "running"}
    PROVE  LET n == SawStop(rec, v)
           IN  /\ n \in StopRecord
               /\ n.process = IF rec.process = "?" THEN v ELSE rec.process
               /\ n.drain = IF rec.drain = "?" THEN "skipped" ELSE rec.drain
               /\ n.group = rec.group /\ n.end = rec.end
               /\ n.began = rec.began /\ n.abandoning = rec.abandoning
<1>. DEFINE m == Once(rec, "process", v)
<1>1. /\ m \in StopRecord
      /\ m.process = IF rec.process = "?" THEN v ELSE rec.process
      /\ m.drain = rec.drain /\ m.group = rec.group /\ m.end = rec.end
      /\ m.began = rec.began /\ m.abandoning = rec.abandoning
  BY OnceProcess
<1>2. SawStop(rec, v) = Once(m, "drain", "skipped")
  BY DEF SawStop
<1>. HIDE DEF m
<1>3. LET n == Once(m, "drain", "skipped")
      IN  /\ n \in StopRecord
          /\ n.drain = IF m.drain = "?" THEN "skipped" ELSE m.drain
          /\ n.process = m.process /\ n.group = m.group /\ n.end = m.end
          /\ n.began = m.began /\ n.abandoning = m.abandoning
  BY <1>1, OnceDrain
<1>. QED  BY <1>1, <1>2, <1>3

\* A loop that only changed its own state: the state of the others is what it was.
LEMMA Written ==
    ASSUME TypeOK, NEW s \in Sups, NEW y \in Loop, sup' = [sup EXCEPT ![s] = y]
    PROVE  /\ sup' \in [Sups -> Loop] /\ sup'[s] = y
           /\ \A t \in Sups \ {s} : sup'[t] = sup[t]
BY DEF TypeOK

-----------------------------------------------------------------------------
(* What a supervisor knows is kept by each step of its own.                *)

\* Only supervisor s moved, and it knows what it should.
Stepped(s) ==
    /\ sup' \in [Sups -> Loop]
    /\ \A t \in Sups \ {s} : sup'[t] = sup[t]
    /\ Knows(sup'[s])

\* Nothing that another supervisor, the slot or a process depends on.
Same(x, y) ==
    y.mine = x.mine /\ y.run = x.run /\ y.unconfirmed = x.unconfirmed /\ y.released = x.released

\* The steps of the loop that only move it, or publish a status.
MayMove(p, q) ==
    \/ p \in {"fresh", "top"} /\ q = "open"
    \/ p = "open" /\ q \in {"spawning", "decide"}
    \/ p = "spawning" /\ q = "decide"
    \/ p = "handshake" /\ q = "admit"
    \/ p = "admit" /\ q = "publish_running"
    \/ p = "publish_running" /\ q = "serving"
    \/ p = "revoke" /\ q = "publish_stopping"
    \/ p = "publish_stopping" /\ q \in {"settle", "terminate"}
    \/ p = "settle" /\ q = "terminate"
    \/ p = "publish_failed" /\ q = "wait_failed"
    \/ p = "retire_gaveup" /\ q = "publish_gaveup"
    \/ p = "retire_changed" /\ q = "publish_changed"
    \/ p \in {"publish_gaveup", "publish_changed"} /\ q = "wait_stop"
    \/ p = "publish_backoff" /\ q = "backoff"
    \/ p = "backoff" /\ q = "check"
    \/ p = "check" /\ q \in {"top", "retire_changed"}
    \/ p = "retire" /\ q = "release"
    \/ p = "publish_stopped" /\ q = "exit_retire"
    \/ p = "exit_retire" /\ q = "exit_publish"
    \/ p = "exit_publish" /\ q = "exit_release"

Moved(s) ==
    /\ Stepped(s) /\ Same(sup[s], sup'[s])
    /\ MayMove(sup[s].pc, sup'[s].pc)

\* Such a step keeps what the supervisor knows.
LEMMA MoveKnown ==
    ASSUME NEW x \in Loop, NEW y \in Loop, Knows(x), Same(x, y), MayMove(x.pc, y.pc),
           y.status = "stopped" => x.status = "stopped" \/ x.pc = "publish_stopped",
           y.fails = x.fails, y.asked = x.asked, y.stop = x.stop, y.how = x.how,
           y.ans = x.ans, y.rec = x.rec
    PROVE  Knows(y)
<1>1. RunKnown(y)
  BY DEF Knows, Same, MayMove, RunKnown, Serving, Lost, Stopping, Between, Exiting, Trying
<1>2. RecordKnown(y)
  BY DEF Knows, Same, MayMove, RecordKnown, StopKnown, Blank, LivePcs, Exiting, Unrecorded,
         Between, Ending, Stopping
<1>3. StopKnown(y)
  BY DEF Knows, Same, MayMove, RunKnown, RecordKnown, StopKnown, LivePcs, Exiting, Stopping
<1>. QED  BY <1>1, <1>2, <1>3 DEF Knows

LEMMA MoveStep ==
    ASSUME TypeOK, NEW s \in Sups, Knows(sup[s]), NEW p, NEW st \in Statuses,
           sup' = [sup EXCEPT ![s].pc = p, ![s].status = st],
           MayMove(sup[s].pc, p),
           st = "stopped" => sup[s].status = "stopped" \/ sup[s].pc = "publish_stopped"
    PROVE  Moved(s)
<1>. DEFINE x == sup[s]
            y == [x EXCEPT !.pc = p, !.status = st]
<1>1. x \in Loop /\ sup \in [Sups -> Loop]
  BY DEF TypeOK
<1>2. p \in {"none"} \cup LivePcs \cup EndPcs
  BY DEF MayMove, LivePcs, EndPcs
<1>3. sup' = [sup EXCEPT ![s] = y]
  BY <1>1
<1>4. y \in Loop
  BY <1>1, <1>2 DEF Loop
<1>5. /\ y.pc = p /\ y.status = st /\ Same(x, y)
      /\ y.fails = x.fails /\ y.asked = x.asked /\ y.stop = x.stop /\ y.how = x.how
      /\ y.ans = x.ans /\ y.rec = x.rec
  BY <1>1 DEF Loop, Same
<1>. HIDE DEF y
<1>6. Knows(y)
  BY <1>1, <1>4, <1>5, MoveKnown
<1>. QED  BY <1>1, <1>3, <1>4, <1>5, <1>6, Written DEF Moved, Stepped

LEMMA ToStep ==
    ASSUME TypeOK, NEW s \in Sups, Knows(sup[s]), NEW p, To(s, p), MayMove(sup[s].pc, p)
    PROVE  Moved(s) /\ sup'[s].pc = p
<1>1. sup[s] \in Loop /\ sup \in [Sups -> Loop]
  BY DEF TypeOK
<1>2. sup[s].status \in Statuses
  BY <1>1 DEF Loop
<1>3. [sup[s] EXCEPT !.pc = p] = [sup[s] EXCEPT !.pc = p, !.status = sup[s].status]
  BY <1>1 DEF Loop
<1>4. sup' = [sup EXCEPT ![s] = [sup[s] EXCEPT !.pc = p]]
  BY DEF To
<1>5. sup' = [sup EXCEPT ![s] = [sup[s] EXCEPT !.pc = p, !.status = sup[s].status]]
  BY <1>3, <1>4
<1>6. sup' = [sup EXCEPT ![s].pc = p, ![s].status = sup[s].status]
  BY <1>1, <1>5
<1>7. Moved(s)
  BY <1>2, <1>6, MoveStep
<1>. QED  BY <1>1, <1>4, <1>7 DEF Loop

\* The loop's steps that only move it and change nothing else.
LEMMA QuietMoves ==
    ASSUME TypeOK, NEW s \in Sups, Knows(sup[s]),
           \/ Top(s) \/ OpenSockets(s) \/ SpawnFails(s) \/ HandshakeOk(s) \/ PublishRunning(s)
           \/ PublishStopping(s) \/ Settle(s) \/ PublishFailed(s) \/ PublishGaveUp(s)
           \/ PublishBackoff(s) \/ BackoffEnds(s) \/ CheckPackage(s) \/ PublishStopped(s)
           \/ ExitPublish(s)
    PROVE  Moved(s) /\ sup[s].pc # "revoke" /\ SupOnly
<1>0. sup \in [Sups -> Loop] /\ sup[s] \in Loop /\ sup[s].status \in Statuses
  BY DEF TypeOK, Loop
<1>1. CASE Top(s)
  BY <1>0, <1>1, MoveStep DEF Top, MayMove, Statuses
<1>2. CASE OpenSockets(s)
  BY <1>0, <1>2, ToStep DEF OpenSockets, At, MayMove
<1>3. CASE SpawnFails(s)
  BY <1>0, <1>3, ToStep DEF SpawnFails, At, MayMove
<1>4. CASE HandshakeOk(s)
  BY <1>0, <1>4, ToStep DEF HandshakeOk, At, MayMove
<1>5. CASE PublishRunning(s)
  BY <1>0, <1>5, MoveStep DEF PublishRunning, At, MayMove, Statuses
<1>6. CASE PublishStopping(s)
  <2>. DEFINE p == IF sup[s].io THEN "settle" ELSE "terminate"
  <2>1. sup' = [sup EXCEPT ![s].pc = p, ![s].status = "stopping"]
    BY <1>0, <1>6 DEF PublishStopping, Loop
  <2>2. MayMove(sup[s].pc, p)
    BY <1>6 DEF PublishStopping, At, MayMove
  <2>. HIDE DEF p
  <2>. QED  BY <1>0, <1>6, <2>1, <2>2, MoveStep DEF PublishStopping, At, Statuses
<1>7. CASE Settle(s)
  BY <1>0, <1>7, ToStep DEF Settle, At, MayMove
<1>8. CASE PublishFailed(s)
  BY <1>0, <1>8, MoveStep DEF PublishFailed, At, MayMove, Statuses
<1>9. CASE PublishGaveUp(s)
  <2>. DEFINE st == IF At(s, "publish_gaveup") THEN "gave_up" ELSE "package_changed"
  <2>1. sup' = [sup EXCEPT ![s].pc = "wait_stop", ![s].status = st] /\ st \in Statuses
    BY <1>9 DEF PublishGaveUp, Statuses
  <2>2. st # "stopped"
    OBVIOUS
  <2>3. MayMove(sup[s].pc, "wait_stop") /\ sup[s].pc # "revoke"
    BY <1>9 DEF PublishGaveUp, MayMove
  <2>. HIDE DEF st
  <2>. QED  BY <1>0, <1>9, <2>1, <2>2, <2>3, MoveStep DEF PublishGaveUp
<1>10. CASE PublishBackoff(s)
  BY <1>0, <1>10, MoveStep DEF PublishBackoff, At, MayMove, Statuses
<1>11. CASE BackoffEnds(s)
  BY <1>0, <1>11, ToStep DEF BackoffEnds, At, MayMove
<1>12. CASE CheckPackage(s)
  BY <1>0, <1>12, ToStep DEF CheckPackage, At, MayMove
<1>13. CASE PublishStopped(s)
  BY <1>0, <1>13, MoveStep DEF PublishStopped, At, MayMove, Statuses
<1>14. CASE ExitPublish(s)
  <2>. DEFINE st == IF sup[s].how = "panic" THEN "panicked"
                    ELSE IF sup[s].status \in {"stopped", "stop_failed"} THEN sup[s].status
                    ELSE "killed"
  <2>1. sup' = [sup EXCEPT ![s].pc = "exit_release", ![s].status = st] /\ st \in Statuses
    BY <1>0, <1>14 DEF ExitPublish, Statuses, Loop
  <2>2. st = "stopped" => sup[s].status = "stopped"
    OBVIOUS
  <2>. HIDE DEF st
  <2>. QED  BY <1>0, <1>14, <2>1, <2>2, MoveStep DEF ExitPublish, At, MayMove
<1>. QED
  BY <1>1, <1>2, <1>3, <1>4, <1>5, <1>6, <1>7, <1>8, <1>9, <1>10, <1>11, <1>12, <1>13, <1>14

\* Where a step that touches nothing shared may take the loop.
StaysIn(p, q) ==
    /\ q = "none" <=> p = "none"
    /\ q = "spawned" => p = "spawned"
    /\ q \in Installed => p \in Installed
    /\ q \in Revoked => p \in Revoked

Quietly(s) ==
    /\ SupOnly /\ Stepped(s) /\ Same(sup[s], sup'[s])
    /\ StaysIn(sup[s].pc, sup'[s].pc)

\* A stop while there is no process.
LEMMA StoppedWithoutProcess ==
    ASSUME TypeOK, NEW s \in Sups, Knows(sup[s]), SpawnStopped(s) \/ WaitingStopped(s)
    PROVE  Quietly(s)
<1>. DEFINE x == sup[s]
            n == SawStop(x.rec, "none")
            y == [x EXCEPT !.pc = "retire", !.rec = n]
<1>1. x \in Loop /\ x.rec \in StopRecord /\ sup \in [Sups -> Loop]
  BY DEF TypeOK, Loop
<1>2. x.pc \in {"spawning", "backoff", "wait_stop"} /\ x.stop # "none" /\ SupOnly
  BY DEF SpawnStopped, WaitingStopped, At, Asked
<1>3. sup' = [sup EXCEPT ![s] = y]
  BY <1>1 DEF SpawnStopped, WaitingStopped
<1>4. /\ n \in StopRecord
      /\ n.process = IF x.rec.process = "?" THEN "none" ELSE x.rec.process
      /\ n.group = x.rec.group /\ n.end = x.rec.end
  BY <1>1, SawStopFacts
<1>. HIDE DEF n
<1>5. y \in Loop
  BY <1>1, <1>4 DEF Loop, LivePcs
<1>6. /\ y.pc = "retire" /\ y.rec = n /\ Same(x, y) /\ y.status = x.status
      /\ y.fails = x.fails /\ y.asked = x.asked /\ y.stop = x.stop /\ y.how = x.how
      /\ y.ans = x.ans
  BY <1>1 DEF Loop, Same
<1>. HIDE DEF y
<1>7. Knows(x)
  OBVIOUS
<1>. HIDE DEF x
<1>8. RunKnown(y)
  BY <1>2, <1>6, <1>7
     DEF Knows, Same, RunKnown, Serving, Lost, Stopping, Between, Exiting, Trying
<1>9. RecordKnown(y)
  BY <1>2, <1>4, <1>6, <1>7
     DEF Knows, Same, RunKnown, RecordKnown, Blank, LivePcs, Exiting, Unrecorded, Between,
         Ending, Stopping
<1>10. StopKnown(y)
  BY <1>2, <1>4, <1>6, <1>7 DEF Knows, Same, StopKnown, LivePcs, Exiting
<1>11. StaysIn(x.pc, y.pc)
  BY <1>2, <1>6 DEF StaysIn, Installed, Revoked
<1>. QED
  BY <1>1, <1>2, <1>3, <1>5, <1>6, <1>8, <1>9, <1>10, <1>11, Written DEF Quietly, Stepped, Knows, x

\* A stop of a process that does not serve.
LEMMA StoppedBeforeServing ==
    ASSUME TypeOK, NEW s \in Sups, Knows(sup[s]),
           SpawnedStopped(s) \/ HandshakeStopped(s) \/ AdmitStopping(s)
    PROVE  Quietly(s)
<1>. DEFINE x == sup[s]
            n == SawStop(x.rec, "running")
            y == [x EXCEPT !.pc = "revoke", !.asked = TRUE, !.io = FALSE, !.rec = n]
<1>1. x \in Loop /\ x.rec \in StopRecord /\ sup \in [Sups -> Loop]
  BY DEF TypeOK, Loop
<1>2. x.pc \in {"spawned", "handshake", "admit"} /\ x.stop # "none" /\ SupOnly
  BY DEF SpawnedStopped, HandshakeStopped, AdmitStopping, At, Asked
<1>3. sup' = [sup EXCEPT ![s] = y]
  BY <1>1 DEF SpawnedStopped, HandshakeStopped, AdmitStopping
<1>4. /\ n \in StopRecord
      /\ n.process = IF x.rec.process = "?" THEN "running" ELSE x.rec.process
      /\ n.group = x.rec.group /\ n.end = x.rec.end
  BY <1>1, SawStopFacts
<1>. HIDE DEF n
<1>5. y \in Loop
  BY <1>1, <1>4 DEF Loop, LivePcs
<1>6. /\ y.pc = "revoke" /\ y.rec = n /\ Same(x, y) /\ y.status = x.status
      /\ y.fails = x.fails /\ y.asked = TRUE /\ y.stop = x.stop /\ y.how = x.how
      /\ y.ans = x.ans
  BY <1>1 DEF Loop, Same
<1>. HIDE DEF y
<1>7. Knows(x)
  OBVIOUS
<1>. HIDE DEF x
<1>8. RunKnown(y)
  BY <1>2, <1>6, <1>7
     DEF Knows, Same, RunKnown, Serving, Lost, Stopping, Between, Exiting, Trying
<1>9. RecordKnown(y)
  BY <1>2, <1>4, <1>6, <1>7
     DEF Knows, Same, RunKnown, RecordKnown, Blank, LivePcs, Exiting, Unrecorded, Between,
         Ending, Stopping
<1>10. StopKnown(y)
  BY <1>2, <1>4, <1>6, <1>7 DEF Knows, Same, StopKnown, LivePcs, Exiting
<1>11. StaysIn(x.pc, y.pc)
  BY <1>2, <1>6 DEF StaysIn, Installed, Revoked
<1>. QED
  BY <1>1, <1>2, <1>3, <1>5, <1>6, <1>8, <1>9, <1>10, <1>11, Written DEF Quietly, Stepped, Knows, x

\* A run that ends by itself.
LEMMA RunEnds ==
    ASSUME TypeOK, NEW s \in Sups, Knows(sup[s]), HandshakeFails(s) \/ ServeEnds(s)
    PROVE  Quietly(s)
<1>. DEFINE x == sup[s]
            y(b, f) == [x EXCEPT !.pc = "revoke", !.asked = FALSE, !.io = b, !.fine = f]
<1>1. x \in Loop /\ sup \in [Sups -> Loop] /\ x.fine \in BOOLEAN
  BY DEF TypeOK, Loop
<1>2. x.pc \in {"handshake", "serving"} /\ SupOnly
  BY DEF HandshakeFails, ServeEnds, At
<1>3. PICK b \in BOOLEAN, f \in BOOLEAN : sup' = [sup EXCEPT ![s] = y(b, f)]
  <2>1. CASE HandshakeFails(s)
    <3>1. PICK b \in BOOLEAN :
             sup' = [sup EXCEPT ![s].pc = "revoke", ![s].asked = FALSE, ![s].io = b]
      BY <2>1 DEF HandshakeFails
    <3>2. [x EXCEPT !.pc = "revoke", !.asked = FALSE, !.io = b] = y(b, x.fine)
      BY <1>1 DEF Loop
    <3>3. sup' = [sup EXCEPT ![s] = [x EXCEPT !.pc = "revoke", !.asked = FALSE, !.io = b]]
      BY <1>1, <3>1
    <3>. QED  BY <1>1, <3>2, <3>3
  <2>2. CASE ServeEnds(s)
    <3>1. PICK b \in BOOLEAN, f \in BOOLEAN :
             sup' = [sup EXCEPT ![s].pc = "revoke", ![s].asked = FALSE, ![s].io = b,
                                ![s].fine = f]
      BY <2>2 DEF ServeEnds
    <3>2. sup' = [sup EXCEPT ![s] = y(b, f)]
      BY <1>1, <3>1
    <3>. QED  BY <3>2
  <2>. QED  BY <2>1, <2>2
<1>. DEFINE z == y(b, f)
<1>4. z \in Loop
  BY <1>1 DEF Loop, LivePcs
<1>5. /\ z.pc = "revoke" /\ z.rec = x.rec /\ Same(x, z) /\ z.status = x.status
      /\ z.fails = x.fails /\ z.asked = FALSE /\ z.stop = x.stop /\ z.how = x.how
      /\ z.ans = x.ans
  BY <1>1 DEF Loop, Same
<1>6. sup' = [sup EXCEPT ![s] = z]
  BY <1>3
<1>. HIDE DEF z
<1>7. Knows(x)
  OBVIOUS
<1>. HIDE DEF x
<1>8. RunKnown(z)
  BY <1>2, <1>5, <1>7
     DEF Knows, Same, RunKnown, Serving, Lost, Stopping, Between, Exiting, Trying
<1>9. RecordKnown(z)
  BY <1>2, <1>5, <1>7
     DEF Knows, Same, RecordKnown, Blank, LivePcs, Exiting, Unrecorded, Between, Ending, Stopping
<1>10. StopKnown(z)
  BY <1>2, <1>5, <1>7 DEF Knows, Same, StopKnown, LivePcs, Exiting
<1>11. StaysIn(x.pc, z.pc)
  BY <1>2, <1>5 DEF StaysIn, Installed, Revoked
<1>. QED
  BY <1>1, <1>2, <1>4, <1>5, <1>6, <1>8, <1>9, <1>10, <1>11, Written DEF Quietly, Stepped, Knows, x

\* A stop of a run that serves: the process is recorded, the drain comes next.
LEMMA StoppedServing ==
    ASSUME TypeOK, NEW s \in Sups, Knows(sup[s]), ServeStopped(s)
    PROVE  Quietly(s)
<1>. DEFINE x == sup[s]
            n == Once(x.rec, "process", "running")
            y == [x EXCEPT !.pc = "drain", !.asked = TRUE, !.io = FALSE, !.rec = n]
<1>1. x \in Loop /\ x.rec \in StopRecord /\ sup \in [Sups -> Loop]
  BY DEF TypeOK, Loop
<1>2. x.pc = "serving" /\ x.stop # "none" /\ SupOnly
  BY DEF ServeStopped, At, Asked
<1>3. sup' = [sup EXCEPT ![s] = y]
  BY <1>1 DEF ServeStopped
<1>4. /\ n \in StopRecord
      /\ n.process = IF x.rec.process = "?" THEN "running" ELSE x.rec.process
      /\ n.group = x.rec.group /\ n.end = x.rec.end
  BY <1>1, OnceProcess
<1>. HIDE DEF n
<1>5. y \in Loop
  BY <1>1, <1>4 DEF Loop, LivePcs
<1>6. /\ y.pc = "drain" /\ y.rec = n /\ Same(x, y) /\ y.status = x.status
      /\ y.fails = x.fails /\ y.asked = TRUE /\ y.stop = x.stop /\ y.how = x.how
      /\ y.ans = x.ans
  BY <1>1 DEF Loop, Same
<1>. HIDE DEF y
<1>7. Knows(x)
  OBVIOUS
<1>. HIDE DEF x
<1>8. RunKnown(y)
  BY <1>2, <1>6, <1>7
     DEF Knows, Same, RunKnown, Serving, Lost, Stopping, Between, Exiting, Trying
<1>9. RecordKnown(y)
  BY <1>2, <1>4, <1>6, <1>7
     DEF Knows, Same, RunKnown, RecordKnown, Blank, LivePcs, Exiting, Unrecorded, Between,
         Ending, Stopping
<1>10. StopKnown(y)
  BY <1>2, <1>4, <1>6, <1>7 DEF Knows, Same, StopKnown, LivePcs, Exiting
<1>11. StaysIn(x.pc, y.pc)
  BY <1>2, <1>6 DEF StaysIn, Installed, Revoked
<1>. QED
  BY <1>1, <1>2, <1>3, <1>5, <1>6, <1>8, <1>9, <1>10, <1>11, Written DEF Quietly, Stepped, Knows, x

\* The drain: skipped, begun, or over. Only its own part of the record changes.
LEMMA DrainKnown ==
    ASSUME NEW x \in Loop, NEW y \in Loop, Knows(x), Same(x, y),
           x.pc \in {"drain", "draining"}, y.pc \in {"draining", "revoke"},
           y.rec.process = x.rec.process, y.rec.group = x.rec.group, y.rec.end = x.rec.end,
           y.status = x.status, y.fails = x.fails, y.asked = x.asked, y.stop = x.stop,
           y.how = x.how, y.ans = x.ans
    PROVE  Knows(y) /\ StaysIn(x.pc, y.pc)
<1>1. RunKnown(y)
  BY DEF Knows, Same, RunKnown, Serving, Lost, Stopping, Between, Exiting, Trying
<1>2. RecordKnown(y)
  BY DEF Knows, Same, RecordKnown, RunKnown, Blank, LivePcs, Exiting, Unrecorded, Between,
         Ending, Stopping
<1>3. StopKnown(y)
  BY DEF Knows, Same, StopKnown, LivePcs, Exiting
<1>4. StaysIn(x.pc, y.pc)
  BY DEF StaysIn, Installed, Revoked
<1>. QED  BY <1>1, <1>2, <1>3, <1>4 DEF Knows

LEMMA DrainStops ==
    ASSUME TypeOK, NEW s \in Sups, Knows(sup[s]), At(s, "drain") \/ At(s, "draining"),
           NEW why \in {"idle", "deadline", "exited", "callback", "skipped", "cut"},
           sup' = [sup EXCEPT ![s].pc = "revoke", ![s].rec = Once(@, "drain", why)]
    PROVE  Stepped(s) /\ Same(sup[s], sup'[s]) /\ StaysIn(sup[s].pc, sup'[s].pc)
<1>. DEFINE x == sup[s]
            n == Once(x.rec, "drain", why)
            y == [x EXCEPT !.pc = "revoke", !.rec = n]
<1>1. x \in Loop /\ x.rec \in StopRecord /\ sup \in [Sups -> Loop]
  BY DEF TypeOK, Loop
<1>2. sup' = [sup EXCEPT ![s] = y]
  BY <1>1
<1>3. /\ n \in StopRecord /\ n.process = x.rec.process /\ n.group = x.rec.group
      /\ n.end = x.rec.end
  BY <1>1, OnceDrain
<1>. HIDE DEF n
<1>4. y \in Loop
  BY <1>1, <1>3 DEF Loop, LivePcs
<1>5. /\ y.pc = "revoke" /\ y.rec = n /\ Same(x, y) /\ y.status = x.status
      /\ y.fails = x.fails /\ y.asked = x.asked /\ y.stop = x.stop /\ y.how = x.how
      /\ y.ans = x.ans
  BY <1>1 DEF Loop, Same
<1>6. x.pc \in {"drain", "draining"} /\ Knows(x)
  BY DEF At
<1>. HIDE DEF x, y
<1>7. Knows(y) /\ StaysIn(x.pc, y.pc)
  BY <1>1, <1>3, <1>4, <1>5, <1>6, DrainKnown
<1>. QED  BY <1>1, <1>2, <1>4, <1>5, <1>7, Written DEF Stepped, x

LEMMA DrainBegins ==
    ASSUME TypeOK, NEW s \in Sups, Knows(sup[s]), At(s, "drain"),
           sup' = [sup EXCEPT ![s].pc = "draining", ![s].rec.began = TRUE]
    PROVE  Stepped(s) /\ Same(sup[s], sup'[s]) /\ StaysIn(sup[s].pc, sup'[s].pc)
<1>. DEFINE x == sup[s]
            n == [x.rec EXCEPT !.began = TRUE]
            y == [x EXCEPT !.pc = "draining", !.rec = n]
<1>1. x \in Loop /\ x.rec \in StopRecord /\ sup \in [Sups -> Loop]
  BY DEF TypeOK, Loop
<1>2. sup' = [sup EXCEPT ![s] = y]
  BY <1>1 DEF Loop
<1>3. /\ n \in StopRecord /\ n.process = x.rec.process /\ n.group = x.rec.group
      /\ n.end = x.rec.end
  BY <1>1 DEF StopRecord
<1>. HIDE DEF n
<1>4. y \in Loop
  BY <1>1, <1>3 DEF Loop, LivePcs
<1>5. /\ y.pc = "draining" /\ y.rec = n /\ Same(x, y) /\ y.status = x.status
      /\ y.fails = x.fails /\ y.asked = x.asked /\ y.stop = x.stop /\ y.how = x.how
      /\ y.ans = x.ans
  BY <1>1 DEF Loop, Same
<1>6. x.pc \in {"drain", "draining"} /\ Knows(x)
  BY DEF At
<1>. HIDE DEF x, y
<1>7. Knows(y) /\ StaysIn(x.pc, y.pc)
  BY <1>1, <1>3, <1>4, <1>5, <1>6, DrainKnown
<1>. QED  BY <1>1, <1>2, <1>4, <1>5, <1>7, Written DEF Stepped, x

\* A stop that finds the group unconfirmed.
LEMMA StoppedUnconfirmed ==
    ASSUME TypeOK, NEW s \in Sups, Knows(sup[s]), FailedStopped(s)
    PROVE  Quietly(s)
<1>. DEFINE x == sup[s]
            m == SawStop(x.rec, "running")
            n == Once(m, "end", "stopped")
            y == [x EXCEPT !.pc = "exit_retire", !.rec = n]
<1>1. x \in Loop /\ x.rec \in StopRecord /\ sup \in [Sups -> Loop]
  BY DEF TypeOK, Loop
<1>2. x.pc = "wait_failed" /\ SupOnly
  BY DEF FailedStopped, At
<1>3. sup' = [sup EXCEPT ![s] = y]
  BY <1>1 DEF FailedStopped
<1>4. /\ m \in StopRecord
      /\ m.process = IF x.rec.process = "?" THEN "running" ELSE x.rec.process
      /\ m.group = x.rec.group /\ m.end = x.rec.end
  BY <1>1, SawStopFacts
<1>. HIDE DEF m
<1>5. /\ n \in StopRecord /\ n.process = m.process /\ n.group = m.group
      /\ n.end = IF m.end = "?" THEN "stopped" ELSE m.end
  BY <1>4, OnceEnd
<1>. HIDE DEF n
<1>6. y \in Loop
  BY <1>1, <1>5 DEF Loop, EndPcs
<1>7. /\ y.pc = "exit_retire" /\ y.rec = n /\ Same(x, y) /\ y.status = x.status
      /\ y.fails = x.fails /\ y.asked = x.asked /\ y.stop = x.stop /\ y.how = x.how
      /\ y.ans = x.ans
  BY <1>1 DEF Loop, Same
<1>. HIDE DEF y
<1>8. Knows(x)
  OBVIOUS
<1>. HIDE DEF x
<1>9. RunKnown(y)
  BY <1>2, <1>7, <1>8
     DEF Knows, Same, RunKnown, Serving, Lost, Stopping, Between, Exiting, Trying
<1>10. RecordKnown(y)
  BY <1>2, <1>4, <1>5, <1>7, <1>8
     DEF Knows, Same, RunKnown, RecordKnown, StopKnown, Blank, LivePcs, Exiting, Unrecorded,
         Between, Ending, Stopping, Lost
<1>11. StopKnown(y)
  BY <1>2, <1>4, <1>5, <1>7, <1>8 DEF Knows, Same, StopKnown, LivePcs, Exiting
<1>12. StaysIn(x.pc, y.pc)
  BY <1>2, <1>7 DEF StaysIn, Installed, Revoked
<1>. QED
  BY <1>1, <1>2, <1>3, <1>6, <1>7, <1>9, <1>10, <1>11, <1>12, Written
     DEF Quietly, Stepped, Knows, x

\* The task is aborted, or panics.
LEMMA TaskEnds ==
    ASSUME TypeOK, NEW s \in Sups, Knows(sup[s]), AbortTakes(s) \/ Panic(s)
    PROVE  Quietly(s)
<1>. DEFINE x == sup[s]
            to == IF x.run # NoGen THEN "drop_process" ELSE "exit_retire"
            y(h) == [x EXCEPT !.how = h, !.fine = FALSE, !.pc = to]
<1>1. x \in Loop /\ x.rec \in StopRecord /\ sup \in [Sups -> Loop]
  BY DEF TypeOK, Loop
<1>2. x.pc \in LivePcs /\ SupOnly
  BY DEF AbortTakes, Panic, Awaits, LivePcs
<1>3. PICK h \in {"abort", "panic"} : sup' = [sup EXCEPT ![s] = y(h)]
  <2>1. PICK h \in {"abort", "panic"} : Ends(s, h)
    BY DEF AbortTakes, Panic
  <2>2. sup' = [sup EXCEPT ![s].how = h, ![s].fine = FALSE, ![s].pc = to]
    BY <2>1 DEF Ends
  <2>. HIDE DEF to
  <2>3. sup' = [sup EXCEPT ![s] = y(h)]
    BY <1>1, <2>2
  <2>. QED  BY <2>3
<1>. DEFINE z == y(h)
<1>4. sup' = [sup EXCEPT ![s] = z]
  BY <1>3
<1>5. to \in {"drop_process", "exit_retire"} /\ (to = "drop_process" <=> x.run # NoGen)
  OBVIOUS
<1>. HIDE DEF to
<1>6. z \in Loop
  BY <1>1, <1>5 DEF Loop, EndPcs
<1>7. /\ z.pc = to /\ z.rec = x.rec /\ Same(x, z) /\ z.status = x.status
      /\ z.fails = x.fails /\ z.asked = x.asked /\ z.stop = x.stop /\ z.how = h
      /\ z.ans = x.ans
  BY <1>1 DEF Loop, Same
<1>. HIDE DEF z
<1>8. Knows(x)
  OBVIOUS
<1>. HIDE DEF x
<1>9. RunKnown(z)
  BY <1>2, <1>5, <1>7, <1>8
     DEF Knows, Same, RunKnown, LivePcs, Serving, Lost, Stopping, Between, Exiting, Trying
<1>10. RecordKnown(z)
  BY <1>2, <1>5, <1>7, <1>8
     DEF Knows, Same, RecordKnown, StopKnown, Blank, LivePcs, Exiting, Unrecorded,
         Between, Ending, Stopping
<1>11. StopKnown(z)
  BY <1>2, <1>5, <1>7, <1>8 DEF Knows, Same, StopKnown, LivePcs, Exiting
<1>12. StaysIn(x.pc, z.pc)
  BY <1>2, <1>5, <1>7 DEF StaysIn, Installed, Revoked, LivePcs
<1>. QED
  BY <1>1, <1>2, <1>4, <1>6, <1>7, <1>9, <1>10, <1>11, <1>12, Written
     DEF Quietly, Stepped, Knows, x

\* The handle: it asks, gives up or is dropped, and the loop is where it was.
LEMMA HandleKnown ==
    ASSUME NEW x \in Loop, NEW y \in Loop, Knows(x), Same(x, y), y.pc = x.pc,
           y.status = x.status, y.fails = x.fails, y.asked = x.asked, y.how = x.how,
           y.stop = x.stop \/ y.stop # "none",
           y.rec.process = x.rec.process, y.rec.group = x.rec.group, y.rec.end = x.rec.end,
           y.rec.drain = x.rec.drain, y.rec.began = x.rec.began,
           y.ans = x.ans \/ (y.pc = "over" /\ (y.ans = "ok" => y.how = "run" /\ y.status = "stopped"))
    PROVE  Knows(y) /\ StaysIn(x.pc, y.pc)
<1>1. RunKnown(y)
  BY DEF Knows, Same, RunKnown
<1>2. RecordKnown(y)
  BY DEF Knows, Same, RecordKnown, Blank
<1>3. StopKnown(y)
  BY DEF Knows, Same, StopKnown
<1>. QED  BY <1>1, <1>2, <1>3 DEF Knows, StaysIn

LEMMA HandleSteps ==
    ASSUME TypeOK, NEW s \in Sups, Knows(sup[s]),
           AskStop(s) \/ Abandon(s) \/ DropHandle(s) \/ Join(s)
    PROVE  Quietly(s)
<1>1. sup[s] \in Loop /\ sup[s].rec \in StopRecord /\ sup \in [Sups -> Loop]
  BY DEF TypeOK, Loop
<1>2. CASE AskStop(s)
  <2>1. PICK d \in {"zero", "drain"} :
           sup' = [sup EXCEPT ![s].handle = "waiting", ![s].stop = d]
    BY <1>2 DEF AskStop
  <2>. DEFINE y == [sup[s] EXCEPT !.handle = "waiting", !.stop = d]
  <2>2. sup' = [sup EXCEPT ![s] = y]
    BY <1>1, <2>1
  <2>3. y \in Loop
    BY <1>1 DEF Loop
  <2>4. /\ Same(sup[s], y) /\ y.pc = sup[s].pc /\ y.status = sup[s].status
        /\ y.fails = sup[s].fails /\ y.asked = sup[s].asked /\ y.how = sup[s].how
        /\ y.stop # "none" /\ y.rec = sup[s].rec /\ y.ans = sup[s].ans
    BY <1>1 DEF Loop, Same
  <2>. HIDE DEF y
  <2>5. Knows(y) /\ StaysIn(sup[s].pc, y.pc)
    BY <1>1, <2>3, <2>4, HandleKnown
  <2>. QED  BY <1>1, <1>2, <2>2, <2>3, <2>4, <2>5, Written DEF Quietly, Stepped, AskStop
<1>3. CASE Abandon(s)
  <2>. DEFINE n == [sup[s].rec EXCEPT !.abandoning = TRUE]
              y == [sup[s] EXCEPT !.handle = "abandoning", !.rec = n]
  <2>1. sup' = [sup EXCEPT ![s] = y]
    BY <1>1, <1>3 DEF Abandon, Loop
  <2>2. /\ n \in StopRecord /\ n.process = sup[s].rec.process
        /\ n.group = sup[s].rec.group /\ n.end = sup[s].rec.end
        /\ n.drain = sup[s].rec.drain /\ n.began = sup[s].rec.began
    BY <1>1 DEF StopRecord
  <2>. HIDE DEF n
  <2>3. y \in Loop
    BY <1>1, <2>2 DEF Loop
  <2>4. /\ Same(sup[s], y) /\ y.pc = sup[s].pc /\ y.status = sup[s].status
        /\ y.fails = sup[s].fails /\ y.asked = sup[s].asked /\ y.how = sup[s].how
        /\ y.stop = sup[s].stop /\ y.rec = n /\ y.ans = sup[s].ans
    BY <1>1 DEF Loop, Same
  <2>. HIDE DEF y
  <2>5. Knows(y) /\ StaysIn(sup[s].pc, y.pc)
    BY <1>1, <2>2, <2>3, <2>4, HandleKnown
  <2>. QED  BY <1>1, <1>3, <2>1, <2>3, <2>4, <2>5, Written DEF Quietly, Stepped, Abandon
<1>4. CASE DropHandle(s)
  <2>. DEFINE y == [sup[s] EXCEPT !.handle = "dropped"]
  <2>1. sup' = [sup EXCEPT ![s] = y]
    BY <1>1, <1>4 DEF DropHandle
  <2>2. y \in Loop
    BY <1>1 DEF Loop
  <2>3. /\ Same(sup[s], y) /\ y.pc = sup[s].pc /\ y.status = sup[s].status
        /\ y.fails = sup[s].fails /\ y.asked = sup[s].asked /\ y.how = sup[s].how
        /\ y.stop = sup[s].stop /\ y.rec = sup[s].rec /\ y.ans = sup[s].ans
    BY <1>1 DEF Loop, Same
  <2>. HIDE DEF y
  <2>4. Knows(y) /\ StaysIn(sup[s].pc, y.pc)
    BY <1>1, <2>2, <2>3, HandleKnown
  <2>. QED  BY <1>1, <1>4, <2>1, <2>2, <2>3, <2>4, Written DEF Quietly, Stepped, DropHandle
<1>5. CASE Join(s)
  <2>. DEFINE a == StopAnswer(s)
              y == [sup[s] EXCEPT !.handle = "done", !.ans = a]
  <2>1. sup' = [sup EXCEPT ![s] = y] /\ sup[s].pc = "over"
    BY <1>1, <1>5 DEF Join
  <2>2. a = "ok" => sup[s].how = "run" /\ sup[s].status = "stopped"
    BY <1>1 DEF StopAnswer, Loop
  <2>6. a \in {"none", "ok", "failed", "panicked", "killed"}
    BY <1>1 DEF StopAnswer, Loop
  <2>. HIDE DEF a
  <2>3. y \in Loop
    <3>1. sup[s] \in Loop
      BY <1>1
    <3>. QED  BY <2>6, <3>1 DEF Loop
  <2>4. /\ Same(sup[s], y) /\ y.pc = sup[s].pc /\ y.status = sup[s].status
        /\ y.fails = sup[s].fails /\ y.asked = sup[s].asked /\ y.how = sup[s].how
        /\ y.stop = sup[s].stop /\ y.rec = sup[s].rec /\ y.ans = a
    BY <1>1 DEF Loop, Same
  <2>. HIDE DEF y
  <2>5. Knows(y) /\ StaysIn(sup[s].pc, y.pc)
    BY <1>1, <2>1, <2>2, <2>3, <2>4, HandleKnown
  <2>. QED  BY <1>1, <1>5, <2>1, <2>3, <2>4, <2>5, Written DEF Quietly, Stepped, Join
<1>. QED  BY <1>2, <1>3, <1>4, <1>5

-----------------------------------------------------------------------------
(* What holds between the supervisors, the slot and the processes is kept. *)

\* Two supervisors with a run, or one with a run and one with a group, are the same one.
LEMMA OneHolder ==
    ASSUME Inv
    PROVE  /\ \A s \in Sups : sup[s].run # NoGen => Holds(s)
           /\ \A s, t \in Sups : sup[s].run # NoGen /\ Holds(t) => s = t
<1>1. ASSUME NEW s \in Sups, sup[s].run # NoGen PROVE Holds(s)
  <2>1. Knows(sup[s])
    BY DEF Inv
  <2>2. RunKnown(sup[s])
    BY <2>1 DEF Knows
  <2>. QED
    BY <1>1, <2>2 DEF RunKnown, Holds, At, Serving, Exiting
<1>. QED  BY <1>1 DEF Inv, HeldInv

\* A step of one supervisor that leaves its hold and the processes alone.
LEMMA SameHold ==
    ASSUME Inv, NEW s \in Sups, Stepped(s), Rest,
           sup'[s].run = sup[s].run, sup'[s].unconfirmed = sup[s].unconfirmed,
           sup'[s].released = sup[s].released,
           sup'[s].pc = "none" <=> sup[s].pc = "none"
    PROVE  (\A t \in Sups : Knows(sup[t]))' /\ HeldInv' /\ ProcInv'
<1>1. \A t \in Sups : /\ sup'[t].run = sup[t].run
                      /\ sup'[t].unconfirmed = sup[t].unconfirmed
                      /\ sup'[t].released = sup[t].released
                      /\ sup'[t].pc = "none" <=> sup[t].pc = "none"
  BY DEF Stepped
<1>2. \A t \in Sups : Holds(t)' <=> Holds(t)
  BY <1>1 DEF Holds, At
<1>3. HeldInv'
  BY <1>2 DEF Inv, HeldInv, Rest
<1>4. ProcInv'
  <2>1. \A g \in Gens : Alive(g)' <=> Alive(g)
    BY DEF Alive, Rest
  <2>. QED  BY <1>1, <1>2, <2>1 DEF Inv, ProcInv, Rest
<1>5. (\A t \in Sups : Knows(sup[t]))'
  BY DEF Inv, Stepped
<1>. QED  BY <1>3, <1>4, <1>5

\* A step that touches nothing shared.
LEMMA QuietKeeps ==
    ASSUME Inv, NEW s \in Sups, Quietly(s)
    PROVE  Inv'
<1>1. /\ Stepped(s) /\ Same(sup[s], sup'[s]) /\ StaysIn(sup[s].pc, sup'[s].pc)
      /\ Rest /\ UNCHANGED gvars
  BY DEF Quietly, SupOnly
<1>2. (\A t \in Sups : Knows(sup[t]))' /\ HeldInv' /\ ProcInv'
  BY <1>1, SameHold DEF StaysIn, Same
<1>3. \A t \in Sups : Same(sup[t], sup'[t]) /\ StaysIn(sup[t].pc, sup'[t].pc)
  BY <1>1 DEF Stepped, Same, StaysIn
<1>4. TypeOK'
  BY <1>1 DEF Inv, TypeOK, GTypeOK, gvars, Rest, Stepped
<1>5. GenInv'
  <2>1. gen' = gen
    BY <1>1 DEF gvars
  <2>2. GenInv
    BY DEF Inv
  <2>. QED  BY <1>3, <2>1, <2>2 DEF GenInv, Same, StaysIn, At
<1>6. SlotInv'
  <2>1. gen' = gen /\ slot' = slot
    BY <1>1 DEF gvars
  <2>2. SlotInv
    BY DEF Inv
  <2>. QED  BY <1>3, <2>1, <2>2 DEF SlotInv, Same, StaysIn, At, Replaceable
<1>. QED  BY <1>2, <1>4, <1>5, <1>6 DEF Inv

\* The generation's lock: what revoke, ready and begin_drain leave of the others.
LEMMA RevokeFacts ==
    ASSUME GTypeOK, NEW g \in Gens, Revoke(g), UNCHANGED slot
    PROVE  /\ GTypeOK'
           /\ \A h \in Gens : /\ gen'[h].kind = gen[h].kind
                              /\ gen'[h].state = IF h = g THEN "revoked" ELSE gen[h].state
<1>. DEFINE G == [kind : Kinds, state : States, inFlight : SUBSET Reqs,
                  dispatched : SUBSET Reqs, used : SUBSET Reqs]
            R == [pc : {"new", "got", "flying", "sent", "done"},
                  gen : Gens \cup {NoGen}, ans : Answers,
                  listed : {"no", "abandoned", "never_sent"},
                  result : {"none", "ok", "error"}, left : BOOLEAN]
            d == [gen[g] EXCEPT !.state = "revoked"]
<1>1. gen \in [Gens -> G] /\ req \in [Reqs -> R] /\ slot \in Gens
  BY DEF GTypeOK
<1>2. d \in G /\ d.kind = gen[g].kind /\ d.state = "revoked"
  BY <1>1 DEF States
<1>3. gen' = [gen EXCEPT ![g] = d]
  BY DEF Revoke, RevokedIn
<1>4. req' \in [Reqs -> R]
  <2>1. ASSUME NEW r \in Reqs PROVE Listed(g)[r] \in R
    <3>1. req[r] \in R
      BY <1>1
    <3>2. [req[r] EXCEPT !.listed = "abandoned"] \in R
          /\ [req[r] EXCEPT !.listed = "never_sent"] \in R
      BY <3>1
    <3>. HIDE DEF R
    <3>. QED  BY <3>1, <3>2 DEF Listed
  <2>2. Listed(g) = [r \in Reqs |-> Listed(g)[r]]
    BY DEF Listed
  <2>. HIDE DEF R
  <2>3. Listed(g) \in [Reqs -> R]
    BY <2>1, <2>2
  <2>. QED  BY <2>3 DEF Revoke
<1>. HIDE DEF d
<1>5. gen' \in [Gens -> G]
  BY <1>1, <1>2, <1>3
<1>6. GTypeOK'
  BY <1>1, <1>4, <1>5 DEF GTypeOK
<1>. QED  BY <1>1, <1>2, <1>3, <1>6

LEMMA RestateFacts ==
    ASSUME GTypeOK, NEW g \in Gens, NEW st \in States, gen' = [gen EXCEPT ![g].state = st],
           UNCHANGED <<slot, req>>
    PROVE  /\ GTypeOK'
           /\ \A h \in Gens : /\ gen'[h].kind = gen[h].kind
                              /\ gen'[h].state = IF h = g THEN st ELSE gen[h].state
<1>. DEFINE G == [kind : Kinds, state : States, inFlight : SUBSET Reqs,
                  dispatched : SUBSET Reqs, used : SUBSET Reqs]
            d == [gen[g] EXCEPT !.state = st]
<1>1. gen \in [Gens -> G]
  BY DEF GTypeOK
<1>2. d \in G /\ d.kind = gen[g].kind /\ d.state = st
  BY <1>1
<1>3. gen' = [gen EXCEPT ![g] = d]
  OBVIOUS
<1>. HIDE DEF d
<1>4. gen' \in [Gens -> G]
  BY <1>1, <1>2, <1>3
<1>. QED  BY <1>1, <1>2, <1>3, <1>4 DEF GTypeOK

LEMMA FreshFacts ==
    ASSUME GTypeOK, NEW g \in Gens, NEW k \in Kinds,
           gen' = [gen EXCEPT ![g] = Generation(k)], UNCHANGED req, slot' \in Gens
    PROVE  /\ GTypeOK'
           /\ gen'[g].kind = k /\ gen'[g].state = "starting"
           /\ \A h \in Gens \ {g} : gen'[h] = gen[h]
<1>. DEFINE G == [kind : Kinds, state : States, inFlight : SUBSET Reqs,
                  dispatched : SUBSET Reqs, used : SUBSET Reqs]
<1>1. gen \in [Gens -> G]
  BY DEF GTypeOK
<1>2. Generation(k) \in G /\ Generation(k).kind = k /\ Generation(k).state = "starting"
  BY DEF Generation, States
<1>3. gen' \in [Gens -> G]
  BY <1>1, <1>2
<1>. QED  BY <1>1, <1>2, <1>3 DEF GTypeOK

\* A step that revokes a generation of its supervisor, which it keeps.
LEMMA RevokeKeeps ==
    ASSUME Inv, NEW s \in Sups, Stepped(s), Same(sup[s], sup'[s]), Rest,
           NEW g \in Gens, g = sup[s].run \/ g = sup[s].mine,
           Revoke(g), UNCHANGED slot,
           sup[s].pc # "none", sup'[s].pc \notin {"none", "spawned"} \cup Installed,
           sup'[s].pc \in Revoked => g = sup[s].run
    PROVE  Inv' /\ gen[g].kind # "none"
<1>1. /\ GTypeOK'
      /\ \A h \in Gens : /\ gen'[h].kind = gen[h].kind
                         /\ gen'[h].state = IF h = g THEN "revoked" ELSE gen[h].state
  BY RevokeFacts DEF Inv, TypeOK
<1>2. (\A t \in Sups : Knows(sup[t]))' /\ HeldInv' /\ ProcInv'
  BY SameHold DEF Same
<1>3. TypeOK'
  BY <1>1 DEF Inv, TypeOK, Stepped, Rest
<1>4. \A t \in Sups : sup[t].mine \in Gens \cup {NoGen} /\ sup[t].run \in Gens \cup {NoGen}
  BY DEF Inv, TypeOK, Loop
<1>5. \A t \in Sups : Same(sup[t], sup'[t]) /\ (t # s => sup'[t].pc = sup[t].pc)
  BY DEF Stepped, Same
<1>6. gen[g].kind # "none"
  BY GensAssumption DEF Inv, GenInv
<1>7. \A t \in Sups \ {s} : sup[t].run # NoGen => sup[t].run # g
  <2>1. SUFFICES ASSUME NEW t \in Sups \ {s}, sup[t].run # NoGen, sup[t].run = g PROVE FALSE
    OBVIOUS
  <2>2. sup[s].mine # g
    BY <2>1 DEF Inv, GenInv
  <2>3. sup[s].run = g
    BY <2>2
  <2>4. sup[s].run # NoGen
    BY <2>3, GensAssumption
  <2>5. Holds(t)
    BY <2>1, OneHolder
  <2>6. s = t
    BY <2>4, <2>5, OneHolder
  <2>. QED  BY <2>6
<1>8. GenInv'
  <2>1. GenInv
    BY DEF Inv
  <2>2. ASSUME NEW t \in Sups, sup[t].mine # NoGen PROVE gen'[sup[t].mine].kind # "none"
    BY <1>1, <1>4, <2>1, <2>2 DEF GenInv
  <2>3. ASSUME NEW t \in Sups, sup[t].run # NoGen
        PROVE  /\ gen'[sup[t].run].kind = "process"
               /\ sup'[t].pc = "spawned" => gen'[sup[t].run].state = "starting"
               /\ sup'[t].pc \in Revoked => gen'[sup[t].run].state = "revoked"
               /\ \A u \in Sups \ {t} : sup[u].mine # sup[t].run
    <3>1. /\ gen[sup[t].run].kind = "process"
          /\ sup[t].pc = "spawned" => gen[sup[t].run].state = "starting"
          /\ sup[t].pc \in Revoked => gen[sup[t].run].state = "revoked"
          /\ \A u \in Sups \ {t} : sup[u].mine # sup[t].run
      BY <2>1, <2>3 DEF GenInv, At
    <3>2. sup[t].run \in Gens
      BY <1>4, <2>3
    <3>. QED  BY <1>1, <1>5, <1>7, <2>3, <3>1, <3>2
  <2>4. ASSUME NEW h \in Gens, gen'[h].kind = "process", gen'[h].state # "revoked"
        PROVE  \E t \in Sups : sup[t].run = h
    BY <1>1, <2>1, <2>4 DEF GenInv
  <2>. QED  BY <1>5, <2>2, <2>3, <2>4 DEF GenInv, At, Same
<1>9. SlotInv'
  <2>1. SlotInv /\ slot \in Gens
    BY DEF Inv, TypeOK, GTypeOK
  <2>2. Replaceable => Replaceable'
    BY <1>1, <2>1 DEF Replaceable
  <2>. QED  BY <1>5, <2>1, <2>2 DEF SlotInv, At, Same
<1>. QED  BY <1>2, <1>3, <1>6, <1>8, <1>9 DEF Inv

\* A group it cannot confirm: the record says there was a process.
LEMMA UnconfirmedKnown ==
    ASSUME TypeOK, NEW s \in Sups, Knows(sup[s]), Unconfirmed(s)
    PROVE  Stepped(s) /\ Same(sup[s], sup'[s]) /\ sup'[s].pc = "publish_failed"
<1>. DEFINE x == sup[s]
            n == Once(x.rec, "process", "running")
            y == [x EXCEPT !.pc = "publish_failed", !.rec = n]
<1>1. x \in Loop /\ x.rec \in StopRecord /\ sup \in [Sups -> Loop]
  BY DEF TypeOK, Loop
<1>2. x.pc = "unconfirmed"
  BY DEF Unconfirmed, At
<1>3. sup' = [sup EXCEPT ![s] = y]
  BY <1>1 DEF Unconfirmed
<1>4. /\ n \in StopRecord
      /\ n.process = IF x.rec.process = "?" THEN "running" ELSE x.rec.process
      /\ n.group = x.rec.group /\ n.end = x.rec.end
  BY <1>1, OnceProcess
<1>. HIDE DEF n
<1>5. y \in Loop
  BY <1>1, <1>4 DEF Loop, LivePcs
<1>6. /\ y.pc = "publish_failed" /\ y.rec = n /\ Same(x, y) /\ y.status = x.status
      /\ y.fails = x.fails /\ y.asked = x.asked /\ y.stop = x.stop /\ y.how = x.how
      /\ y.ans = x.ans
  BY <1>1 DEF Loop, Same
<1>. HIDE DEF y
<1>7. Knows(x)
  OBVIOUS
<1>. HIDE DEF x
<1>8. RunKnown(y)
  BY <1>2, <1>6, <1>7
     DEF Knows, Same, RunKnown, Serving, Lost, Stopping, Between, Exiting, Trying
<1>9. RecordKnown(y)
  BY <1>2, <1>4, <1>6, <1>7
     DEF Knows, Same, RecordKnown, StopKnown, Blank, LivePcs, Exiting, Unrecorded, Between,
         Ending, Stopping
<1>10. StopKnown(y)
  BY <1>2, <1>4, <1>6, <1>7 DEF Knows, Same, StopKnown, LivePcs, Exiting
<1>. QED  BY <1>1, <1>3, <1>5, <1>6, <1>8, <1>9, <1>10, Written DEF Stepped, Knows, x

\* Every step that revokes and keeps its run and its generation.
LEMMA RevokingSteps ==
    ASSUME Inv, NEW s \in Sups,
           BeginStop(s) \/ Unconfirmed(s) \/ RetireGaveUp(s) \/ Retire(s) \/ ExitRetire(s)
    PROVE  /\ Inv'
           /\ \E g \in Gens : Revoke(g) /\ gen[g].kind # "none" /\ UNCHANGED slot
<1>1. TypeOK /\ Knows(sup[s]) /\ RunKnown(sup[s]) /\ sup[s] \in Loop
  BY DEF Inv, Knows, TypeOK
<1>2. sup[s].run \in Gens \cup {NoGen} /\ sup[s].mine \in Gens \cup {NoGen}
  BY <1>1 DEF Loop
<1>3. CASE BeginStop(s)
  <2>1. sup[s].pc = "revoke" /\ Rest /\ UNCHANGED slot /\ Revoke(sup[s].run)
    BY <1>3 DEF BeginStop, At
  <2>2. Moved(s) /\ sup'[s].pc = "publish_stopping"
    BY <1>1, <1>3, ToStep DEF BeginStop, At, MayMove
  <2>3. sup[s].run \in Gens
    BY <1>1, <1>2, <2>1 DEF RunKnown, Serving
  <2>4. Inv' /\ gen[sup[s].run].kind # "none"
    BY <2>1, <2>2, <2>3, RevokeKeeps DEF Moved, Installed
  <2>. QED  BY <2>1, <2>3, <2>4
<1>4. CASE Unconfirmed(s)
  <2>1. sup[s].pc = "unconfirmed" /\ Rest /\ UNCHANGED slot /\ Revoke(sup[s].mine)
    BY <1>4 DEF Unconfirmed, At
  <2>2. Stepped(s) /\ Same(sup[s], sup'[s]) /\ sup'[s].pc = "publish_failed"
    BY <1>1, <1>4, UnconfirmedKnown
  <2>3. sup[s].mine \in Gens
    BY <1>1, <1>2, <2>1 DEF RunKnown
  <2>4. Inv' /\ gen[sup[s].mine].kind # "none"
    BY <2>1, <2>2, <2>3, RevokeKeeps DEF Installed, Revoked
  <2>. QED  BY <2>1, <2>3, <2>4
<1>5. CASE RetireGaveUp(s)
  <2>. DEFINE p == IF At(s, "retire_gaveup") THEN "publish_gaveup" ELSE "publish_changed"
  <2>1. /\ sup[s].pc \in {"retire_gaveup", "retire_changed"} /\ Rest /\ UNCHANGED slot
        /\ Revoke(sup[s].mine) /\ To(s, p)
    BY <1>5 DEF RetireGaveUp
  <2>2. MayMove(sup[s].pc, p) /\ p \in {"publish_gaveup", "publish_changed"}
    BY <2>1 DEF MayMove, At
  <2>. HIDE DEF p
  <2>3. Moved(s) /\ sup'[s].pc = p
    BY <1>1, <2>1, <2>2, ToStep
  <2>4. sup[s].mine \in Gens
    BY <1>1, <1>2, <2>1 DEF RunKnown
  <2>5. Inv' /\ gen[sup[s].mine].kind # "none"
    BY <2>1, <2>2, <2>3, <2>4, RevokeKeeps DEF Moved, Installed, Revoked
  <2>. QED  BY <2>1, <2>4, <2>5
<1>6. CASE Retire(s)
  <2>1. sup[s].pc = "retire" /\ Rest /\ UNCHANGED slot /\ Revoke(sup[s].mine)
    BY <1>6 DEF Retire, At
  <2>2. Moved(s) /\ sup'[s].pc = "release"
    BY <1>1, <1>6, ToStep DEF Retire, At, MayMove
  <2>3. sup[s].mine \in Gens
    BY <1>1, <1>2, <2>1 DEF RunKnown
  <2>4. Inv' /\ gen[sup[s].mine].kind # "none"
    BY <2>1, <2>2, <2>3, RevokeKeeps DEF Moved, Installed, Revoked
  <2>. QED  BY <2>1, <2>3, <2>4
<1>7. CASE ExitRetire(s)
  <2>1. sup[s].pc = "exit_retire" /\ Rest /\ UNCHANGED slot /\ Revoke(sup[s].mine)
    BY <1>7 DEF ExitRetire, At
  <2>2. Moved(s) /\ sup'[s].pc = "exit_publish"
    BY <1>1, <1>7, ToStep DEF ExitRetire, At, MayMove
  <2>3. sup[s].mine \in Gens
    BY <1>1, <1>2, <2>1 DEF RunKnown
  <2>4. Inv' /\ gen[sup[s].mine].kind # "none"
    BY <2>1, <2>2, <2>3, RevokeKeeps DEF Moved, Installed, Revoked
  <2>. QED  BY <2>1, <2>3, <2>4
<1>. QED  BY <1>3, <1>4, <1>5, <1>6, <1>7

\* A step that moves the state of its own run, which serves.
LEMMA RestateKeeps ==
    ASSUME Inv, NEW s \in Sups, Stepped(s), Same(sup[s], sup'[s]),
           StaysIn(sup[s].pc, sup'[s].pc), Rest,
           sup'[s].pc \notin {"spawned"} \cup Revoked,
           sup[s].run \in Gens, NEW st \in States,
           gen' = [gen EXCEPT ![sup[s].run].state = st], UNCHANGED <<slot, req>>
    PROVE  Inv'
<1>. DEFINE g == sup[s].run
<1>1. /\ GTypeOK'
      /\ \A h \in Gens : /\ gen'[h].kind = gen[h].kind
                         /\ gen'[h].state = IF h = g THEN st ELSE gen[h].state
  BY RestateFacts DEF Inv, TypeOK
<1>2. (\A t \in Sups : Knows(sup[t]))' /\ HeldInv' /\ ProcInv'
  BY SameHold DEF StaysIn, Same
<1>3. TypeOK'
  BY <1>1 DEF Inv, TypeOK, Stepped, Rest
<1>4. \A t \in Sups : sup[t].mine \in Gens \cup {NoGen} /\ sup[t].run \in Gens \cup {NoGen}
  BY DEF Inv, TypeOK, Loop
<1>5. \A t \in Sups : Same(sup[t], sup'[t]) /\ StaysIn(sup[t].pc, sup'[t].pc)
  BY DEF Stepped, Same, StaysIn
<1>6. \A t \in Sups \ {s} : sup[t].run # NoGen => sup[t].run # g
  BY OneHolder, GensAssumption
<1>7. GenInv'
  <2>1. GenInv
    BY DEF Inv
  <2>2. ASSUME NEW t \in Sups, sup[t].mine # NoGen PROVE gen'[sup[t].mine].kind # "none"
    BY <1>1, <1>4, <2>1, <2>2 DEF GenInv
  <2>3. ASSUME NEW t \in Sups, sup[t].run # NoGen
        PROVE  /\ gen'[sup[t].run].kind = "process"
               /\ sup'[t].pc = "spawned" => gen'[sup[t].run].state = "starting"
               /\ sup'[t].pc \in Revoked => gen'[sup[t].run].state = "revoked"
               /\ \A u \in Sups \ {t} : sup[u].mine # sup[t].run
    <3>1. /\ gen[sup[t].run].kind = "process"
          /\ sup[t].pc = "spawned" => gen[sup[t].run].state = "starting"
          /\ sup[t].pc \in Revoked => gen[sup[t].run].state = "revoked"
          /\ \A u \in Sups \ {t} : sup[u].mine # sup[t].run
      BY <2>1, <2>3 DEF GenInv, At
    <3>2. sup[t].run \in Gens
      BY <1>4, <2>3
    <3>. QED  BY <1>1, <1>5, <1>6, <2>3, <3>1, <3>2 DEF StaysIn
  <2>4. ASSUME NEW h \in Gens, gen'[h].kind = "process", gen'[h].state # "revoked"
        PROVE  \E t \in Sups : sup[t].run = h
    BY <1>1, <2>1, <2>4 DEF GenInv
  <2>. QED  BY <1>5, <2>2, <2>3, <2>4 DEF GenInv, At, Same
<1>8. SlotInv'
  <2>1. SlotInv /\ slot \in Gens /\ slot' = slot
    BY DEF Inv, TypeOK, GTypeOK
  <2>2. Replaceable => Replaceable' \/ slot = g
    BY <1>1, <2>1 DEF Replaceable
  <2>. QED  BY <1>5, <2>1, <2>2 DEF SlotInv, At, Same, StaysIn
<1>. QED  BY <1>2, <1>3, <1>7, <1>8 DEF Inv

\* The last check of a stop and ready; the drain.
LEMMA ServingSteps ==
    ASSUME Inv, NEW s \in Sups, AdmitReady(s) \/ Drain(s)
    PROVE  /\ Inv'
           /\ \/ UNCHANGED gvars
              \/ /\ AdmitReady(s) /\ ~Asked(s) /\ sup[s].run \in Gens
                 /\ sup[s].run = slot /\ OwnerReadies(sup[s].run)
              \/ sup[s].run \in Gens /\ OwnerDrains(sup[s].run)
<1>1. TypeOK /\ Knows(sup[s]) /\ RunKnown(sup[s]) /\ sup[s] \in Loop
  BY DEF Inv, Knows, TypeOK
<1>2. CASE AdmitReady(s)
  <2>1. /\ sup[s].pc = "admit" /\ ~Asked(s) /\ CanReady(sup[s].run) /\ Rest
        /\ gen' = [gen EXCEPT ![sup[s].run].state = "running"] /\ UNCHANGED <<slot, req>>
    BY <1>2 DEF AdmitReady, At, MayServe, Readied
  <2>2. Moved(s) /\ sup'[s].pc = "publish_running"
    BY <1>1, <1>2, ToStep DEF AdmitReady, At, MayMove
  <2>3. sup[s].run \in Gens
    BY <1>1, <2>1 DEF RunKnown, Serving, Loop
  <2>4. StaysIn(sup[s].pc, sup'[s].pc)
    BY <2>1, <2>2 DEF StaysIn, Installed, Revoked
  <2>5. Inv'
    BY <2>1, <2>2, <2>3, <2>4, RestateKeeps DEF Moved, States, Revoked
  <2>6. slot = sup[s].run
    BY <2>1 DEF Inv, SlotInv, Installed
  <2>. QED  BY <1>2, <2>1, <2>3, <2>5, <2>6 DEF OwnerReadies, Readied
<1>3. CASE Drain(s)
  <2>1. sup[s].pc = "drain" /\ Rest /\ At(s, "drain")
    BY <1>3 DEF Drain, At
  <2>2. sup[s].run \in Gens
    BY <1>1, <2>1 DEF RunKnown, Serving, Loop
  <2>3. CASE /\ sup' = [sup EXCEPT ![s].pc = "revoke", ![s].rec = Once(@, "drain", "skipped")]
             /\ UNCHANGED gvars
    <3>1. Stepped(s) /\ Same(sup[s], sup'[s]) /\ StaysIn(sup[s].pc, sup'[s].pc)
      BY <1>1, <2>1, <2>3, DrainStops
    <3>. QED  BY <2>1, <2>3, <3>1, QuietKeeps DEF Quietly, SupOnly
  <2>4. CASE /\ CanDrain(sup[s].run)
             /\ gen' = Drained(sup[s].run)
             /\ sup' = [sup EXCEPT ![s].pc = "draining", ![s].rec.began = TRUE]
             /\ UNCHANGED <<slot, req>>
    <3>1. Stepped(s) /\ Same(sup[s], sup'[s]) /\ StaysIn(sup[s].pc, sup'[s].pc)
      BY <1>1, <2>1, <2>4, DrainBegins
    <3>2. sup'[s].pc = "draining"
      BY <1>1, <2>4 DEF TypeOK, Loop
    <3>3. Inv'
      BY <2>1, <2>2, <2>4, <3>1, <3>2, RestateKeeps DEF Drained, States, Revoked
    <3>. QED  BY <2>2, <2>4, <3>3 DEF OwnerDrains
  <2>. QED  BY <1>3, <2>3, <2>4 DEF Drain
<1>. QED  BY <1>2, <1>3

\* A step that forgets a run that is, or was just, revoked.
Forgets(x, y) ==
    /\ y.run = NoGen
    /\ y.mine = x.mine /\ y.unconfirmed = x.unconfirmed /\ y.released = x.released
    /\ x.pc # "none" /\ y.pc \notin {"none", "spawned"} \cup Installed \cup Revoked

LEMMA ForgetKeeps ==
    ASSUME Inv, NEW s \in Sups, Stepped(s), Forgets(sup[s], sup'[s]), Rest, UNCHANGED slot,
           sup[s].run \in Gens, GTypeOK',
           \A h \in Gens :
               /\ gen'[h].kind = gen[h].kind
               /\ gen'[h].state = IF h = sup[s].run THEN "revoked" ELSE gen[h].state
    PROVE  Inv'
<1>1. \A t \in Sups : /\ sup'[t].mine = sup[t].mine
                      /\ sup'[t].unconfirmed = sup[t].unconfirmed
                      /\ sup'[t].released = sup[t].released
                      /\ t # s => sup'[t].run = sup[t].run /\ sup'[t].pc = sup[t].pc
                      /\ sup'[t].pc = "none" <=> sup[t].pc = "none"
  BY DEF Stepped, Forgets
<1>2. \A t \in Sups : Holds(t)' <=> Holds(t)
  BY <1>1 DEF Holds, At
<1>3. HeldInv'
  BY <1>2 DEF Inv, HeldInv, Rest
<1>4. ProcInv'
  <2>1. \A g \in Gens : Alive(g)' <=> Alive(g)
    BY DEF Alive, Rest
  <2>. QED  BY <1>1, <1>2, <2>1 DEF Inv, ProcInv, Rest, Forgets
<1>5. (\A t \in Sups : Knows(sup[t]))'
  BY DEF Inv, Stepped
<1>6. TypeOK'
  BY DEF Inv, TypeOK, Stepped, Rest
<1>7. \A t \in Sups : sup[t].mine \in Gens \cup {NoGen} /\ sup[t].run \in Gens \cup {NoGen}
  BY DEF Inv, TypeOK, Loop
<1>8. \A t \in Sups \ {s} : sup[t].run = NoGen
  BY OneHolder, GensAssumption
<1>9. GenInv'
  <2>1. GenInv
    BY DEF Inv
  <2>2. ASSUME NEW t \in Sups, sup[t].mine # NoGen PROVE gen'[sup[t].mine].kind # "none"
    BY <1>7, <2>1, <2>2 DEF GenInv
  <2>3. \A t \in Sups : sup'[t].run = NoGen
    BY <1>1, <1>8 DEF Forgets
  <2>4. ASSUME NEW h \in Gens, gen'[h].kind = "process", gen'[h].state # "revoked" PROVE FALSE
    <3>1. h # sup[s].run /\ gen[h].kind = "process" /\ gen[h].state # "revoked"
      BY <2>4
    <3>2. PICK t \in Sups : sup[t].run = h
      BY <2>1, <3>1 DEF GenInv
    <3>. QED  BY <1>8, <3>1, <3>2, GensAssumption
  <2>. QED  BY <1>1, <2>2, <2>3, <2>4 DEF GenInv
<1>10. SlotInv'
  <2>1. SlotInv /\ slot \in Gens
    BY DEF Inv, TypeOK, GTypeOK
  <2>2. ASSUME NEW t \in Sups PROVE sup'[t].pc \notin Installed \cup {"spawned"}
    <3>1. CASE t = s
      BY <3>1 DEF Forgets
    <3>2. CASE t # s
      <4>1. RunKnown(sup[t]) /\ sup[t].run = NoGen
        BY <1>8, <3>2 DEF Inv, Knows
      <4>2. sup[t].pc \notin Serving
        BY <4>1 DEF RunKnown
      <4>. QED  BY <1>1, <3>2, <4>2 DEF Serving, Installed
    <3>. QED  BY <3>1, <3>2
  <2>3. Replaceable'
    <3>1. CASE Replaceable
      BY <2>1, <3>1 DEF Replaceable
    <3>2. CASE \E t \in Sups : sup[t].run = slot
      <4>1. sup[s].run = slot
        BY <1>8, <2>1, <3>2, GensAssumption
      <4>. QED  BY <2>1, <4>1 DEF Replaceable
    <3>. QED  BY <2>1, <3>1, <3>2 DEF SlotInv
  <2>. QED  BY <2>2, <2>3 DEF SlotInv, At
<1>. QED  BY <1>3, <1>4, <1>5, <1>6, <1>9, <1>10 DEF Inv

\* A process that survives, or cannot be signalled.
LEMMA TerminateFailsKeeps ==
    ASSUME Inv, NEW s \in Sups, TerminateFails(s)
    PROVE  Inv' /\ UNCHANGED gvars
<1>. DEFINE x == sup[s]
            n == Once(x.rec, "group", "failed")
            y == [x EXCEPT !.pc = "unconfirmed", !.run = NoGen, !.fine = FALSE, !.rec = n]
<1>1. x \in Loop /\ x.rec \in StopRecord /\ sup \in [Sups -> Loop] /\ TypeOK
  BY DEF Inv, TypeOK, Loop
<1>2. x.pc = "terminate" /\ Rest /\ UNCHANGED gvars
  BY DEF TerminateFails, At, SupOnly
<1>3. sup' = [sup EXCEPT ![s] = y]
  BY <1>1 DEF TerminateFails
<1>4. /\ n \in StopRecord
      /\ n.group = IF x.rec.group = "?" THEN "failed" ELSE x.rec.group
      /\ n.process = x.rec.process /\ n.end = x.rec.end
  BY <1>1, OnceGroup
<1>. HIDE DEF n
<1>5. y \in Loop
  BY <1>1, <1>4 DEF Loop, LivePcs
<1>6. /\ y.pc = "unconfirmed" /\ y.rec = n /\ y.run = NoGen /\ y.mine = x.mine
      /\ y.unconfirmed = x.unconfirmed /\ y.released = x.released /\ y.status = x.status
      /\ y.fails = x.fails /\ y.asked = x.asked /\ y.stop = x.stop /\ y.how = x.how
      /\ y.ans = x.ans
  BY <1>1 DEF Loop
<1>. HIDE DEF y
<1>7. Knows(x)
  BY DEF Inv
<1>8. sup[s].run \in Gens /\ gen[sup[s].run].state = "revoked"
  <2>1. x.run # NoGen
    BY <1>2, <1>7 DEF Knows, RunKnown, Serving
  <2>2. GenInv
    BY DEF Inv
  <2>. QED  BY <1>1, <1>2, <2>1, <2>2 DEF Loop, GenInv, Revoked
<1>. HIDE DEF x
<1>9. RunKnown(y)
  BY <1>2, <1>6, <1>7
     DEF Knows, RunKnown, Serving, Lost, Stopping, Between, Exiting, Trying
<1>10. RecordKnown(y)
  BY <1>2, <1>4, <1>6, <1>7
     DEF Knows, RunKnown, RecordKnown, StopKnown, Blank, LivePcs, Exiting, Unrecorded, Between,
         Ending, Stopping, Serving
<1>11. StopKnown(y)
  BY <1>2, <1>4, <1>6, <1>7 DEF Knows, StopKnown, LivePcs, Exiting
<1>12. Stepped(s) /\ sup'[s] = y
  BY <1>1, <1>3, <1>5, <1>9, <1>10, <1>11, Written DEF Stepped, Knows
<1>13. Forgets(sup[s], sup'[s])
  BY <1>2, <1>6, <1>12 DEF Forgets, Installed, Revoked, x
<1>14. GTypeOK'
  BY <1>1, <1>2 DEF TypeOK, GTypeOK, gvars
<1>15. UNCHANGED <<gen, slot>>
  BY <1>2 DEF gvars
<1>. QED  BY <1>2, <1>8, <1>12, <1>13, <1>14, <1>15, ForgetKeeps

\* finish returned with the group gone.
LEMMA FinishedKeeps ==
    ASSUME Inv, NEW s \in Sups, Finished(s)
    PROVE  Inv' /\ UNCHANGED gvars
<1>. DEFINE x == sup[s]
            p == IF x.asked THEN "retire" ELSE "decide"
            f == x.fine /\ ~x.asked
            y == [x EXCEPT !.run = NoGen, !.pc = p, !.fine = f]
<1>1. /\ x \in Loop /\ sup \in [Sups -> Loop] /\ TypeOK
      /\ x.fine \in BOOLEAN /\ x.asked \in BOOLEAN
  BY DEF Inv, TypeOK, Loop
<1>2. x.pc = "gone" /\ Rest /\ UNCHANGED gvars
  BY DEF Finished, At, SupOnly
<1>3. sup' = [sup EXCEPT ![s] = y]
  BY <1>1 DEF Finished
<1>4. p \in {"retire", "decide"} /\ (p = "retire" <=> x.asked) /\ f \in BOOLEAN
  BY <1>1
<1>. HIDE DEF p, f
<1>5. y \in Loop
  BY <1>1, <1>4 DEF Loop, LivePcs
<1>6. /\ y.pc = p /\ y.rec = x.rec /\ y.run = NoGen /\ y.mine = x.mine
      /\ y.unconfirmed = x.unconfirmed /\ y.released = x.released /\ y.status = x.status
      /\ y.fails = x.fails /\ y.asked = x.asked /\ y.stop = x.stop /\ y.how = x.how
      /\ y.ans = x.ans
  BY <1>1 DEF Loop
<1>. HIDE DEF y
<1>7. Knows(x)
  BY DEF Inv
<1>8. sup[s].run \in Gens /\ gen[sup[s].run].state = "revoked"
  <2>1. x.run # NoGen
    BY <1>2, <1>7 DEF Knows, RunKnown
  <2>2. GenInv
    BY DEF Inv
  <2>. QED  BY <1>1, <1>2, <2>1, <2>2 DEF Loop, GenInv, Revoked
<1>. HIDE DEF x
<1>9. RunKnown(y)
  BY <1>2, <1>4, <1>6, <1>7
     DEF Knows, RunKnown, Serving, Lost, Stopping, Between, Exiting, Trying
<1>10. RecordKnown(y)
  BY <1>1, <1>2, <1>4, <1>6, <1>7
     DEF Knows, RunKnown, RecordKnown, StopKnown, Blank, LivePcs, Exiting, Unrecorded, Between,
         Ending, Stopping
<1>11. StopKnown(y)
  BY <1>2, <1>4, <1>6, <1>7 DEF Knows, StopKnown, LivePcs, Exiting
<1>12. Stepped(s) /\ sup'[s] = y
  BY <1>1, <1>3, <1>5, <1>9, <1>10, <1>11, Written DEF Stepped, Knows
<1>13. Forgets(sup[s], sup'[s])
  BY <1>2, <1>4, <1>6, <1>12 DEF Forgets, Installed, Revoked, x
<1>14. GTypeOK'
  BY <1>1, <1>2 DEF TypeOK, GTypeOK, gvars
<1>15. UNCHANGED <<gen, slot>>
  BY <1>2 DEF gvars
<1>. QED  BY <1>2, <1>8, <1>12, <1>13, <1>14, <1>15, ForgetKeeps

\* ModuleProcess::drop.
LEMMA DropProcessKeeps ==
    ASSUME Inv, NEW s \in Sups, DropProcess(s)
    PROVE  /\ Inv'
           /\ \E g \in Gens : Revoke(g) /\ gen[g].kind # "none" /\ UNCHANGED slot
<1>. DEFINE x == sup[s]
            n(v) == Once(x.rec, "group", v)
            y(v) == [x EXCEPT !.pc = "exit_retire", !.run = NoGen, !.rec = n(v)]
<1>1. x \in Loop /\ x.rec \in StopRecord /\ sup \in [Sups -> Loop] /\ TypeOK
  BY DEF Inv, TypeOK, Loop
<1>2. x.pc = "drop_process" /\ Rest /\ UNCHANGED slot /\ Revoke(x.run)
  BY DEF DropProcess, At
<1>3. PICK v \in {"killed", "unavailable"} : sup' = [sup EXCEPT ![s] = y(v)]
  <2>1. PICK v \in {"killed", "unavailable"} :
           sup' = [sup EXCEPT ![s].pc = "exit_retire", ![s].run = NoGen,
                              ![s].rec = Once(@, "group", v)]
    BY DEF DropProcess
  <2>2. sup' = [sup EXCEPT ![s] = y(v)]
    BY <1>1, <2>1
  <2>. QED  BY <2>2
<1>. DEFINE m == n(v)
            z == [x EXCEPT !.pc = "exit_retire", !.run = NoGen, !.rec = m]
<1>4. sup' = [sup EXCEPT ![s] = z]
  BY <1>3
<1>5. /\ m \in StopRecord
      /\ m.group = IF x.rec.group = "?" THEN v ELSE x.rec.group
      /\ m.process = x.rec.process /\ m.end = x.rec.end
  BY <1>1, OnceGroup
<1>. HIDE DEF m
<1>6. z \in Loop
  BY <1>1, <1>5 DEF Loop, EndPcs
<1>7. /\ z.pc = "exit_retire" /\ z.rec = m /\ z.run = NoGen /\ z.mine = x.mine
      /\ z.unconfirmed = x.unconfirmed /\ z.released = x.released /\ z.status = x.status
      /\ z.fails = x.fails /\ z.asked = x.asked /\ z.stop = x.stop /\ z.how = x.how
      /\ z.ans = x.ans
  BY <1>1 DEF Loop
<1>. HIDE DEF z
<1>8. Knows(x)
  BY DEF Inv
<1>9. x.run \in Gens
  <2>1. x.run # NoGen
    BY <1>2, <1>8 DEF Knows, RunKnown
  <2>. QED  BY <1>1, <2>1 DEF Loop
<1>10. gen[x.run].kind # "none"
  <2>1. GenInv
    BY DEF Inv
  <2>. QED  BY <1>9, <2>1, GensAssumption DEF GenInv
<1>. HIDE DEF x
<1>11. RunKnown(z)
  BY <1>2, <1>7, <1>8
     DEF Knows, RunKnown, Serving, Lost, Stopping, Between, Exiting, Trying
<1>12. RecordKnown(z)
  BY <1>2, <1>5, <1>7, <1>8
     DEF Knows, RunKnown, RecordKnown, StopKnown, Blank, LivePcs, Exiting, Unrecorded, Between,
         Ending, Stopping
<1>13. StopKnown(z)
  BY <1>2, <1>5, <1>7, <1>8 DEF Knows, RunKnown, StopKnown, LivePcs, Exiting
<1>14. Stepped(s) /\ sup'[s] = z
  BY <1>1, <1>4, <1>6, <1>11, <1>12, <1>13, Written DEF Stepped, Knows
<1>15. Forgets(sup[s], sup'[s])
  BY <1>2, <1>7, <1>14 DEF Forgets, Installed, Revoked, x
<1>16. /\ GTypeOK'
       /\ \A h \in Gens : /\ gen'[h].kind = gen[h].kind
                          /\ gen'[h].state = IF h = sup[s].run THEN "revoked" ELSE gen[h].state
  BY <1>1, <1>2, <1>9, RevokeFacts DEF TypeOK, x
<1>17. Inv'
  BY <1>2, <1>9, <1>14, <1>15, <1>16, ForgetKeeps DEF x
<1>. QED  BY <1>2, <1>9, <1>10, <1>17

\* The generations and the slot as they were, and every run and generation with its owner.
LEMMA SameGens ==
    ASSUME Inv, UNCHANGED gvars,
           \A t \in Sups : /\ sup'[t].mine = sup[t].mine /\ sup'[t].run = sup[t].run
                           /\ StaysIn(sup[t].pc, sup'[t].pc)
    PROVE  GenInv' /\ SlotInv'
<1>1. gen' = gen /\ slot' = slot /\ GenInv /\ SlotInv
  BY DEF gvars, Inv
<1>2. GenInv'
  BY <1>1 DEF GenInv, StaysIn, At
<1>3. SlotInv'
  BY <1>1 DEF SlotInv, StaysIn, At, Replaceable
<1>. QED  BY <1>2, <1>3

\* The only group there can be.
LEMMA OnlyGroup ==
    ASSUME Inv, NEW s \in Sups, Holds(s), NEW g \in Gens, Alive(g)
    PROVE  /\ proc[g].of = s /\ sup[s].unconfirmed
           /\ sup[s].run # NoGen => sup[s].run = g
BY DEF Inv, HeldInv, ProcInv

LEMMA GroupGoneKeeps ==
    ASSUME Inv, NEW s \in Sups, GroupGone(s)
    PROVE  Inv' /\ UNCHANGED gvars
<1>. DEFINE x == sup[s]
            k == SawStop(x.rec, "running")
            m == Once(k, "group", "gone")
            n == IF x.stop # "none" THEN m ELSE x.rec
            a == x.asked \/ x.stop # "none"
            y == [x EXCEPT !.pc = "gone", !.unconfirmed = FALSE, !.asked = a, !.rec = n]
<1>1. /\ x \in Loop /\ x.rec \in StopRecord /\ sup \in [Sups -> Loop] /\ TypeOK
      /\ x.asked \in BOOLEAN
  BY DEF Inv, TypeOK, Loop
<1>2. /\ x.pc = "terminate" /\ UNCHANGED gvars /\ held' = held
      /\ proc' = [proc EXCEPT ![x.run] = NoProcess]
  BY DEF GroupGone, At
<1>3. sup' = [sup EXCEPT ![s] = y]
  BY <1>1 DEF GroupGone, Asked
<1>4. /\ k \in StopRecord
      /\ k.process = IF x.rec.process = "?" THEN "running" ELSE x.rec.process
      /\ k.group = x.rec.group /\ k.end = x.rec.end
  BY <1>1, SawStopFacts
<1>. HIDE DEF k
<1>5. /\ m \in StopRecord
      /\ m.group = IF k.group = "?" THEN "gone" ELSE k.group
      /\ m.process = k.process /\ m.end = k.end
  BY <1>4, OnceGroup
<1>. HIDE DEF m
<1>6. n \in StopRecord /\ n = IF x.stop # "none" THEN m ELSE x.rec
  BY <1>1, <1>5
<1>7. a \in BOOLEAN /\ (a <=> x.asked \/ x.stop # "none")
  BY <1>1
<1>. HIDE DEF n, a
<1>8. y \in Loop
  <2>1. x \in Loop /\ n \in StopRecord /\ a \in BOOLEAN
    BY <1>1, <1>6, <1>7
  <2>2. "gone" \in {"none"} \cup LivePcs \cup EndPcs
    BY DEF LivePcs
  <2>. QED  BY <2>1, <2>2 DEF Loop
<1>9. /\ y.pc = "gone" /\ y.rec = n /\ y.run = x.run /\ y.mine = x.mine
      /\ y.unconfirmed = FALSE /\ y.released = x.released /\ y.status = x.status
      /\ y.fails = x.fails /\ y.asked = a /\ y.stop = x.stop /\ y.how = x.how
      /\ y.ans = x.ans
  BY <1>1 DEF Loop
<1>. HIDE DEF y
<1>10. Knows(x)
  BY DEF Inv
<1>11. x.run \in Gens
  BY <1>1, <1>2, <1>10 DEF Knows, RunKnown, Serving, Loop
<1>. HIDE DEF x
<1>12. RunKnown(y)
  BY <1>2, <1>9, <1>10
     DEF Knows, RunKnown, Serving, Lost, Stopping, Between, Exiting, Trying
<1>13. RecordKnown(y)
  <2>1. y.asked => y.rec.process = "running" /\ y.rec.group = "gone" /\ y.rec.end = "?"
    BY <1>1, <1>2, <1>4, <1>5, <1>6, <1>7, <1>9, <1>10
       DEF Knows, RecordKnown, StopKnown, Ending, Blank, LivePcs
  <2>2. ~y.asked => y.rec = x.rec /\ Blank(y.rec)
    BY <1>1, <1>2, <1>6, <1>7, <1>9, <1>10 DEF Knows, RecordKnown, Ending
  <2>3. y.asked \in BOOLEAN
    BY <1>7, <1>9
  <2>. QED
    BY <1>9, <2>1, <2>2, <2>3
       DEF RecordKnown, Blank, LivePcs, Exiting, Unrecorded, Between, Ending, Stopping
<1>14. StopKnown(y)
  BY <1>2, <1>7, <1>9, <1>10 DEF Knows, StopKnown, LivePcs, Exiting
<1>15. Stepped(s) /\ sup'[s] = y
  BY <1>1, <1>3, <1>8, <1>12, <1>13, <1>14, Written DEF Stepped, Knows
<1>16. \A t \in Sups : /\ sup'[t].mine = sup[t].mine /\ sup'[t].run = sup[t].run
                       /\ sup'[t].released = sup[t].released
                       /\ StaysIn(sup[t].pc, sup'[t].pc)
  BY <1>2, <1>9, <1>15 DEF Stepped, StaysIn, Installed, Revoked, x
<1>17. GenInv' /\ SlotInv'
  BY <1>2, <1>16, SameGens
<1>18. \A t \in Sups : Holds(t)' <=> Holds(t)
  BY <1>16 DEF Holds, At, StaysIn
<1>19. HeldInv'
  BY <1>2, <1>18 DEF Inv, HeldInv
<1>20. proc \in [Gens -> [st : {"none", "up", "leaderless"}, of : Sups \cup {NoGen}]]
  BY <1>1 DEF TypeOK
<1>21. \A g \in Gens : ~Alive(g)'
  <2>1. SUFFICES ASSUME NEW g \in Gens, Alive(g)' PROVE FALSE
    OBVIOUS
  <2>2. g # x.run /\ Alive(g)
    BY <1>2, <1>11, <1>20, <2>1 DEF Alive, NoProcess
  <2>3. Holds(s) /\ sup[s].run # NoGen
    BY <1>11, OneHolder, GensAssumption DEF x
  <2>. QED  BY <2>2, <2>3, OnlyGroup DEF x
<1>22. ProcInv'
  BY <1>21 DEF ProcInv
<1>23. TypeOK'
  <2>1. NoProcess \in [st : {"none", "up", "leaderless"}, of : Sups \cup {NoGen}]
    BY DEF NoProcess
  <2>2. proc' \in [Gens -> [st : {"none", "up", "leaderless"}, of : Sups \cup {NoGen}]]
    BY <1>2, <1>11, <1>20, <2>1
  <2>. QED  BY <1>1, <1>2, <1>15, <2>2 DEF TypeOK, GTypeOK, gvars, Stepped
<1>24. (\A t \in Sups : Knows(sup[t]))'
  BY <1>15 DEF Inv, Stepped
<1>. QED  BY <1>2, <1>17, <1>19, <1>22, <1>23, <1>24 DEF Inv

\* The slot let go by the supervisor that holds it, which is sure there is no process.
LEMMA LetGoKeeps ==
    ASSUME Inv, NEW s \in Sups, Stepped(s), ~sup[s].released, ~sup[s].unconfirmed,
           sup[s].pc # "none",
           sup'[s].mine = sup[s].mine, sup'[s].run = sup[s].run,
           sup'[s].released, StaysIn(sup[s].pc, sup'[s].pc),
           held' = FALSE, UNCHANGED proc, UNCHANGED gvars
    PROVE  Inv'
<1>1. Holds(s)
  BY DEF Holds, At
<1>2. \A g \in Gens : ~Alive(g)
  BY <1>1, OnlyGroup
<1>3. ProcInv'
  BY <1>2 DEF ProcInv, Alive
<1>4. \A t \in Sups : /\ sup'[t].mine = sup[t].mine /\ sup'[t].run = sup[t].run
                      /\ StaysIn(sup[t].pc, sup'[t].pc)
                      /\ t # s => sup'[t].pc = sup[t].pc /\ sup'[t].released = sup[t].released
  BY DEF Stepped, StaysIn
<1>5. GenInv' /\ SlotInv'
  BY <1>4, SameGens
<1>6. \A t \in Sups : ~Holds(t)'
  <2>1. \A t \in Sups \ {s} : ~Holds(t)
    BY <1>1 DEF Inv, HeldInv
  <2>. QED  BY <1>4, <2>1 DEF Holds, At
<1>7. HeldInv'
  BY <1>6 DEF HeldInv
<1>8. TypeOK'
  BY DEF Inv, TypeOK, GTypeOK, gvars, Stepped
<1>9. (\A t \in Sups : Knows(sup[t]))'
  BY DEF Inv, Stepped
<1>. QED  BY <1>3, <1>5, <1>7, <1>8, <1>9 DEF Inv

LEMMA ReleaseKeeps ==
    ASSUME Inv, NEW s \in Sups, Release(s)
    PROVE  Inv' /\ UNCHANGED gvars
<1>. DEFINE x == sup[s]
            y == [x EXCEPT !.pc = "publish_stopped", !.released = TRUE]
<1>1. x \in Loop /\ sup \in [Sups -> Loop] /\ TypeOK
  BY DEF Inv, TypeOK
<1>2. x.pc = "release" /\ held' = FALSE /\ UNCHANGED gvars /\ UNCHANGED proc
  BY DEF Release, At
<1>3. sup' = [sup EXCEPT ![s] = y]
  BY <1>1 DEF Release
<1>4. y \in Loop
  BY <1>1 DEF Loop, LivePcs
<1>5. /\ y.pc = "publish_stopped" /\ y.rec = x.rec /\ y.run = x.run /\ y.mine = x.mine
      /\ y.unconfirmed = x.unconfirmed /\ y.released = TRUE /\ y.status = x.status
      /\ y.fails = x.fails /\ y.asked = x.asked /\ y.stop = x.stop /\ y.how = x.how
      /\ y.ans = x.ans
  BY <1>1 DEF Loop
<1>. HIDE DEF y
<1>6. Knows(x)
  BY DEF Inv
<1>7. ~x.released /\ ~x.unconfirmed
  BY <1>2, <1>6 DEF Knows, RunKnown, Stopping, Exiting
<1>. HIDE DEF x
<1>8. RunKnown(y)
  BY <1>2, <1>5, <1>6, <1>7
     DEF Knows, RunKnown, Serving, Lost, Stopping, Between, Exiting, Trying
<1>9. RecordKnown(y)
  BY <1>2, <1>5, <1>6
     DEF Knows, RecordKnown, Blank, LivePcs, Exiting, Unrecorded, Between, Ending, Stopping
<1>10. StopKnown(y)
  BY <1>2, <1>5, <1>6 DEF Knows, StopKnown, LivePcs, Exiting
<1>11. Stepped(s) /\ sup'[s] = y
  BY <1>1, <1>3, <1>4, <1>8, <1>9, <1>10, Written DEF Stepped, Knows
<1>12. StaysIn(sup[s].pc, sup'[s].pc)
  BY <1>2, <1>5, <1>11 DEF StaysIn, Installed, Revoked, x
<1>. QED  BY <1>2, <1>5, <1>7, <1>11, <1>12, LetGoKeeps DEF x

\* finalize: what the record says of a task that is over.
LEMMA FinalizedFacts ==
    ASSUME NEW s \in Sups, NEW x \in Loop, x = sup[s], x.rec \in StopRecord
    PROVE  LET n == Finalized(s)
           IN  /\ n \in StopRecord
               /\ n.process = IF x.rec.process = "?"
                              THEN IF x.unconfirmed THEN "running" ELSE "none"
                              ELSE x.rec.process
               /\ n.group = x.rec.group
               /\ n.end # "?"
               /\ n.began => n.drain # "?"
               /\ IF x.rec.end # "?" THEN n.end = x.rec.end
                  ELSE (n.end = "stopped" <=> x.how # "panic" /\ x.status = "stopped")
<1>. DEFINE end == CASE x.how = "panic" -> "panicked"
                     [] x.how # "panic" /\ x.status = "stopped" -> "stopped"
                     [] OTHER -> IF x.rec.abandoning THEN "cut_off" ELSE "killed"
            cut == IF x.rec.began THEN Once(x.rec, "drain", "cut") ELSE x.rec
            v == IF x.unconfirmed THEN "running" ELSE "none"
            m == Once(cut, "process", v)
<1>1. Finalized(s) = Once(m, "end", end)
  BY DEF Finalized
<1>2. /\ end \in {"stopped", "cut_off", "killed", "panicked"}
      /\ end = "stopped" <=> x.how # "panic" /\ x.status = "stopped"
  OBVIOUS
<1>. HIDE DEF end
<1>3. /\ cut \in StopRecord /\ cut.process = x.rec.process /\ cut.group = x.rec.group
      /\ cut.end = x.rec.end /\ cut.began = x.rec.began
      /\ x.rec.began => cut.drain # "?"
  BY OnceDrain
<1>. HIDE DEF cut
<1>4. v \in {"none", "running"} /\ v = IF x.unconfirmed THEN "running" ELSE "none"
  OBVIOUS
<1>. HIDE DEF v
<1>5. /\ m \in StopRecord
      /\ m.process = IF cut.process = "?" THEN v ELSE cut.process
      /\ m.drain = cut.drain /\ m.group = cut.group /\ m.end = cut.end /\ m.began = cut.began
  BY <1>3, <1>4, OnceProcess
<1>. HIDE DEF m
<1>6. LET n == Once(m, "end", end)
      IN  /\ n \in StopRecord
          /\ n.end = IF m.end = "?" THEN end ELSE m.end
          /\ n.process = m.process /\ n.drain = m.drain /\ n.group = m.group
          /\ n.began = m.began
  BY <1>2, <1>5, OnceEnd
<1>. QED  BY <1>1, <1>2, <1>3, <1>4, <1>5, <1>6

\* Exit::drop lets go of the slot, unless the group may still be there.
LEMMA ExitReleaseKeeps ==
    ASSUME Inv, NEW s \in Sups, ExitRelease(s)
    PROVE  Inv' /\ UNCHANGED gvars
<1>. DEFINE x == sup[s]
            n == Finalized(s)
            b == x.released \/ (~x.released /\ ~x.unconfirmed)
            y == [x EXCEPT !.pc = "over", !.rec = n, !.released = b]
<1>1. /\ x \in Loop /\ x.rec \in StopRecord /\ sup \in [Sups -> Loop] /\ TypeOK
      /\ x.released \in BOOLEAN /\ x.unconfirmed \in BOOLEAN
  BY DEF Inv, TypeOK, Loop
<1>2. /\ x.pc = "exit_release" /\ UNCHANGED gvars /\ UNCHANGED proc
      /\ held' = IF ~x.released /\ ~x.unconfirmed THEN FALSE ELSE held
  BY DEF ExitRelease, At, LetsGo
<1>3. sup' = [sup EXCEPT ![s] = y]
  BY <1>1 DEF ExitRelease, LetsGo
<1>4. /\ n \in StopRecord
      /\ n.process = IF x.rec.process = "?"
                     THEN IF x.unconfirmed THEN "running" ELSE "none"
                     ELSE x.rec.process
      /\ n.group = x.rec.group
      /\ n.end # "?"
      /\ n.began => n.drain # "?"
      /\ IF x.rec.end # "?" THEN n.end = x.rec.end
         ELSE (n.end = "stopped" <=> x.how # "panic" /\ x.status = "stopped")
  BY <1>1, FinalizedFacts
<1>5. b \in BOOLEAN /\ (b <=> x.released \/ ~x.unconfirmed)
  BY <1>1
<1>. HIDE DEF n, b
<1>6. y \in Loop
  BY <1>1, <1>4, <1>5 DEF Loop, EndPcs
<1>7. /\ y.pc = "over" /\ y.rec = n /\ y.run = x.run /\ y.mine = x.mine
      /\ y.unconfirmed = x.unconfirmed /\ y.released = b /\ y.status = x.status
      /\ y.fails = x.fails /\ y.asked = x.asked /\ y.stop = x.stop /\ y.how = x.how
      /\ y.ans = x.ans
  BY <1>1 DEF Loop
<1>. HIDE DEF y
<1>8. Knows(x)
  BY DEF Inv
<1>. HIDE DEF x
<1>9. RunKnown(y)
  BY <1>2, <1>5, <1>7, <1>8
     DEF Knows, RunKnown, Serving, Lost, Stopping, Between, Exiting, Trying
<1>10. RecordKnown(y)
  <2>1. x.rec.end \in {"?", "stopped"} /\ (x.rec.end = "stopped" => x.how = "run")
    BY <1>2, <1>8 DEF Knows, RecordKnown, Exiting
  <2>2. x.status = "stopped" => x.how = "run"
    BY <1>8 DEF Knows, StopKnown
  <2>3. x.unconfirmed => x.rec.process # "none" /\ x.rec.group # "gone"
    BY <1>8 DEF Knows, RecordKnown
  <2>4. y.rec.end = "stopped" => y.how = "run"
    BY <1>4, <1>7, <2>1, <2>2
  <2>5. y.status = "stopped" => y.rec.end = "stopped"
    BY <1>4, <1>7, <2>1, <2>2
  <2>6. y.unconfirmed => y.rec.process # "none" /\ y.rec.group # "gone"
    BY <1>4, <1>7, <2>3
  <2>7. y.rec.process # "?" /\ y.rec.end # "?" /\ (y.rec.began => y.rec.drain # "?")
    BY <1>4, <1>7
  <2>. QED
    BY <1>7, <2>4, <2>5, <2>6, <2>7
       DEF RecordKnown, LivePcs, Exiting, Unrecorded, Between, Ending, Stopping
<1>11. StopKnown(y)
  BY <1>2, <1>4, <1>5, <1>7, <1>8 DEF Knows, StopKnown, LivePcs, Exiting
<1>12. Stepped(s) /\ sup'[s] = y
  BY <1>1, <1>3, <1>6, <1>9, <1>10, <1>11, Written DEF Stepped, Knows
<1>13. StaysIn(sup[s].pc, sup'[s].pc)
  BY <1>2, <1>7, <1>12 DEF StaysIn, Installed, Revoked, x
<1>14. CASE ~x.released /\ ~x.unconfirmed
  BY <1>2, <1>5, <1>7, <1>12, <1>13, <1>14, LetGoKeeps DEF x
<1>15. CASE ~(~x.released /\ ~x.unconfirmed)
  <2>1. b = x.released
    BY <1>1, <1>5, <1>15, <1>8 DEF Knows, RunKnown
  <2>2. Quietly(s)
    BY <1>2, <1>7, <1>12, <1>13, <1>15, <2>1 DEF Quietly, SupOnly, Rest, Same, x
  <2>. QED  BY <1>2, <2>2, QuietKeeps
<1>. QED  BY <1>14, <1>15

\* The run gets the slot.
LEMMA InstallKeeps ==
    ASSUME Inv, NEW s \in Sups, Install(s)
    PROVE  Inv' /\ sup[s].run \in Gens /\ OwnerInstalls(sup[s].run)
<1>. DEFINE x == sup[s]
            g == x.run
            y == [x EXCEPT !.pc = "handshake", !.mine = g]
<1>1. x \in Loop /\ sup \in [Sups -> Loop] /\ TypeOK
  BY DEF Inv, TypeOK
<1>2. x.pc = "spawned" /\ slot' = g /\ UNCHANGED <<gen, req>> /\ Rest
  BY DEF Install, At
<1>3. sup' = [sup EXCEPT ![s] = y]
  BY <1>1 DEF Install
<1>4. Knows(x)
  BY DEF Inv
<1>5. g \in Gens
  BY <1>1, <1>2, <1>4 DEF Knows, RunKnown, Serving, Loop
<1>6. y \in Loop
  <2>1. x \in Loop /\ g \in Gens \cup {NoGen}
    BY <1>1, <1>5
  <2>. QED  BY <2>1 DEF Loop, LivePcs
<1>7. /\ y.pc = "handshake" /\ y.rec = x.rec /\ y.run = x.run /\ y.mine = g
      /\ y.unconfirmed = x.unconfirmed /\ y.released = x.released /\ y.status = x.status
      /\ y.fails = x.fails /\ y.asked = x.asked /\ y.stop = x.stop /\ y.how = x.how
      /\ y.ans = x.ans
  BY <1>1 DEF Loop
<1>. HIDE DEF y
<1>8. GenInv /\ SlotInv
  BY DEF Inv
<1>9. gen[g].kind = "process" /\ gen[g].state = "starting"
      /\ \A t \in Sups \ {s} : sup[t].mine # g
  BY <1>2, <1>5, <1>8, GensAssumption DEF GenInv, At
<1>10. slot # g
  BY <1>2, <1>8 DEF SlotInv, At
<1>11. \A t \in Sups \ {s} : sup[t].run = NoGen
  BY <1>5, OneHolder, GensAssumption
<1>12. Replaceable
  <2>1. slot \in Gens
    BY <1>1 DEF TypeOK, GTypeOK
  <2>. QED  BY <1>8, <1>10, <1>11, <2>1, GensAssumption DEF SlotInv
<1>13. OwnerInstalls(g)
  BY <1>2, <1>9, <1>12 DEF OwnerInstalls, CanReady
<1>. HIDE DEF x
<1>14. RunKnown(y)
  BY <1>2, <1>5, <1>7, <1>4, GensAssumption
     DEF Knows, RunKnown, Serving, Lost, Stopping, Between, Exiting, Trying
<1>15. RecordKnown(y)
  BY <1>2, <1>4, <1>7
     DEF Knows, RecordKnown, Blank, LivePcs, Exiting, Unrecorded, Between, Ending, Stopping
<1>16. StopKnown(y)
  BY <1>2, <1>4, <1>7 DEF Knows, StopKnown, LivePcs, Exiting
<1>17. Stepped(s) /\ sup'[s] = y
  BY <1>1, <1>3, <1>6, <1>14, <1>15, <1>16, Written DEF Stepped, Knows
<1>18. (\A t \in Sups : Knows(sup[t]))' /\ HeldInv' /\ ProcInv'
  BY <1>2, <1>7, <1>17, SameHold DEF x
<1>19. TypeOK'
  BY <1>1, <1>2, <1>5, <1>17 DEF TypeOK, GTypeOK, Rest, Stepped
<1>20. \A t \in Sups \ {s} : sup'[t] = sup[t]
  BY <1>17 DEF Stepped
<1>21. GenInv'
  <2>1. \A t \in Sups : sup'[t].mine # NoGen => gen[sup'[t].mine].kind # "none"
    BY <1>7, <1>8, <1>9, <1>17, <1>20 DEF GenInv
  <2>2. ASSUME NEW t \in Sups, sup'[t].run # NoGen
        PROVE  /\ gen[sup'[t].run].kind = "process"
               /\ sup'[t].pc = "spawned" => gen[sup'[t].run].state = "starting"
               /\ sup'[t].pc \in Revoked => gen[sup'[t].run].state = "revoked"
               /\ \A u \in Sups \ {t} : sup'[u].mine # sup'[t].run
    <3>1. t = s /\ sup'[t] = y
      BY <1>11, <1>17, <1>20, <2>2
    <3>. QED  BY <1>7, <1>9, <1>20, <3>1 DEF Revoked, x
  <2>3. \A h \in Gens : gen[h].kind = "process" /\ gen[h].state # "revoked"
           => \E t \in Sups : sup'[t].run = h
    BY <1>7, <1>8, <1>17, <1>20 DEF GenInv, x
  <2>. QED  BY <1>2, <2>1, <2>2, <2>3 DEF GenInv, At
<1>22. SlotInv'
  <2>1. ASSUME NEW t \in Sups \ {s} PROVE sup'[t].pc \notin Installed \cup {"spawned"}
    <3>1. RunKnown(sup[t]) /\ sup[t].run = NoGen
      BY <1>11 DEF Inv, Knows
    <3>2. sup[t].pc \notin Serving
      BY <3>1 DEF RunKnown
    <3>. QED  BY <1>20, <3>2 DEF Serving, Installed
  <2>. QED  BY <1>2, <1>7, <1>17, <2>1 DEF SlotInv, At, x
<1>. QED  BY <1>5, <1>13, <1>18, <1>19, <1>21, <1>22 DEF Inv, x

\* A process and its generation: nobody else has either.
LEMMA SpawnOkKeeps ==
    ASSUME Inv, NEW s \in Sups, SpawnOk(s)
    PROVE  Inv' /\ \E g \in Gens : OwnerSpawns(g)
<1>. DEFINE x == sup[s]
            g == NewGen
            y == [x EXCEPT !.pc = "spawned", !.run = g, !.unconfirmed = TRUE]
<1>1. x \in Loop /\ sup \in [Sups -> Loop] /\ TypeOK
  BY DEF Inv, TypeOK
<1>2. /\ x.pc = "spawning" /\ UNCHANGED <<slot, req, held>>
      /\ gen' = [gen EXCEPT ![g] = Generation("process")]
      /\ proc' = [proc EXCEPT ![g] = [st |-> "up", of |-> s]]
  BY DEF SpawnOk, At
<1>3. sup' = [sup EXCEPT ![s] = y]
  BY <1>1 DEF SpawnOk
<1>4. Knows(x)
  BY DEF Inv
<1>5. g \in Gens /\ FreeGen(g)
  BY NewGenFacts DEF SpawnOk
<1>. HIDE DEF g
<1>6. y \in Loop
  <2>1. x \in Loop /\ g \in Gens \cup {NoGen}
    BY <1>1, <1>5
  <2>. QED  BY <2>1 DEF Loop, LivePcs
<1>7. /\ y.pc = "spawned" /\ y.rec = x.rec /\ y.run = g /\ y.mine = x.mine
      /\ y.unconfirmed = TRUE /\ y.released = x.released /\ y.status = x.status
      /\ y.fails = x.fails /\ y.asked = x.asked /\ y.stop = x.stop /\ y.how = x.how
      /\ y.ans = x.ans
  BY <1>1 DEF Loop
<1>. HIDE DEF y
<1>8. /\ Holds(s) /\ ~x.unconfirmed /\ x.run = NoGen /\ ~x.released
  BY <1>2, <1>4 DEF Knows, RunKnown, Holds, At, Between, Exiting, Serving
<1>9. GenInv /\ SlotInv /\ HeldInv
  BY DEF Inv
<1>10. \A t \in Sups : sup[t].run = NoGen
  BY <1>8, OneHolder
<1>11. \A h \in Gens : ~Alive(h)
  BY <1>8, OnlyGroup
<1>12. \A h \in Gens : gen[h].kind = "process" => gen[h].state = "revoked"
  BY <1>9, <1>10, GensAssumption DEF GenInv
<1>13. OwnerSpawns(g)
  BY <1>2, <1>5, <1>12 DEF OwnerSpawns, FreeGen
<1>. HIDE DEF x
<1>14. RunKnown(y)
  BY <1>2, <1>4, <1>5, <1>7, <1>8, GensAssumption
     DEF Knows, RunKnown, Serving, Lost, Stopping, Between, Exiting, Trying
<1>15. RecordKnown(y)
  BY <1>2, <1>4, <1>7
     DEF Knows, RecordKnown, Blank, LivePcs, Exiting, Unrecorded, Between, Ending, Stopping
<1>16. StopKnown(y)
  BY <1>2, <1>4, <1>7 DEF Knows, StopKnown, LivePcs, Exiting
<1>17. Stepped(s) /\ sup'[s] = y
  BY <1>1, <1>3, <1>6, <1>14, <1>15, <1>16, Written DEF Stepped, Knows
<1>18. \A t \in Sups \ {s} : sup'[t] = sup[t]
  BY <1>17 DEF Stepped
<1>19. \A t \in Sups : Holds(t)' <=> Holds(t)
  BY <1>2, <1>7, <1>17, <1>18 DEF Holds, At, x
<1>20. HeldInv'
  BY <1>2, <1>9, <1>19 DEF HeldInv
<1>21. proc \in [Gens -> [st : {"none", "up", "leaderless"}, of : Sups \cup {NoGen}]]
  BY <1>1 DEF TypeOK
<1>22. ProcInv'
  <2>1. proc'[g].of = s /\ \A h \in Gens \ {g} : ~Alive(h)'
    BY <1>2, <1>5, <1>11, <1>21 DEF Alive
  <2>2. Holds(s)' /\ sup'[s].unconfirmed /\ sup'[s].run = g
    BY <1>7, <1>8, <1>17, <1>19
  <2>. QED  BY <2>1, <2>2 DEF ProcInv
<1>23. /\ GTypeOK'
       /\ gen'[g].kind = "process" /\ gen'[g].state = "starting"
       /\ \A h \in Gens \ {g} : gen'[h] = gen[h]
  <2>1. slot' \in Gens /\ GTypeOK
    BY <1>1, <1>2 DEF TypeOK, GTypeOK
  <2>. QED  BY <1>2, <1>5, <2>1, FreshFacts DEF Kinds
<1>24. TypeOK'
  <2>1. proc' \in [Gens -> [st : {"none", "up", "leaderless"}, of : Sups \cup {NoGen}]]
    BY <1>2, <1>21
  <2>. QED  BY <1>1, <1>2, <1>17, <1>23, <2>1 DEF TypeOK, Stepped
<1>25. \A t \in Sups : sup'[t].mine = sup[t].mine
  BY <1>7, <1>17, <1>18 DEF x
<1>26. \A t \in Sups : sup[t].mine # g /\ sup[t].mine \in Gens \cup {NoGen}
  BY <1>1, <1>5 DEF FreeGen, TypeOK, Loop
<1>27. GenInv'
  <2>1. \A t \in Sups : sup[t].mine # NoGen => gen'[sup[t].mine].kind # "none"
    BY <1>9, <1>23, <1>26 DEF GenInv
  <2>2. ASSUME NEW t \in Sups, sup'[t].run # NoGen PROVE t = s /\ sup'[t] = y
    BY <1>10, <1>17, <1>18, <2>2
  <2>3. ASSUME NEW h \in Gens, gen'[h].kind = "process", gen'[h].state # "revoked"
        PROVE  h = g
    BY <1>12, <1>23, <2>3
  <2>. QED  BY <1>7, <1>17, <1>23, <1>25, <1>26, <2>1, <2>2, <2>3 DEF GenInv, At, Revoked
<1>28. SlotInv'
  <2>1. slot \in Gens /\ slot # g
    BY <1>1, <1>5 DEF FreeGen, Free, TypeOK, GTypeOK
  <2>2. Replaceable'
    BY <1>2, <1>9, <1>10, <1>23, <2>1, GensAssumption DEF SlotInv, Replaceable
  <2>3. ASSUME NEW t \in Sups \ {s} PROVE sup'[t].pc \notin Installed \cup {"spawned"}
    <3>1. RunKnown(sup[t]) /\ sup[t].run = NoGen
      BY <1>10 DEF Inv, Knows
    <3>2. sup[t].pc \notin Serving
      BY <3>1 DEF RunKnown
    <3>. QED  BY <1>18, <3>2 DEF Serving, Installed
  <2>. QED  BY <1>2, <1>7, <1>17, <2>1, <2>2, <2>3 DEF SlotInv, At, Installed
<1>29. (\A t \in Sups : Knows(sup[t]))'
  BY <1>17 DEF Inv, Stepped
<1>. QED  BY <1>5, <1>13, <1>20, <1>22, <1>24, <1>27, <1>28, <1>29 DEF Inv

\* A placeholder put in the slot by a supervisor without a run, while nobody else holds it.
LEMMA PlaceholderKeeps ==
    ASSUME Inv, NEW s \in Sups, Stepped(s), NEW g \in Gens, FreeGen(g),
           \A t \in Sups \ {s} : ~Holds(t),
           sup[s].run = NoGen, ~sup[s].unconfirmed,
           sup'[s].run = NoGen, sup'[s].mine = g, ~sup'[s].released,
           sup'[s].pc \notin {"none", "spawned"} \cup Installed \cup Revoked,
           slot' = g, gen' = [gen EXCEPT ![g] = Generation("placeholder")],
           UNCHANGED <<req, proc>>, held' = TRUE
    PROVE  Inv' /\ OwnerInstallsPlaceholder(g)
<1>1. \A t \in Sups : sup[t].run = NoGen
  BY OneHolder
<1>2. TypeOK /\ slot \in Gens /\ GenInv /\ SlotInv
  BY DEF Inv, TypeOK, GTypeOK
<1>3. OwnerInstallsPlaceholder(g)
  BY <1>1, <1>2, GensAssumption DEF SlotInv, OwnerInstallsPlaceholder, FreeGen
<1>4. /\ GTypeOK'
      /\ gen'[g].kind = "placeholder" /\ gen'[g].state = "starting"
      /\ \A h \in Gens \ {g} : gen'[h] = gen[h]
  BY <1>2, FreshFacts DEF Kinds, TypeOK
<1>5. TypeOK'
  BY <1>2, <1>4 DEF TypeOK, Stepped
<1>6. \A h \in Gens : ~Alive(h)
  BY DEF Inv, ProcInv
<1>7. ProcInv'
  BY <1>6 DEF ProcInv, Alive
<1>8. \A t \in Sups \ {s} : sup'[t] = sup[t]
  BY DEF Stepped
<1>9. Holds(s)' /\ \A t \in Sups \ {s} : ~Holds(t)'
  BY <1>8 DEF Holds, At
<1>10. HeldInv'
  BY <1>9 DEF HeldInv
<1>11. \A t \in Sups : sup'[t].run = NoGen
  BY <1>1, <1>8
<1>12. GenInv'
  <2>1. ASSUME NEW t \in Sups, sup'[t].mine # NoGen PROVE gen'[sup'[t].mine].kind # "none"
    <3>1. CASE t = s
      BY <1>4, <3>1
    <3>2. CASE t # s
      <4>1. sup[t].mine \in Gens \ {g} /\ sup'[t].mine = sup[t].mine
        BY <1>2, <1>8, <2>1, <3>2 DEF FreeGen, TypeOK, Loop
      <4>. QED  BY <1>2, <1>4, <2>1, <4>1 DEF GenInv
    <3>. QED  BY <3>1, <3>2
  <2>2. ASSUME NEW h \in Gens, gen'[h].kind = "process", gen'[h].state # "revoked" PROVE FALSE
    <3>1. h # g /\ gen[h].kind = "process" /\ gen[h].state # "revoked"
      BY <1>4, <2>2
    <3>. QED  BY <1>1, <1>2, <3>1, GensAssumption DEF GenInv
  <2>. QED  BY <1>11, <2>1, <2>2 DEF GenInv
<1>13. SlotInv'
  <2>1. ASSUME NEW t \in Sups PROVE sup'[t].pc \notin Installed \cup {"spawned"}
    <3>1. CASE t = s
      BY <3>1
    <3>2. CASE t # s
      <4>1. RunKnown(sup[t]) /\ sup[t].run = NoGen
        BY <1>1 DEF Inv, Knows
      <4>2. sup[t].pc \notin Serving
        BY <4>1 DEF RunKnown
      <4>. QED  BY <1>8, <3>2, <4>2 DEF Serving, Installed
    <3>. QED  BY <3>1, <3>2
  <2>2. Replaceable'
    BY <1>4 DEF Replaceable
  <2>. QED  BY <2>1, <2>2 DEF SlotInv, At
<1>14. (\A t \in Sups : Knows(sup[t]))'
  BY DEF Inv, Stepped
<1>. QED  BY <1>3, <1>5, <1>7, <1>10, <1>12, <1>13, <1>14 DEF Inv

LEMMA SuperviseKeeps ==
    ASSUME Inv, NEW s \in Sups, Supervise(s)
    PROVE  Inv' /\ \E g \in Gens : OwnerInstallsPlaceholder(g)
<1>. DEFINE x == sup[s]
            g == NewGen
            y == [x EXCEPT !.pc = "fresh", !.status = "starting", !.mine = g, !.handle = "held"]
<1>1. x \in Loop /\ sup \in [Sups -> Loop] /\ TypeOK
  BY DEF Inv, TypeOK
<1>2. /\ x.pc = "none" /\ ~held /\ UNCHANGED <<req, proc>> /\ held' = TRUE
      /\ slot' = g /\ gen' = [gen EXCEPT ![g] = Generation("placeholder")]
  BY DEF Supervise, At
<1>3. sup' = [sup EXCEPT ![s] = y]
  BY <1>1 DEF Supervise
<1>4. Knows(x)
  BY DEF Inv
<1>5. g \in Gens /\ FreeGen(g)
  BY NewGenFacts DEF Supervise
<1>. HIDE DEF g
<1>6. y \in Loop
  <2>1. x \in Loop /\ g \in Gens \cup {NoGen}
    BY <1>1, <1>5
  <2>2. "fresh" \in {"none"} \cup LivePcs \cup EndPcs /\ "starting" \in Statuses
    BY DEF LivePcs, Statuses
  <2>. QED  BY <2>1, <2>2 DEF Loop
<1>7. /\ y.pc = "fresh" /\ y.rec = x.rec /\ y.run = x.run /\ y.mine = g
      /\ y.unconfirmed = x.unconfirmed /\ y.released = x.released /\ y.status = "starting"
      /\ y.fails = x.fails /\ y.asked = x.asked /\ y.stop = x.stop /\ y.how = x.how
      /\ y.ans = x.ans
  BY <1>1 DEF Loop
<1>. HIDE DEF y
<1>8. ~x.unconfirmed /\ x.run = NoGen /\ ~x.released
  BY <1>2, <1>4 DEF Knows, RunKnown, Between, Exiting, Serving
<1>9. \A t \in Sups : ~Holds(t)
  BY <1>2 DEF Inv, HeldInv
<1>. HIDE DEF x
<1>10. RunKnown(y)
  BY <1>2, <1>4, <1>5, <1>7, <1>8, GensAssumption
     DEF Knows, RunKnown, Serving, Lost, Stopping, Between, Exiting, Trying
<1>11. RecordKnown(y)
  BY <1>2, <1>4, <1>7
     DEF Knows, RecordKnown, StopKnown, Blank, LivePcs, Exiting, Unrecorded, Between, Ending,
         Stopping
<1>12. StopKnown(y)
  BY <1>2, <1>4, <1>7 DEF Knows, StopKnown, LivePcs, Exiting
<1>13. Stepped(s) /\ sup'[s] = y
  BY <1>1, <1>3, <1>6, <1>10, <1>11, <1>12, Written DEF Stepped, Knows
<1>14. sup'[s].pc \notin {"none", "spawned"} \cup Installed \cup Revoked
  BY <1>7, <1>13 DEF Installed, Revoked
<1>15. Inv' /\ OwnerInstallsPlaceholder(g)
  BY <1>2, <1>5, <1>7, <1>8, <1>9, <1>13, <1>14, PlaceholderKeeps DEF x
<1>. QED  BY <1>5, <1>15

\* RestartPolicy: the breaker trips at its threshold, and the backoff gets a placeholder.
LEMMA DecideKeeps ==
    ASSUME Inv, NEW s \in Sups, Decide(s)
    PROVE  /\ Inv'
           /\ UNCHANGED gvars \/ \E g \in Gens : OwnerInstallsPlaceholder(g)
<1>. DEFINE x == sup[s]
            f == Fails(s)
            g == NewGen
<1>1. x \in Loop /\ sup \in [Sups -> Loop] /\ TypeOK
  BY DEF Inv, TypeOK
<1>2. x.pc = "decide" /\ Rest
  BY DEF Decide, At
<1>3. Knows(x)
  BY DEF Inv
<1>4. f \in 0..Threshold /\ (~Trips(s) => f < Threshold)
  <2>1. x.fails \in 0..Threshold /\ x.fails < Threshold
    BY <1>1, <1>2, <1>3 DEF Loop, Knows, RunKnown, Trying, Between
  <2>2. Threshold \in Nat \ {0}
    BY SupAssumption
  <2>3. f \in Nat /\ f <= Threshold
    BY <2>1, <2>2 DEF Fails
  <2>. QED  BY <2>2, <2>3 DEF Trips
<1>5. ~x.unconfirmed /\ x.run = NoGen /\ ~x.released /\ Holds(s)
  BY <1>2, <1>3 DEF Knows, RunKnown, Between, Exiting, Serving, Holds, At
<1>. HIDE DEF f
<1>6. CASE Trips(s)
  <2>. DEFINE y == [x EXCEPT !.pc = "retire_gaveup", !.fails = f, !.fine = FALSE]
  <2>1. sup' = [sup EXCEPT ![s] = y] /\ UNCHANGED gvars
    BY <1>1, <1>6 DEF Decide, f
  <2>2. y \in Loop
    BY <1>1, <1>4 DEF Loop, LivePcs
  <2>3. /\ y.pc = "retire_gaveup" /\ y.rec = x.rec /\ Same(x, y) /\ y.status = x.status
        /\ y.asked = x.asked /\ y.stop = x.stop /\ y.how = x.how /\ y.ans = x.ans
    BY <1>1 DEF Loop, Same
  <2>. HIDE DEF y, x
  <2>4. RunKnown(y)
    BY <1>2, <1>3, <2>3
       DEF Knows, Same, RunKnown, Serving, Lost, Stopping, Between, Exiting, Trying
  <2>5. RecordKnown(y)
    BY <1>2, <1>3, <2>3
       DEF Knows, Same, RecordKnown, Blank, LivePcs, Exiting, Unrecorded, Between, Ending,
           Stopping
  <2>6. StopKnown(y)
    BY <1>2, <1>3, <2>3 DEF Knows, Same, StopKnown, LivePcs, Exiting
  <2>7. Stepped(s) /\ sup'[s] = y
    BY <1>1, <2>1, <2>2, <2>4, <2>5, <2>6, Written DEF Stepped, Knows
  <2>8. Quietly(s)
    BY <1>2, <2>1, <2>3, <2>7 DEF Quietly, SupOnly, StaysIn, Installed, Revoked, x
  <2>. QED  BY <2>1, <2>8, QuietKeeps
<1>7. CASE ~Trips(s)
  <2>1. g \in Gens /\ FreeGen(g)
    BY <1>7, NewGenFacts DEF Decide
  <2>2. /\ slot' = g /\ gen' = [gen EXCEPT ![g] = Generation("placeholder")] /\ UNCHANGED req
        /\ sup' = [sup EXCEPT ![s].pc = "publish_backoff", ![s].fails = f,
                              ![s].fine = FALSE, ![s].mine = g]
    BY <1>7 DEF Decide, f
  <2>. HIDE DEF g
  <2>. DEFINE y == [x EXCEPT !.pc = "publish_backoff", !.fails = f, !.fine = FALSE, !.mine = g]
  <2>3. sup' = [sup EXCEPT ![s] = y]
    BY <1>1, <2>2
  <2>4. y \in Loop
    <3>1. x \in Loop /\ g \in Gens \cup {NoGen} /\ f \in 0..Threshold
      BY <1>1, <1>4, <2>1
    <3>. QED  BY <3>1 DEF Loop, LivePcs
  <2>5. /\ y.pc = "publish_backoff" /\ y.rec = x.rec /\ y.run = x.run /\ y.mine = g
        /\ y.unconfirmed = x.unconfirmed /\ y.released = x.released /\ y.status = x.status
        /\ y.fails = f /\ y.asked = x.asked /\ y.stop = x.stop /\ y.how = x.how
        /\ y.ans = x.ans
    BY <1>1 DEF Loop
  <2>. HIDE DEF y
  <2>6. \A t \in Sups \ {s} : ~Holds(t)
    BY <1>5 DEF Inv, HeldInv
  <2>7. held' = TRUE /\ UNCHANGED proc
    BY <1>1, <1>2, <1>5 DEF Inv, HeldInv, Rest, TypeOK
  <2>. HIDE DEF x
  <2>8. RunKnown(y)
    BY <1>2, <1>3, <1>4, <1>5, <1>7, <2>1, <2>5, GensAssumption
       DEF Knows, RunKnown, Serving, Lost, Stopping, Between, Exiting, Trying
  <2>9. RecordKnown(y)
    BY <1>2, <1>3, <2>5
       DEF Knows, RecordKnown, StopKnown, Blank, LivePcs, Exiting, Unrecorded, Between, Ending,
           Stopping
  <2>10. StopKnown(y)
    BY <1>2, <1>3, <2>5 DEF Knows, StopKnown, LivePcs, Exiting
  <2>11. Stepped(s) /\ sup'[s] = y
    BY <1>1, <2>3, <2>4, <2>8, <2>9, <2>10, Written DEF Stepped, Knows
  <2>12. sup'[s].pc \notin {"none", "spawned"} \cup Installed \cup Revoked
    BY <2>5, <2>11 DEF Installed, Revoked
  <2>13. Inv' /\ OwnerInstallsPlaceholder(g)
    BY <1>5, <2>1, <2>2, <2>5, <2>6, <2>7, <2>11, <2>12, PlaceholderKeeps DEF x
  <2>. QED  BY <2>1, <2>13
<1>. QED  BY <1>6, <1>7

\* Every step that touches nothing but its supervisor.
LEMMA QuietSteps ==
    ASSUME Inv, NEW s \in Sups,
           \/ Top(s) \/ OpenSockets(s) \/ SpawnStopped(s) \/ SpawnFails(s) \/ SpawnedStopped(s)
           \/ HandshakeStopped(s) \/ HandshakeFails(s) \/ HandshakeOk(s) \/ AdmitStopping(s)
           \/ PublishRunning(s) \/ ServeEnds(s) \/ ServeStopped(s) \/ DrainEnds(s)
           \/ PublishStopping(s) \/ Settle(s) \/ PublishFailed(s) \/ FailedStopped(s)
           \/ PublishGaveUp(s) \/ PublishBackoff(s) \/ WaitingStopped(s) \/ BackoffEnds(s)
           \/ CheckPackage(s) \/ PublishStopped(s) \/ ExitPublish(s) \/ AbortTakes(s)
           \/ Panic(s) \/ AskStop(s) \/ Abandon(s) \/ DropHandle(s) \/ Join(s)
    PROVE  Inv' /\ UNCHANGED gvars
<1>0. TypeOK /\ Knows(sup[s])
  BY DEF Inv
<1>1. CASE \/ Top(s) \/ OpenSockets(s) \/ SpawnFails(s) \/ HandshakeOk(s) \/ PublishRunning(s)
           \/ PublishStopping(s) \/ Settle(s) \/ PublishFailed(s) \/ PublishGaveUp(s)
           \/ PublishBackoff(s) \/ BackoffEnds(s) \/ CheckPackage(s) \/ PublishStopped(s)
           \/ ExitPublish(s)
  <2>1. Moved(s) /\ sup[s].pc # "revoke" /\ SupOnly
    BY <1>0, <1>1, QuietMoves
  <2>2. StaysIn(sup[s].pc, sup'[s].pc)
    BY <2>1 DEF Moved, MayMove, StaysIn, Installed, Revoked
  <2>. QED  BY <2>1, <2>2, QuietKeeps DEF Quietly, Moved, SupOnly
<1>2. CASE DrainEnds(s)
  <2>1. PICK why \in {"idle", "deadline", "callback", "exited"} :
           sup' = [sup EXCEPT ![s].pc = "revoke", ![s].rec = Once(@, "drain", why)]
    BY <1>2 DEF DrainEnds
  <2>2. At(s, "draining") /\ SupOnly
    BY <1>2 DEF DrainEnds
  <2>3. Stepped(s) /\ Same(sup[s], sup'[s]) /\ StaysIn(sup[s].pc, sup'[s].pc)
    BY <1>0, <2>1, <2>2, DrainStops
  <2>. QED  BY <2>2, <2>3, QuietKeeps DEF Quietly, SupOnly
<1>3. CASE \/ SpawnStopped(s) \/ WaitingStopped(s) \/ SpawnedStopped(s) \/ HandshakeStopped(s)
           \/ AdmitStopping(s) \/ HandshakeFails(s) \/ ServeEnds(s) \/ ServeStopped(s)
           \/ FailedStopped(s) \/ AbortTakes(s) \/ Panic(s)
           \/ AskStop(s) \/ Abandon(s) \/ DropHandle(s) \/ Join(s)
  <2>1. Quietly(s)
    BY <1>0, <1>3, StoppedWithoutProcess, StoppedBeforeServing, RunEnds, StoppedServing,
       StoppedUnconfirmed, TaskEnds, HandleSteps
  <2>. QED  BY <2>1, QuietKeeps DEF Quietly, SupOnly
<1>. QED  BY <1>1, <1>2, <1>3

\* A process that exits by itself: fewer groups, and no supervisor noticed.
LEMMA ProcessSteps ==
    ASSUME Inv, NEW g \in Gens, LeaderExits(g) \/ HelpersExit(g)
    PROVE  Inv' /\ UNCHANGED gvars
<1>. DEFINE P == [st : {"none", "up", "leaderless"}, of : Sups \cup {NoGen}]
<1>1. proc \in [Gens -> P] /\ TypeOK /\ Alive(g)
  BY DEF Inv, TypeOK, LeaderExits, HelpersExit, Alive
<1>2. NoProcess \in P /\ [proc[g] EXCEPT !.st = "leaderless"] \in P
  BY <1>1 DEF NoProcess
<1>3. UNCHANGED gvars /\ UNCHANGED <<held, sup>>
  BY DEF LeaderExits, HelpersExit
<1>4. PICK p \in P : proc' = [proc EXCEPT ![g] = p]
                     /\ (p.st # "none" => p.of = proc[g].of)
  <2>1. [proc[g] EXCEPT !.st = "leaderless"].of = proc[g].of /\ NoProcess.st = "none"
    BY <1>1 DEF NoProcess
  <2>. HIDE DEF P
  <2>. QED  BY <1>2, <2>1 DEF LeaderExits, HelpersExit
<1>5. proc' \in [Gens -> P]
  BY <1>1, <1>4
<1>6. \A h \in Gens : Alive(h)' => Alive(h) /\ proc'[h].of = proc[h].of
  BY <1>1, <1>4 DEF Alive
<1>7. \A t \in Sups : Holds(t)' <=> Holds(t)
  BY <1>3 DEF Holds, At
<1>8. ProcInv'
  BY <1>3, <1>6, <1>7 DEF Inv, ProcInv
<1>9. HeldInv'
  BY <1>3, <1>7 DEF Inv, HeldInv
<1>10. TypeOK'
  BY <1>1, <1>3, <1>5 DEF TypeOK, GTypeOK, gvars
<1>11. (\A t \in Sups : Knows(sup[t]))'
  BY <1>3 DEF Inv
<1>12. GenInv' /\ SlotInv'
  BY <1>3, SameGens DEF StaysIn
<1>. QED  BY <1>3, <1>8, <1>9, <1>10, <1>11, <1>12 DEF Inv

\* The proxy: whatever a request does, a generation keeps its kind and its state.
LEMMA ProxyFacts ==
    ASSUME GTypeOK, ProxyStep
    PROVE  /\ GTypeOK' /\ UNCHANGED slot
           /\ \A h \in Gens : gen'[h].kind = gen[h].kind /\ gen'[h].state = gen[h].state
<1>. DEFINE G == [kind : Kinds, state : States, inFlight : SUBSET Reqs,
                  dispatched : SUBSET Reqs, used : SUBSET Reqs]
            R == [pc : {"new", "got", "flying", "sent", "done"},
                  gen : Gens \cup {NoGen}, ans : Answers,
                  listed : {"no", "abandoned", "never_sent"},
                  result : {"none", "ok", "error"}, left : BOOLEAN]
            GenKept == /\ gen' \in [Gens -> G]
                       /\ \A h \in Gens : /\ gen'[h].kind = gen[h].kind
                                          /\ gen'[h].state = gen[h].state
            ReqKept == req' \in [Reqs -> R]
<1>1. gen \in [Gens -> G] /\ req \in [Reqs -> R] /\ slot \in Gens
  BY DEF GTypeOK
<1>2. PICK r \in Reqs :
        \/ ProxyGet(r) \/ ProxyRefused(r) \/ ProxyAdmit(r) \/ ProxyDispatch(r)
        \/ ProxyResult(r) \/ ProxyFinish(r) \/ ProxyDrop(r) \/ ApprovalCallback(r)
  BY DEF ProxyStep
<1>. DEFINE g == req[r].gen
<1>3. req[r] \in R /\ \A q \in R : [req EXCEPT ![r] = q] \in [Reqs -> R]
  BY <1>1
\* Every change of a generation is a change of its sets.
<1>4. ASSUME NEW a, NEW b, NEW u,
             g \in Gens => a \in SUBSET Reqs /\ b \in SUBSET Reqs /\ u \in SUBSET Reqs,
             gen' = [gen EXCEPT ![g] = [gen[g] EXCEPT !.inFlight = a, !.dispatched = b,
                                                       !.used = u]]
      PROVE  GenKept
  <2>. DEFINE d == [gen[g] EXCEPT !.inFlight = a, !.dispatched = b, !.used = u]
  <2>1. ASSUME g \in Gens PROVE d \in G /\ d.kind = gen[g].kind /\ d.state = gen[g].state
    <3>1. gen[g] \in G
      BY <1>1, <2>1
    <3>2. a \in SUBSET Reqs /\ b \in SUBSET Reqs /\ u \in SUBSET Reqs
      BY <1>4, <2>1
    <3>3. d.kind = gen[g].kind /\ d.state = gen[g].state
      BY <3>1
    <3>. HIDE DEF g
    <3>4. d \in G
      BY <3>1, <3>2
    <3>. QED  BY <3>3, <3>4
  <2>2. gen' = [gen EXCEPT ![g] = d]
    BY <1>4
  <2>. HIDE DEF d
  <2>. QED  BY <1>1, <2>1, <2>2
<1>5. g \in Gens => /\ gen[g] \in G /\ gen[g].inFlight \in SUBSET Reqs
                    /\ gen[g].dispatched \in SUBSET Reqs /\ gen[g].used \in SUBSET Reqs
  BY <1>1
<1>6. UNCHANGED gen => GenKept
  BY <1>1
<1>7. UNCHANGED req => ReqKept
  BY <1>1
<1>. SUFFICES GenKept /\ ReqKept /\ UNCHANGED slot
  BY <1>1 DEF GTypeOK
<1>8. CASE ProxyGet(r)
  <2>. DEFINE q == [req[r] EXCEPT !.pc = "got", !.gen = slot]
  <2>1. q \in R
    BY <1>1, <1>3
  <2>2. req' = [req EXCEPT ![r] = q]
    BY <1>1, <1>8 DEF ProxyGet
  <2>3. ReqKept
    BY <1>3, <2>1, <2>2
  <2>. HIDE DEF q, R, G
  <2>. QED  BY <1>6, <1>8, <2>3 DEF ProxyGet
<1>9. CASE ProxyRefused(r)
  <2>. DEFINE q == [req[r] EXCEPT !.pc = "done", !.ans = Refusal(g)]
  <2>1. q \in R
    BY <1>3 DEF Answers, Refusal
  <2>2. req' = [req EXCEPT ![r] = q]
    BY <1>1, <1>9 DEF ProxyRefused
  <2>3. ReqKept
    BY <1>3, <2>1, <2>2
  <2>. HIDE DEF q, R, G
  <2>. QED  BY <1>6, <1>9, <2>3 DEF ProxyRefused
<1>10. CASE ProxyResult(r)
  <2>1. PICK v \in {"ok", "error"} : req' = [req EXCEPT ![r].result = v]
    BY <1>10 DEF ProxyResult
  <2>. DEFINE q == [req[r] EXCEPT !.result = v]
  <2>2. q \in R
    BY <1>3
  <2>3. req' = [req EXCEPT ![r] = q]
    BY <2>1
  <2>4. ReqKept
    BY <1>3, <2>2, <2>3
  <2>. HIDE DEF q, R, G
  <2>. QED  BY <1>6, <1>10, <2>4 DEF ProxyResult
<1>11. CASE ProxyAdmit(r)
  <2>. DEFINE q == [req[r] EXCEPT !.pc = "flying"]
              a == gen[g].inFlight \cup {r}
  <2>1. q \in R
    BY <1>3
  <2>2. req' = [req EXCEPT ![r] = q]
    BY <1>1, <1>11 DEF ProxyAdmit
  <2>3. ReqKept
    BY <1>3, <2>1, <2>2
  <2>4. gen' = [gen EXCEPT ![g].inFlight = a]
    BY <1>11 DEF ProxyAdmit
  <2>5. g \in Gens => a \in SUBSET Reqs
    BY <1>5
  <2>. HIDE DEF a
  <2>6. g \in Gens => [gen[g] EXCEPT !.inFlight = a]
                      = [gen[g] EXCEPT !.inFlight = a, !.dispatched = gen[g].dispatched,
                                       !.used = gen[g].used]
    BY <1>5
  <2>7. gen' = [gen EXCEPT ![g] = [gen[g] EXCEPT !.inFlight = a,
                                                 !.dispatched = gen[g].dispatched,
                                                 !.used = gen[g].used]]
    BY <1>1, <2>4, <2>6
  <2>8. GenKept
    BY <1>4, <1>5, <2>5, <2>7
  <2>. HIDE DEF q, R, G
  <2>. QED  BY <1>11, <2>3, <2>8 DEF ProxyAdmit
<1>12. CASE ProxyDispatch(r)
  <2>. DEFINE q == [req[r] EXCEPT !.pc = "sent", !.left = TRUE]
              b == gen[g].dispatched \cup {r}
  <2>1. q \in R
    BY <1>3
  <2>2. req' = [req EXCEPT ![r] = q]
    BY <1>1, <1>12 DEF ProxyDispatch
  <2>3. ReqKept
    BY <1>3, <2>1, <2>2
  <2>4. gen' = [gen EXCEPT ![g].dispatched = b]
    BY <1>12 DEF ProxyDispatch
  <2>5. g \in Gens => b \in SUBSET Reqs
    BY <1>5
  <2>. HIDE DEF b
  <2>6. g \in Gens => [gen[g] EXCEPT !.dispatched = b]
                      = [gen[g] EXCEPT !.inFlight = gen[g].inFlight, !.dispatched = b,
                                       !.used = gen[g].used]
    BY <1>5
  <2>7. gen' = [gen EXCEPT ![g] = [gen[g] EXCEPT !.inFlight = gen[g].inFlight,
                                                 !.dispatched = b,
                                                 !.used = gen[g].used]]
    BY <1>1, <2>4, <2>6
  <2>8. GenKept
    BY <1>4, <1>5, <2>5, <2>7
  <2>. HIDE DEF q, R, G
  <2>. QED  BY <1>12, <2>3, <2>8 DEF ProxyDispatch
<1>13. ASSUME gen' = Removed(r) PROVE GenKept
  <2>. DEFINE a == gen[g].inFlight \ {r}
              b == gen[g].dispatched \ {r}
  <2>1. gen' = [gen EXCEPT ![g].inFlight = a, ![g].dispatched = b]
    BY <1>1, <1>13 DEF Removed
  <2>2. g \in Gens => a \in SUBSET Reqs /\ b \in SUBSET Reqs
    BY <1>5
  <2>. HIDE DEF a, b
  <2>3. g \in Gens => [gen[g] EXCEPT !.inFlight = a, !.dispatched = b]
                      = [gen[g] EXCEPT !.inFlight = a, !.dispatched = b,
                                       !.used = gen[g].used]
    BY <1>5
  <2>4. gen' = [gen EXCEPT ![g] = [gen[g] EXCEPT !.inFlight = a, !.dispatched = b,
                                                 !.used = gen[g].used]]
    BY <1>1, <2>1, <2>3
  <2>. QED  BY <1>4, <1>5, <2>2, <2>4
<1>14. CASE ProxyFinish(r)
  <2>. DEFINE q == [req[r] EXCEPT !.pc = "done", !.ans = Outcome(r, req[r].result)]
  <2>1. q \in R
    BY <1>3 DEF Answers, Outcome
  <2>2. req' = [req EXCEPT ![r] = q]
    BY <1>1, <1>14 DEF ProxyFinish
  <2>3. ReqKept
    BY <1>3, <2>1, <2>2
  <2>. HIDE DEF q, R, G
  <2>. QED  BY <1>13, <1>14, <2>3 DEF ProxyFinish
<1>15. CASE ProxyDrop(r)
  <2>. DEFINE q == [req[r] EXCEPT !.pc = "done"]
  <2>1. q \in R
    BY <1>3
  <2>2. req' = [req EXCEPT ![r] = q]
    BY <1>1, <1>15 DEF ProxyDrop
  <2>3. ReqKept
    BY <1>3, <2>1, <2>2
  <2>. HIDE DEF q, R, G
  <2>. QED  BY <1>13, <1>15, <2>3 DEF ProxyDrop
<1>16. CASE ApprovalCallback(r)
  <2>. DEFINE u == gen[g].used \cup {r}
  <2>1. gen' = [gen EXCEPT ![g].used = u]
    BY <1>16 DEF ApprovalCallback
  <2>2. g \in Gens => u \in SUBSET Reqs
    BY <1>5
  <2>. HIDE DEF u
  <2>3. g \in Gens => [gen[g] EXCEPT !.used = u]
                      = [gen[g] EXCEPT !.inFlight = gen[g].inFlight,
                                       !.dispatched = gen[g].dispatched, !.used = u]
    BY <1>5
  <2>4. gen' = [gen EXCEPT ![g] = [gen[g] EXCEPT !.inFlight = gen[g].inFlight,
                                                 !.dispatched = gen[g].dispatched,
                                                 !.used = u]]
    BY <1>1, <2>1, <2>3
  <2>5. GenKept
    BY <1>4, <1>5, <2>2, <2>4
  <2>. HIDE DEF R, G
  <2>. QED  BY <1>7, <1>16, <2>5 DEF ApprovalCallback
<1>. QED  BY <1>2, <1>8, <1>9, <1>10, <1>11, <1>12, <1>14, <1>15, <1>16

LEMMA ProxyKeeps ==
    ASSUME Inv, ProxyStep, UNCHANGED svars
    PROVE  Inv'
<1>1. /\ GTypeOK' /\ slot' = slot
      /\ \A h \in Gens : gen'[h].kind = gen[h].kind /\ gen'[h].state = gen[h].state
  BY ProxyFacts DEF Inv, TypeOK
<1>2. held' = held /\ proc' = proc /\ sup' = sup
  BY DEF svars
<1>3. TypeOK'
  BY <1>1, <1>2 DEF Inv, TypeOK
<1>4. HeldInv' /\ ProcInv' /\ (\A t \in Sups : Knows(sup[t]))'
  BY <1>2 DEF Inv, HeldInv, ProcInv, Holds, At, Alive
<1>5. \A t \in Sups : sup[t].mine \in Gens \cup {NoGen} /\ sup[t].run \in Gens \cup {NoGen}
  BY DEF Inv, TypeOK, Loop
<1>6. GenInv'
  BY <1>1, <1>2, <1>5 DEF Inv, GenInv, At
<1>7. SlotInv'
  <2>1. slot \in Gens
    BY DEF Inv, TypeOK, GTypeOK
  <2>. QED  BY <1>1, <1>2, <2>1 DEF Inv, SlotInv, Replaceable, At
<1>. QED  BY <1>3, <1>4, <1>6, <1>7 DEF Inv

-----------------------------------------------------------------------------
(* The theorems.                                                           *)

LEMMA InitInv == Init => Inv
<1>. SUFFICES ASSUME Init PROVE Inv
  OBVIOUS
<1>1. sup = [s \in Sups |-> Unclaimed] /\ held = FALSE /\ proc = [g \in Gens |-> NoProcess]
  BY DEF Init
<1>2. slot \in Gens
  BY FirstGen DEF Init, GInit
<1>3. \A g \in Gens : gen[g] = Generation(IF g = slot THEN "placeholder" ELSE "none")
  BY DEF Init, GInit
<1>4. GTypeOK
  <2>1. \A k \in Kinds : Generation(k) \in
          [kind : Kinds, state : States, inFlight : SUBSET Reqs,
           dispatched : SUBSET Reqs, used : SUBSET Reqs]
    BY DEF Generation, States
  <2>2. NewReq \in [pc : {"new", "got", "flying", "sent", "done"},
                    gen : Gens \cup {NoGen}, ans : Answers,
                    listed : {"no", "abandoned", "never_sent"},
                    result : {"none", "ok", "error"}, left : BOOLEAN]
    BY DEF NewReq, Answers
  <2>3. gen = [g \in Gens |-> Generation(IF g = slot THEN "placeholder" ELSE "none")]
        /\ req = [r \in Reqs |-> NewReq]
    BY DEF Init, GInit
  <2>4. \A g \in Gens : (IF g = slot THEN "placeholder" ELSE "none") \in Kinds
    BY DEF Kinds
  <2>. QED  BY <1>2, <2>1, <2>2, <2>3, <2>4 DEF GTypeOK
<1>5. Unclaimed \in Loop
  <2>1. NoRecord \in StopRecord
    BY DEF NoRecord, StopRecord
  <2>2. 0 \in 0..Threshold
    BY SupAssumption
  <2>. QED  BY <2>1, <2>2 DEF Unclaimed, Loop, Statuses
<1>6. TypeOK
  <2>1. NoProcess \in [st : {"none", "up", "leaderless"}, of : Sups \cup {NoGen}]
    BY DEF NoProcess
  <2>. QED  BY <1>1, <1>4, <1>5, <2>1 DEF TypeOK
<1>7. Knows(Unclaimed)
  <2>1. RunKnown(Unclaimed)
    BY SupAssumption DEF RunKnown, Unclaimed, Serving, Lost, Stopping, Between, Exiting, Trying
  <2>2. RecordKnown(Unclaimed)
    BY DEF RecordKnown, Unclaimed, NoRecord, Blank, LivePcs, Exiting, Unrecorded, Between,
           Ending, Stopping
  <2>3. StopKnown(Unclaimed)
    BY DEF StopKnown, Unclaimed, LivePcs, Exiting
  <2>. QED  BY <2>1, <2>2, <2>3 DEF Knows
<1>8. \A s \in Sups : sup[s].pc = "none" /\ sup[s].run = NoGen /\ sup[s].mine = NoGen
  BY <1>1 DEF Unclaimed
<1>9. HeldInv
  BY <1>1, <1>8 DEF HeldInv, Holds, At
<1>10. ProcInv
  BY <1>1 DEF ProcInv, Alive, NoProcess
<1>11. \A g \in Gens : gen[g].kind = IF g = slot THEN "placeholder" ELSE "none"
  <2>1. \A k : Generation(k).kind = k
    BY DEF Generation
  <2>. QED  BY <1>3, <2>1
<1>12. GenInv
  BY <1>8, <1>11 DEF GenInv
<1>13. Replaceable
  BY <1>2, <1>11 DEF Replaceable
<1>14. SlotInv
  BY <1>8, <1>13 DEF SlotInv, Installed, At
<1>. QED  BY <1>1, <1>6, <1>7, <1>9, <1>10, <1>12, <1>14 DEF Inv

\* Every step keeps the invariant, and is for the slot a step of its owner, of the proxy, or
\* none; what is made ready is a run whose stop was not asked for.
OwnerOrProxy ==
    \/ UNCHANGED gvars
    \/ ProxyStep
    \/ \E g \in Gens : \/ OwnerInstallsPlaceholder(g) \/ OwnerSpawns(g) \/ OwnerInstalls(g)
                       \/ OwnerDrains(g) \/ OwnerRevokes(g)
    \/ \E s \in Sups : /\ ~Asked(s) /\ sup[s].run \in Gens
                       /\ OwnerReadies(sup[s].run)

LEMMA StepFacts ==
    ASSUME Inv, [Next]_vars
    PROVE  Inv' /\ OwnerOrProxy
<1>1. CASE UNCHANGED vars
  <2>1. UNCHANGED <<gen, slot, req, held, proc, sup>>
    BY <1>1 DEF vars, gvars, svars
  <2>2. TypeOK' /\ (\A s \in Sups : Knows(sup[s]))'
    BY <2>1 DEF Inv, TypeOK, GTypeOK
  <2>3. HeldInv' /\ ProcInv' /\ GenInv' /\ SlotInv'
    BY <2>1 DEF Inv, HeldInv, ProcInv, GenInv, SlotInv, Holds, At, Alive, Replaceable
  <2>. QED  BY <2>1, <2>2, <2>3 DEF Inv, gvars, OwnerOrProxy
<1>2. ASSUME NEW s \in Sups,
             \/ Supervise(s) \/ LoopStep(s) \/ EndStep(s) \/ Panic(s)
             \/ AskStop(s) \/ Abandon(s) \/ DropHandle(s) \/ Join(s)
      PROVE  Inv' /\ OwnerOrProxy
  <2>1. CASE \/ Top(s) \/ OpenSockets(s) \/ SpawnStopped(s) \/ SpawnFails(s) \/ SpawnedStopped(s)
             \/ HandshakeStopped(s) \/ HandshakeFails(s) \/ HandshakeOk(s) \/ AdmitStopping(s)
             \/ PublishRunning(s) \/ ServeEnds(s) \/ ServeStopped(s) \/ DrainEnds(s)
             \/ PublishStopping(s) \/ Settle(s) \/ PublishFailed(s) \/ FailedStopped(s)
             \/ PublishGaveUp(s) \/ PublishBackoff(s) \/ WaitingStopped(s) \/ BackoffEnds(s)
             \/ CheckPackage(s) \/ PublishStopped(s) \/ ExitPublish(s) \/ AbortTakes(s)
             \/ Panic(s) \/ AskStop(s) \/ Abandon(s) \/ DropHandle(s) \/ Join(s)
    BY <2>1, QuietSteps DEF OwnerOrProxy
  <2>2. CASE BeginStop(s) \/ Unconfirmed(s) \/ RetireGaveUp(s) \/ Retire(s) \/ ExitRetire(s)
             \/ DropProcess(s)
    <3>1. Inv' /\ \E g \in Gens : Revoke(g) /\ gen[g].kind # "none" /\ UNCHANGED slot
      BY <2>2, RevokingSteps, DropProcessKeeps
    <3>2. PICK g \in Gens : Revoke(g) /\ gen[g].kind # "none" /\ UNCHANGED slot
      BY <3>1
    <3>3. CASE gen[g].state # "revoked"
      BY <3>1, <3>2, <3>3 DEF OwnerOrProxy, OwnerRevokes
    <3>4. CASE gen[g].state = "revoked"
      <4>1. gen' = gen
        <5>1. gen \in [Gens -> [kind : Kinds, state : States, inFlight : SUBSET Reqs,
                                dispatched : SUBSET Reqs, used : SUBSET Reqs]]
          BY DEF Inv, TypeOK, GTypeOK
        <5>2. [gen[g] EXCEPT !.state = "revoked"] = gen[g]
          BY <3>4, <5>1
        <5>3. gen' = [gen EXCEPT ![g] = [gen[g] EXCEPT !.state = "revoked"]]
          BY <3>2 DEF Revoke, RevokedIn
        <5>. QED  BY <5>1, <5>2, <5>3
      <4>2. req' = req
        <5>1. req = [r \in Reqs |-> req[r]]
          BY DEF Inv, TypeOK, GTypeOK
        <5>. QED  BY <3>2, <3>4, <5>1 DEF Revoke, Listed
      <4>. QED  BY <3>1, <3>2, <4>1, <4>2 DEF gvars, OwnerOrProxy
    <3>. QED  BY <3>3, <3>4
  <2>3. CASE GroupGone(s) \/ TerminateFails(s) \/ Finished(s) \/ Release(s) \/ ExitRelease(s)
    BY <2>3, GroupGoneKeeps, TerminateFailsKeeps, FinishedKeeps, ReleaseKeeps,
       ExitReleaseKeeps DEF OwnerOrProxy
  <2>4. CASE AdmitReady(s) \/ Drain(s)
    BY <2>4, ServingSteps DEF OwnerOrProxy
  <2>5. CASE Supervise(s) \/ Decide(s)
    BY <2>5, SuperviseKeeps, DecideKeeps DEF OwnerOrProxy
  <2>6. CASE SpawnOk(s) \/ Install(s)
    BY <2>6, SpawnOkKeeps, InstallKeeps DEF OwnerOrProxy
  <2>. QED
    BY <1>2, <2>1, <2>2, <2>3, <2>4, <2>5, <2>6 DEF LoopStep, EndStep
<1>3. ASSUME NEW g \in Gens, LeaderExits(g) \/ HelpersExit(g) PROVE Inv' /\ OwnerOrProxy
  BY <1>3, ProcessSteps DEF OwnerOrProxy
<1>4. CASE ProxyStep /\ UNCHANGED svars
  BY <1>4, ProxyKeeps DEF OwnerOrProxy
<1>. QED  BY <1>1, <1>2, <1>3, <1>4 DEF Next

\* One holder of the slot, one process group, and what every supervisor knows at each step
\* of its loop: the inductive invariant of the supervisors (Slot, run_loop, Exit::drop).
THEOREM SupervisorInvariant == Spec => []Inv
<1>1. Inv /\ [Next]_vars => Inv'
  BY StepFacts
<1>. QED  BY InitInv, <1>1, PTL DEF Spec

\* The types of the generations, the processes and the supervisors' state.
THEOREM SupervisorTypeCorrect == Spec => []TypeOK
<1>1. Inv => TypeOK
  BY DEF Inv
<1>. QED  BY SupervisorInvariant, <1>1, PTL

\* However the supervisors end, and however many there are, no two process groups of the
\* module exist at once (Slot, Exit::drop: the slot is kept while a group may be there).
THEOREM OneGroupAtATime == Spec => []OneGroup
<1>1. Inv => OneGroup
  <2>. SUFFICES ASSUME Inv PROVE OneGroup
    OBVIOUS
  <2>. DEFINE L == {g \in Gens : Alive(g)}
  <2>1. \A g, h \in L : g = h
    BY DEF Inv, ProcInv
  <2>2. CASE L = {}
    BY <2>2, FS_EmptySet DEF OneGroup
  <2>3. CASE L # {}
    <3>1. PICK g \in L : TRUE
      BY <2>3
    <3>2. L = {g}
      BY <2>1, <3>1
    <3>3. Cardinality(L) = 1
      BY <3>2, FS_Singleton
    <3>. QED  BY <3>3 DEF OneGroup
  <2>. QED  BY <2>2, <2>3
<1>. QED  BY SupervisorInvariant, <1>1, PTL

\* An Ok from a stop, and every claim of the record it leaves, are true (StopRecord,
\* SupervisorHandle::stop).
THEOREM StopsAreHonest == Spec => []StopHonest
<1>1. Inv => StopHonest
  <2>. SUFFICES ASSUME Inv, NEW s \in Sups
       PROVE  /\ sup[s].ans = "ok" =>
                  /\ ~LiveOf(s) /\ sup[s].released /\ sup[s].rec.end = "stopped"
                  /\ sup[s].rec.process = "none" \/ sup[s].rec.group = "gone"
              /\ sup[s].pc = "over" =>
                  /\ sup[s].rec.group = "gone" \/ sup[s].rec.process = "none" => ~LiveOf(s)
                  /\ sup[s].rec.process # "?" /\ sup[s].rec.end # "?"
                  /\ sup[s].rec.began => sup[s].rec.drain # "?"
                  /\ sup[s].rec.end = "stopped" => sup[s].how = "run"
    BY DEF StopHonest
  <2>1. RunKnown(sup[s]) /\ RecordKnown(sup[s]) /\ StopKnown(sup[s])
    BY DEF Inv, Knows
  <2>2. LiveOf(s) => sup[s].unconfirmed /\ ~sup[s].released
    BY DEF Inv, ProcInv, LiveOf, Holds
  <2>3. sup[s].ans = "ok" =>
          /\ sup[s].pc = "over" /\ sup[s].status = "stopped" /\ sup[s].released
          /\ sup[s].rec.process = "none" \/ sup[s].rec.group = "gone"
    BY <2>1 DEF StopKnown
  <2>4. sup[s].pc = "over" =>
          /\ sup[s].rec.process # "?" /\ sup[s].rec.end # "?"
          /\ sup[s].rec.began => sup[s].rec.drain # "?"
          /\ sup[s].status = "stopped" => sup[s].rec.end = "stopped"
    BY <2>1 DEF RecordKnown
  <2>5. /\ sup[s].unconfirmed => sup[s].rec.process # "none" /\ sup[s].rec.group # "gone"
        /\ sup[s].rec.end = "stopped" => sup[s].how = "run"
    BY <2>1 DEF RecordKnown
  <2>. QED  BY <2>2, <2>3, <2>4, <2>5
<1>. QED  BY SupervisorInvariant, <1>1, PTL

\* Once a stop is asked for, no run of that supervisor becomes ready, whatever the step
\* (drain_and_stop; the last check and `ready` under one guard).
THEOREM NoRunStartsAfterStop == Spec => NoStartAfterStop
<1>. DEFINE NoStart ==
        \A s \in Sups : Asked(s) /\ sup[s].run # NoGen /\ CanReady(sup[s].run)
                        => gen'[sup[s].run].state # "running"
<1>1. ASSUME Inv, [Next]_vars PROVE NoStart
  <2>. SUFFICES ASSUME NEW s \in Sups, Asked(s), sup[s].run # NoGen, CanReady(sup[s].run),
                       gen'[sup[s].run].state = "running"
                PROVE  FALSE
    OBVIOUS
  <2>. DEFINE r == sup[s].run
  <2>1. r \in Gens /\ gen[r].state = "starting" /\ GTypeOK
    BY <1>1 DEF Inv, TypeOK, Loop, CanReady
  <2>2. gen'[r].state # gen[r].state
    BY <2>1
  <2>3. OwnerOrProxy
    BY <1>1, StepFacts
  <2>4. CASE UNCHANGED gvars
    BY <2>2, <2>4 DEF gvars
  <2>5. CASE ProxyStep
    BY <2>1, <2>2, <2>5, ProxyFacts
  <2>6. ASSUME NEW g \in Gens,
               \/ OwnerInstallsPlaceholder(g) \/ OwnerSpawns(g) \/ OwnerInstalls(g)
               \/ OwnerDrains(g) \/ OwnerRevokes(g)
        PROVE  FALSE
    <3>1. CASE OwnerInstallsPlaceholder(g) \/ OwnerSpawns(g)
      <4>1. PICK k \in Kinds : gen' = [gen EXCEPT ![g] = Generation(k)]
        BY <3>1 DEF OwnerInstallsPlaceholder, OwnerSpawns, Kinds
      <4>2. UNCHANGED req /\ slot' \in Gens
        BY <2>1, <3>1 DEF OwnerInstallsPlaceholder, OwnerSpawns, GTypeOK
      <4>3. gen'[g].state = "starting" /\ \A h \in Gens \ {g} : gen'[h] = gen[h]
        BY <2>1, <4>1, <4>2, FreshFacts
      <4>. QED  BY <2>1, <2>2, <4>3
    <3>2. CASE OwnerInstalls(g)
      BY <2>2, <3>2 DEF OwnerInstalls
    <3>3. CASE OwnerDrains(g)
      <4>1. gen' = [gen EXCEPT ![g].state = "draining"] /\ UNCHANGED <<slot, req>>
        BY <3>3 DEF OwnerDrains, Drained
      <4>2. gen'[r].state = IF r = g THEN "draining" ELSE gen[r].state
        BY <2>1, <4>1, RestateFacts DEF States
      <4>. QED  BY <2>1, <2>2, <4>2
    <3>4. CASE OwnerRevokes(g)
      <4>1. gen'[r].state = IF r = g THEN "revoked" ELSE gen[r].state
        BY <2>1, <3>4, RevokeFacts DEF OwnerRevokes
      <4>. QED  BY <2>1, <2>2, <4>1
    <3>. QED  BY <2>6, <3>1, <3>2, <3>3, <3>4
  <2>7. ASSUME NEW t \in Sups, ~Asked(t), sup[t].run \in Gens, OwnerReadies(sup[t].run)
        PROVE  FALSE
    <3>1. r # sup[t].run
      BY <1>1, <2>1, <2>7, OneHolder, GensAssumption
    <3>2. gen' = [gen EXCEPT ![sup[t].run].state = "running"] /\ UNCHANGED <<slot, req>>
      BY <2>7 DEF OwnerReadies, Readied
    <3>3. gen'[r].state = gen[r].state
      BY <2>1, <2>7, <3>1, <3>2, RestateFacts DEF States
    <3>. QED  BY <2>2, <3>3
  <2>. QED  BY <2>3, <2>4, <2>5, <2>6, <2>7 DEF OwnerOrProxy
<1>2. Inv /\ [Next]_vars => [NoStart]_vars
  BY <1>1
<1>. QED  BY <1>2, SupervisorInvariant, PTL DEF Spec, NoStartAfterStop

\* The supervisors keep the discipline the proxy relies on: the slot is replaced only when
\* what is in it cannot serve, a run is spawned only when every one before it is revoked,
\* and only the generation in the slot becomes ready (Current, Slot).
THEOREM SupervisorsKeepDiscipline == Spec => GSpec
<1>1. Init => GInit
  BY DEF Init
<1>2. Inv /\ [Next]_vars => [GNext]_gvars
  <2>. SUFFICES ASSUME Inv, [Next]_vars PROVE [GNext]_gvars
    OBVIOUS
  <2>1. OwnerOrProxy
    BY StepFacts
  <2>. QED  BY <2>1 DEF OwnerOrProxy, GNext, OwnerStep
<1>. QED  BY <1>1, <1>2, SupervisorInvariant, PTL DEF Spec, GSpec

=============================================================================
