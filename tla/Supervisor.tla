----------------------------- MODULE Supervisor -----------------------------
(* The supervisors of one module (agent24-os-proto: supervisor.rs, the        *)
(* process half of supervise.rs, stop_record.rs). A supervisor claims the     *)
(* module's slot and runs it: spawn, handshake, serve, stop, restart after a  *)
(* backoff until the breaker trips. Its owner may ask for a stop with or      *)
(* without a drain, give up on that stop, or drop the handle; the loop may    *)
(* panic; a process may exit by itself, leave helpers behind, or survive      *)
(* SIGKILL. Every write another thread can see is a step of its own.          *)
(*                                                                            *)
(* Times are events: a deadline or a backoff may end at any moment.           *)
EXTENDS Generations

CONSTANTS
    Sups,         \* supervisors of the slot, numbered in the order of their start
    Threshold,    \* BREAKER_THRESHOLD: failures in a row that trip the breaker
    MaxStops      \* bound: supervisors that are asked to stop or panic

ASSUME SupAssumption ==
    /\ Sups \subseteq Nat /\ Threshold \in Nat \ {0}
    /\ MaxStops \in Nat

VARIABLES
    held,     \* Current.held
    proc,     \* proc[g]: the process group of generation g, as it really is,
              \* and the supervisor that spawned it
    sup       \* sup[s]: the loop of supervisor s, its handle and its record

svars == <<held, proc, sup>>
vars == <<gvars, svars>>

LivePcs == {"fresh", "top", "open", "spawning", "spawned", "handshake", "admit", "publish_running",
            "serving", "drain", "draining", "revoke", "publish_stopping", "settle",
            "terminate", "gone", "unconfirmed", "publish_failed", "wait_failed",
            "decide", "retire_gaveup", "publish_gaveup", "publish_backoff", "backoff",
            "check", "retire_changed", "publish_changed", "wait_stop",
            "retire", "release", "publish_stopped"}
EndPcs == {"drop_process", "exit_retire", "exit_publish", "exit_release", "over"}
Statuses == {"none", "starting", "running", "stopping", "backoff", "gave_up",
             "package_changed", "stopped", "stop_failed", "panicked", "killed"}

NoRecord == [process |-> "?", drain |-> "?", group |-> "?", end |-> "?",
             began |-> FALSE, abandoning |-> FALSE]

Unclaimed ==
    [pc |-> "none", status |-> "none", stop |-> "none", mine |-> NoGen, run |-> NoGen,
     unconfirmed |-> FALSE, released |-> FALSE, fails |-> 0, asked |-> FALSE,
     io |-> FALSE, fine |-> FALSE, how |-> "run", handle |-> "none", ans |-> "none",
     rec |-> NoRecord]

NoProcess == [st |-> "none", of |-> NoGen]

\* The record a stop leaves, and what one supervisor is and knows.
StopRecord ==
    [process : {"?", "none", "running"},
     drain : {"?", "idle", "deadline", "exited", "callback", "skipped", "cut"},
     group : {"?", "gone", "failed", "killed", "unavailable"},
     end : {"?", "stopped", "cut_off", "killed", "panicked"},
     began : BOOLEAN, abandoning : BOOLEAN]
Loop ==
    [pc : {"none"} \cup LivePcs \cup EndPcs, status : Statuses,
     stop : {"none", "zero", "drain"}, mine : Gens \cup {NoGen}, run : Gens \cup {NoGen},
     unconfirmed : BOOLEAN, released : BOOLEAN, fails : 0..Threshold, asked : BOOLEAN,
     io : BOOLEAN, fine : BOOLEAN, how : {"run", "abort", "panic"},
     handle : {"none", "held", "waiting", "abandoning", "dropped", "done"},
     ans : {"none", "ok", "failed", "panicked", "killed"}, rec : StopRecord]

TypeOK ==
    /\ GTypeOK
    /\ held \in BOOLEAN
    /\ proc \in [Gens -> [st : {"none", "up", "leaderless"}, of : Sups \cup {NoGen}]]
    /\ sup \in [Sups -> Loop]

Init ==
    /\ GInit
    /\ held = FALSE
    /\ proc = [g \in Gens |-> NoProcess]
    /\ sup = [s \in Sups |-> Unclaimed]

------------------------------------------------------------------------------
(* Helpers. *)

Alive(g) == proc[g].st # "none"

At(s, p) == sup[s].pc = p

To(s, p) == sup' = [sup EXCEPT ![s].pc = p]

Asked(s) == sup[s].stop # "none"

MayStop(s) ==
    Cardinality({s} \cup {t \in Sups : Asked(t) \/ sup[t].how = "panic"}) <= MaxStops

\* Every field of the record is written once: the first writer wins.
Once(rec, f, v) == IF rec[f] = "?" THEN [rec EXCEPT ![f] = v] ELSE rec

\* saw_stop: was there a process, and nothing was drained.
SawStop(rec, p) == Once(Once(rec, "process", p), "drain", "skipped")

FreeGen(g) ==
    /\ Free(g)
    /\ ~Alive(g)
    /\ \A s \in Sups : g # sup[s].mine /\ g # sup[s].run

NewGen == CHOOSE g \in Gens : FreeGen(g) /\ \A h \in Gens : FreeGen(h) => g <= h

CanNew == \E g \in Gens : FreeGen(g)

Rest == UNCHANGED <<held, proc>>
SupOnly == UNCHANGED gvars /\ Rest

------------------------------------------------------------------------------
(* Starting a supervisor, and its loop. *)

\* supervise: claim the slot with a placeholder, or say SlotHeld.
Supervise(s) ==
    /\ At(s, "none") /\ ~held /\ CanNew
    /\ \A t \in Sups : t < s => ~At(t, "none")
    /\ held' = TRUE
    /\ slot' = NewGen
    /\ gen' = [gen EXCEPT ![NewGen] = Generation("placeholder")]
    /\ sup' = [sup EXCEPT ![s].pc = "fresh", ![s].status = "starting",
                          ![s].mine = NewGen, ![s].handle = "held"]
    /\ UNCHANGED <<req, proc>>

\* The top of the loop.
Top(s) ==
    /\ sup[s].pc \in {"fresh", "top"}
    /\ sup' = [sup EXCEPT ![s].pc = "open", ![s].status = "starting"]
    /\ SupOnly

\* A fresh pair of sockets, or a run that failed without a process.
OpenSockets(s) ==
    /\ At(s, "open")
    /\ \E p \in {"spawning", "decide"} : To(s, p)
    /\ SupOnly

SpawnStopped(s) ==
    /\ At(s, "spawning") /\ Asked(s)
    /\ sup' = [sup EXCEPT ![s].pc = "retire", ![s].rec = SawStop(@, "none")]
    /\ SupOnly

\* launch::spawn: the process and its generation exist; a stop may have been
\* asked for since the select looked.
SpawnOk(s) ==
    /\ At(s, "spawning") /\ CanNew
    /\ gen' = [gen EXCEPT ![NewGen] = Generation("process")]
    /\ proc' = [proc EXCEPT ![NewGen] = [st |-> "up", of |-> s]]
    /\ sup' = [sup EXCEPT ![s].pc = "spawned", ![s].run = NewGen,
                          ![s].unconfirmed = TRUE]
    /\ UNCHANGED <<slot, req, held>>

SpawnFails(s) ==
    /\ At(s, "spawning")
    /\ To(s, "decide")
    /\ SupOnly

\* Checked again: stop that process rather than hand it a generation.
SpawnedStopped(s) ==
    /\ At(s, "spawned") /\ Asked(s)
    /\ sup' = [sup EXCEPT ![s].pc = "revoke", ![s].asked = TRUE, ![s].io = FALSE,
                          ![s].rec = SawStop(@, "running")]
    /\ SupOnly

\* A mutant: the run is handed its generation and the slot is not.
InstallMine(s) ==
    /\ At(s, "spawned") /\ ~Asked(s)
    /\ sup' = [sup EXCEPT ![s].pc = "handshake", ![s].mine = sup[s].run]
    /\ UNCHANGED gvars /\ Rest

Install(s) ==
    /\ At(s, "spawned") /\ ~Asked(s)
    /\ slot' = sup[s].run
    /\ sup' = [sup EXCEPT ![s].pc = "handshake", ![s].mine = sup[s].run]
    /\ UNCHANGED <<gen, req>> /\ Rest

HandshakeStopped(s) ==
    /\ At(s, "handshake") /\ Asked(s)
    /\ sup' = [sup EXCEPT ![s].pc = "revoke", ![s].asked = TRUE, ![s].io = FALSE,
                          ![s].rec = SawStop(@, "running")]
    /\ SupOnly

\* It exited, or the handshake failed or timed out: ended_by_itself.
HandshakeFails(s) ==
    /\ At(s, "handshake")
    /\ \E x \in BOOLEAN :
          sup' = [sup EXCEPT ![s].pc = "revoke", ![s].asked = FALSE, ![s].io = x]
    /\ SupOnly

HandshakeOk(s) ==
    /\ At(s, "handshake") /\ Alive(sup[s].run)
    /\ To(s, "admit")
    /\ SupOnly

\* A mutant: the stop check was made in an earlier step than `ready`.
MayServeChecked(s) == TRUE

\* The last stop check and `ready` are one step.
MayServe(s) == ~Asked(s)

AdmitReady(s) ==
    /\ At(s, "admit") /\ MayServe(s) /\ CanReady(sup[s].run)
    /\ gen' = Readied(sup[s].run)
    /\ To(s, "publish_running")
    /\ UNCHANGED <<slot, req>> /\ Rest

AdmitStopping(s) ==
    /\ At(s, "admit") /\ Asked(s)
    /\ sup' = [sup EXCEPT ![s].pc = "revoke", ![s].asked = TRUE, ![s].io = FALSE,
                          ![s].rec = SawStop(@, "running")]
    /\ SupOnly

PublishRunning(s) ==
    /\ At(s, "publish_running")
    /\ sup' = [sup EXCEPT ![s].pc = "serving", ![s].status = "running"]
    /\ SupOnly

\* The callback connection ended (an io failure) or the leader exited; the run
\* may have lasted HEALTHY_RUN (RestartPolicy::ran).
ServeEnds(s) ==
    /\ At(s, "serving")
    /\ \E x \in BOOLEAN, healthy \in BOOLEAN :
          /\ x \/ proc[sup[s].run].st # "up"
          /\ sup' = [sup EXCEPT ![s].pc = "revoke", ![s].asked = FALSE, ![s].io = x,
                                ![s].fine = healthy]
    /\ SupOnly

ServeStopped(s) ==
    /\ At(s, "serving") /\ Asked(s)
    /\ sup' = [sup EXCEPT ![s].pc = "drain", ![s].asked = TRUE, ![s].io = FALSE,
                          ![s].rec = Once(@, "process", "running")]
    /\ SupOnly

\* drain_run: skipped when its budget is zero or the generation is not serving.
Drain(s) ==
    /\ At(s, "drain")
    /\ IF sup[s].stop = "zero" \/ ~CanDrain(sup[s].run)
       THEN /\ sup' = [sup EXCEPT ![s].pc = "revoke",
                                  ![s].rec = Once(@, "drain", "skipped")]
            /\ UNCHANGED gvars
       ELSE /\ gen' = Drained(sup[s].run)
            /\ sup' = [sup EXCEPT ![s].pc = "draining", ![s].rec.began = TRUE]
            /\ UNCHANGED <<slot, req>>
    /\ Rest

DrainEnds(s) ==
    /\ At(s, "draining")
    /\ \E why \in {"idle", "deadline", "callback", "exited"} :
          /\ why = "idle" => gen[sup[s].run].inFlight = {}
          /\ why = "exited" => proc[sup[s].run].st # "up"
          /\ sup' = [sup EXCEPT ![s].pc = "revoke", ![s].rec = Once(@, "drain", why)]
    /\ SupOnly

------------------------------------------------------------------------------
(* finish: revoke, publish Stopping, terminate, and confirm the group gone. *)

\* begin_stop: revoked before Stopping is published.
BeginStop(s) ==
    /\ At(s, "revoke")
    /\ Revoke(sup[s].run)
    /\ To(s, "publish_stopping")
    /\ UNCHANGED slot /\ Rest

PublishStopping(s) ==
    /\ At(s, "publish_stopping")
    /\ sup' = [sup EXCEPT ![s].status = "stopping",
                          ![s].pc = IF sup[s].io THEN "settle" ELSE "terminate"]
    /\ SupOnly

\* An io failure waits a moment for the exit to show; a stop cuts it short.
Settle(s) ==
    /\ At(s, "settle")
    /\ To(s, "terminate")
    /\ SupOnly

\* The group is confirmed empty: recorded at once, with the stop if one was
\* asked for by now.
GroupGone(s) ==
    /\ At(s, "terminate")
    /\ proc' = [proc EXCEPT ![sup[s].run] = NoProcess]
    /\ sup' = [sup EXCEPT ![s].pc = "gone", ![s].unconfirmed = FALSE,
                          ![s].asked = @ \/ Asked(s),
                          ![s].rec = IF Asked(s)
                                     THEN Once(SawStop(@, "running"), "group", "gone")
                                     ELSE @]
    /\ UNCHANGED gvars /\ UNCHANGED <<held>>

\* It survived SIGKILL, or a signal failed: the group may still be there.
TerminateFails(s) ==
    /\ At(s, "terminate") /\ Alive(sup[s].run)
    /\ sup' = [sup EXCEPT ![s].pc = "unconfirmed", ![s].run = NoGen, ![s].fine = FALSE,
                          ![s].rec = Once(@, "group", "failed")]
    /\ SupOnly

\* finish returned: the run ended by itself, or was the stop asked for.
Finished(s) ==
    /\ At(s, "gone")
    /\ sup' = [sup EXCEPT ![s].run = NoGen,
                          ![s].pc = IF sup[s].asked THEN "retire" ELSE "decide",
                          ![s].fine = @ /\ ~sup[s].asked]
    /\ SupOnly

\* Unconfirmed: retire, publish StopFailed, wait for the stop, keep the slot.
Unconfirmed(s) ==
    /\ At(s, "unconfirmed")
    /\ Revoke(sup[s].mine)
    /\ sup' = [sup EXCEPT ![s].pc = "publish_failed",
                          ![s].rec = Once(@, "process", "running")]
    /\ UNCHANGED slot /\ Rest

PublishFailed(s) ==
    /\ At(s, "publish_failed")
    /\ sup' = [sup EXCEPT ![s].pc = "wait_failed", ![s].status = "stop_failed"]
    /\ SupOnly

FailedStopped(s) ==
    /\ At(s, "wait_failed") /\ Asked(s)
    /\ sup' = [sup EXCEPT ![s].pc = "exit_retire",
                          ![s].rec = Once(SawStop(@, "running"), "end", "stopped")]
    /\ SupOnly

------------------------------------------------------------------------------
(* After a run that failed: RestartPolicy, backoff, package check. *)

Fails(s) == (IF sup[s].fine THEN 0 ELSE sup[s].fails) + 1

Trips(s) == Fails(s) >= Threshold

Decide(s) ==
    /\ At(s, "decide")
    /\ IF Trips(s)
       THEN /\ sup' = [sup EXCEPT ![s].pc = "retire_gaveup", ![s].fails = Fails(s),
                                  ![s].fine = FALSE]
            /\ UNCHANGED gvars
       ELSE /\ CanNew
            /\ slot' = NewGen
            /\ gen' = [gen EXCEPT ![NewGen] = Generation("placeholder")]
            /\ sup' = [sup EXCEPT ![s].pc = "publish_backoff", ![s].fails = Fails(s),
                                  ![s].fine = FALSE, ![s].mine = NewGen]
            /\ UNCHANGED req
    /\ Rest

RetireGaveUp(s) ==
    /\ sup[s].pc \in {"retire_gaveup", "retire_changed"}
    /\ Revoke(sup[s].mine)
    /\ To(s, IF At(s, "retire_gaveup") THEN "publish_gaveup" ELSE "publish_changed")
    /\ UNCHANGED slot /\ Rest

PublishGaveUp(s) ==
    /\ sup[s].pc \in {"publish_gaveup", "publish_changed"}
    /\ sup' = [sup EXCEPT ![s].pc = "wait_stop",
                          ![s].status = IF At(s, "publish_gaveup")
                                        THEN "gave_up" ELSE "package_changed"]
    /\ SupOnly

PublishBackoff(s) ==
    /\ At(s, "publish_backoff")
    /\ sup' = [sup EXCEPT ![s].pc = "backoff", ![s].status = "backoff"]
    /\ SupOnly

\* A mutant: a supervisor that gave up does not watch for its stop.
BackoffStopped(s) ==
    /\ At(s, "backoff") /\ Asked(s)
    /\ sup' = [sup EXCEPT ![s].pc = "retire", ![s].rec = SawStop(@, "none")]
    /\ SupOnly

\* In a backoff, given up, or with a changed package: no process.
WaitingStopped(s) ==
    /\ sup[s].pc \in {"backoff", "wait_stop"} /\ Asked(s)
    /\ sup' = [sup EXCEPT ![s].pc = "retire", ![s].rec = SawStop(@, "none")]
    /\ SupOnly

BackoffEnds(s) ==
    /\ At(s, "backoff")
    /\ To(s, "check")
    /\ SupOnly

CheckPackage(s) ==
    /\ At(s, "check")
    /\ \E p \in {"top", "retire_changed"} : To(s, p)
    /\ SupOnly

------------------------------------------------------------------------------
(* Slot::stopped and the end of the task. *)

Retire(s) ==
    /\ At(s, "retire")
    /\ Revoke(sup[s].mine)
    /\ To(s, "release")
    /\ UNCHANGED slot /\ Rest

\* release is done once: `released` is swapped.
Release(s) ==
    /\ At(s, "release")
    /\ held' = FALSE
    /\ sup' = [sup EXCEPT ![s].pc = "publish_stopped", ![s].released = TRUE]
    /\ UNCHANGED gvars /\ UNCHANGED <<proc>>

PublishStopped(s) ==
    /\ At(s, "publish_stopped")
    /\ sup' = [sup EXCEPT ![s].pc = "exit_retire", ![s].status = "stopped"]
    /\ SupOnly

\* ModuleProcess::drop: revoke, and SIGKILL the group if its leader is unreaped.
DropProcess(s) ==
    /\ At(s, "drop_process")
    /\ Revoke(sup[s].run)
    /\ \E g \in IF sup[s].unconfirmed THEN {"killed", "unavailable"} ELSE {"unavailable"} :
          sup' = [sup EXCEPT ![s].pc = "exit_retire", ![s].run = NoGen,
                             ![s].rec = Once(@, "group", g)]
    /\ UNCHANGED slot /\ Rest

\* Exit::drop.
ExitRetire(s) ==
    /\ At(s, "exit_retire")
    /\ Revoke(sup[s].mine)
    /\ To(s, "exit_publish")
    /\ UNCHANGED slot /\ Rest

ExitPublish(s) ==
    /\ At(s, "exit_publish")
    /\ sup' = [sup EXCEPT ![s].pc = "exit_release",
                 ![s].status = IF sup[s].how = "panic" THEN "panicked"
                               ELSE IF @ \in {"stopped", "stop_failed"} THEN @
                               ELSE "killed"]
    /\ SupOnly

\* A mutant: a stop nobody recorded a process for is said to have had none.
FinalizedNone(s) ==
    Once(Once(sup[s].rec, "process", "none"), "end",
         IF sup[s].status = "stopped" THEN "stopped" ELSE "killed")

\* finalize, under one lock.
Finalized(s) ==
    LET r == sup[s].rec
        end == CASE sup[s].how = "panic" -> "panicked"
                 [] sup[s].how # "panic" /\ sup[s].status = "stopped" -> "stopped"
                 [] OTHER -> IF r.abandoning THEN "cut_off" ELSE "killed"
        cut == IF r.began THEN Once(r, "drain", "cut") ELSE r
    IN  Once(Once(cut, "process", IF sup[s].unconfirmed THEN "running" ELSE "none"),
             "end", end)

\* A mutant: whoever ends lets go of the slot.
LetsGoAlways(s) == ~sup[s].released

\* The slot is let go only by a loop that holds no process, and once.
LetsGo(s) == ~sup[s].released /\ ~sup[s].unconfirmed

ExitRelease(s) ==
    /\ At(s, "exit_release")
    /\ held' = IF LetsGo(s) THEN FALSE ELSE held
    /\ sup' = [sup EXCEPT ![s].pc = "over", ![s].rec = Finalized(s),
                          ![s].released = @ \/ LetsGo(s)]
    /\ UNCHANGED gvars /\ UNCHANGED <<proc>>

\* Where the loop awaits, and an abort takes effect.
Awaits == {"fresh", "spawning", "handshake", "serving", "draining", "settle", "terminate",
           "gone", "wait_failed", "backoff", "check", "wait_stop"}

Ends(s, how) ==
    sup' = [sup EXCEPT ![s].how = how, ![s].fine = FALSE,
                       ![s].pc = IF sup[s].run # NoGen THEN "drop_process" ELSE "exit_retire"]

\* The owner dropped the handle, or gave up on the stop: the task is aborted.
AbortTakes(s) ==
    /\ sup[s].handle \in {"abandoning", "dropped"}
    /\ sup[s].pc \in Awaits
    /\ Ends(s, "abort")
    /\ SupOnly

\* The loop panics (external: a bug in it, or in the caller's MethodsFor).
Panic(s) ==
    /\ sup[s].pc \in LivePcs \ {"fresh"} /\ MayStop(s)
    /\ Ends(s, "panic")
    /\ SupOnly

------------------------------------------------------------------------------
(* The handle. *)

\* drain_and_stop: the stop is asked for when it is called.
AskStop(s) ==
    /\ sup[s].handle = "held"
    /\ MayStop(s)
    /\ \E d \in {"zero", "drain"} :
          sup' = [sup EXCEPT ![s].handle = "waiting", ![s].stop = d]
    /\ SupOnly

\* drain_and_stop_unless: abandon resolved first.
Abandon(s) ==
    /\ sup[s].handle = "waiting" /\ sup[s].pc # "over"
    /\ sup' = [sup EXCEPT ![s].handle = "abandoning", ![s].rec.abandoning = TRUE]
    /\ SupOnly

\* The handle, or the stop future that owns it, is dropped.
DropHandle(s) ==
    /\ sup[s].handle \in {"held", "waiting"}
    /\ sup' = [sup EXCEPT ![s].handle = "dropped"]
    /\ SupOnly

StopAnswer(s) ==
    CASE sup[s].how = "panic" -> "panicked"
      [] sup[s].how = "abort" -> "killed"
      [] sup[s].how = "run" ->
           CASE sup[s].status = "stopped" -> "ok"
             [] sup[s].status = "stop_failed" -> "failed"
             [] OTHER -> "killed"

\* The wait for the task ends. (The record's end was written by finalize.)
Join(s) ==
    /\ sup[s].handle \in {"waiting", "abandoning"} /\ sup[s].pc = "over"
    /\ sup' = [sup EXCEPT ![s].handle = "done", ![s].ans = StopAnswer(s)]
    /\ SupOnly

------------------------------------------------------------------------------
(* The processes themselves (external). *)

LeaderExits(g) ==
    /\ proc[g].st = "up"
    /\ \E p \in {[proc[g] EXCEPT !.st = "leaderless"], NoProcess} :
          proc' = [proc EXCEPT ![g] = p]
    /\ UNCHANGED gvars /\ UNCHANGED <<held, sup>>

HelpersExit(g) ==
    /\ proc[g].st = "leaderless"
    /\ proc' = [proc EXCEPT ![g] = NoProcess]
    /\ UNCHANGED gvars /\ UNCHANGED <<held, sup>>

------------------------------------------------------------------------------
LoopStep(s) ==
    \/ Top(s) \/ OpenSockets(s) \/ SpawnStopped(s) \/ SpawnOk(s) \/ SpawnFails(s)
    \/ SpawnedStopped(s) \/ Install(s)
    \/ HandshakeStopped(s) \/ HandshakeFails(s) \/ HandshakeOk(s)
    \/ AdmitReady(s) \/ AdmitStopping(s) \/ PublishRunning(s)
    \/ ServeEnds(s) \/ ServeStopped(s) \/ Drain(s) \/ DrainEnds(s)
    \/ BeginStop(s) \/ PublishStopping(s) \/ Settle(s)
    \/ GroupGone(s) \/ TerminateFails(s) \/ Finished(s)
    \/ Unconfirmed(s) \/ PublishFailed(s) \/ FailedStopped(s)
    \/ Decide(s) \/ RetireGaveUp(s) \/ PublishGaveUp(s) \/ PublishBackoff(s)
    \/ WaitingStopped(s) \/ BackoffEnds(s) \/ CheckPackage(s)
    \/ Retire(s) \/ Release(s) \/ PublishStopped(s)

EndStep(s) ==
    \/ DropProcess(s) \/ ExitRetire(s) \/ ExitPublish(s) \/ ExitRelease(s)
    \/ AbortTakes(s)

Next ==
    \/ \E s \in Sups :
        \/ Supervise(s) \/ LoopStep(s) \/ EndStep(s) \/ Panic(s)
        \/ AskStop(s) \/ Abandon(s) \/ DropHandle(s) \/ Join(s)
    \/ \E g \in Gens : LeaderExits(g) \/ HelpersExit(g)
    \/ ProxyStep /\ UNCHANGED svars

Spec == Init /\ [][Next]_vars

\* The loop runs on once a stop was asked for or the handle was dropped: every
\* wait of it is then bounded by a deadline, a grace or the stop itself.
Leaving(s) == Asked(s) \/ sup[s].handle = "dropped"

FairSpec ==
    /\ Spec
    /\ \A s \in Sups :
        /\ WF_vars(Leaving(s) /\ (LoopStep(s) \/ EndStep(s)))
        /\ WF_vars(EndStep(s))
        /\ WF_vars(Join(s))

------------------------------------------------------------------------------
(* Properties. *)

LiveOf(s) == \E g \in Gens : Alive(g) /\ proc[g].of = s

\* However the supervisors end (stopped, failed to stop, aborted, panicked), no
\* two process groups of the module exist at once: nothing is started over a
\* group that may still hold the data directory (Slot, Exit::drop).
OneGroup == Cardinality({g \in Gens : Alive(g)}) <= 1

\* A stop that answered Ok left no process and no hold on the slot, and the
\* record it leaves never claims more than is true: a group said to be gone, or
\* a process said never to have been there, is not running, and a drain that
\* began has an end (SupervisorHandle::stop, StopRecord).
StopHonest ==
    \A s \in Sups :
        /\ sup[s].ans = "ok" =>
            /\ ~LiveOf(s) /\ sup[s].released /\ sup[s].rec.end = "stopped"
            /\ sup[s].rec.process = "none" \/ sup[s].rec.group = "gone"
        /\ sup[s].pc = "over" =>
            /\ sup[s].rec.group = "gone" \/ sup[s].rec.process = "none" => ~LiveOf(s)
            /\ sup[s].rec.process # "?" /\ sup[s].rec.end # "?"
            /\ sup[s].rec.began => sup[s].rec.drain # "?"
            /\ sup[s].rec.end = "stopped" => sup[s].how = "run"

\* From the moment a stop is asked for no run of that supervisor becomes ready
\* (drain_and_stop, the check and `ready` under one guard).
NoStartAfterStop ==
    [][\A s \in Sups : Asked(s) /\ sup[s].run # NoGen /\ CanReady(sup[s].run) =>
            gen'[sup[s].run].state # "running"]_vars

\* A stop that was asked for, given up on or dropped always ends, whatever the
\* process, the requests in flight and the package do.
StopEnds == \A s \in Sups : Leaving(s) ~> sup[s].pc = "over"
==============================================================================
