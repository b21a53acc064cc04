-------------------------- MODULE AttachedModules --------------------------
(* Modules the daemon did not spawn and that attach themselves over the       *)
(* daemon's socket: the records on disk (attached.rs), the live registry      *)
(* (attach_registry.rs), the handshake of each connection                     *)
(* (attach_listener.rs), the calls the kernel makes on a connection           *)
(* (attach_mux.rs) and the REST command that makes one (attach_commands.rs).  *)
(*                                                                            *)
(* One module name: names share only the registry's lock and its closing.    *)
(* Each connection installs at most one generation, so a generation is named *)
(* by its connection. A failed write of attached.json changes nothing and is *)
(* a stuttering step.                                                         *)
EXTENDS Naturals, Sequences, FiniteSets

CONSTANTS
    Conns,      \* connections to the attach socket
    Cmds,       \* POST .../commands/{command}, one request each
    Manifests,  \* manifests that may be registered under the name
    Declares,   \* Declares[m]: the commands manifest m declares
    Facts,      \* Facts[m]: the capabilities of m, Remote among them or not
    Remote,     \* model_access: remote_allowed
    NONE,
    MaxTok,     \* bound: tokens minted
    MaxCalls,   \* MAX_KERNEL_CALLS_IN_FLIGHT
    QueueCap,   \* OUT_QUEUE_CAPACITY
    MaxLoad     \* bound: commands posted, and twice the connections and restarts

\* One record of attached.json, the request that changes it, and its registry entry.
Record == [man : Manifests, tok : 1..MaxTok, disabled : BOOLEAN]
ChangeRec == [op : {"registered", "revoked", "disabled"}, rec : Record]
Entry == [man : Manifests, tok : 1..MaxTok, disabled : BOOLEAN,
          slot : Conns \cup {NONE}, last : Conns \cup {NONE},
          live : Conns \cup {NONE}, mismatch : 0..MaxTok]

ASSUME AttachAssumption ==
    /\ NONE \notin Conns \cup Manifests \cup Record \cup Entry
                   \cup {"change", "shutdown"}
    /\ IsFiniteSet(Cmds)
    /\ Declares \in [Manifests -> SUBSET Cmds]
    /\ MaxTok \in Nat /\ MaxCalls \in Nat /\ MaxLoad \in Nat
    /\ QueueCap \in Nat \ {0}

VARIABLES
    disk,     \* attached.json: the record and the tombstone of the name
    change,   \* the request that holds the file lock, or NONE
    entry,    \* the registry's entry, or NONE
    closed,   \* the registry's deps were taken by revoke_all
    lock,     \* who is inside the registry's lock across two steps, or NONE
    gen,      \* gen[c]: the generation connection c installed
    conn,     \* conn[c]: the handshake and the serving of connection c
    wire,     \* wire[c]: KernelCalls, its queue and what the module has read
    cmd,      \* cmd[k]: one command request
    inFlight, \* inFlight[c]: LiveCalls.in_flight of connection c
    daemon,   \* startup and shutdown of the daemon
    minted,   \* tokens minted so far
    told,     \* the tokens register has returned
    agreed,   \* history: the facts the host has agreed to for the name
    crashes

regVars == <<disk, change, entry, closed, lock, minted, told, agreed>>
cmdVars == <<cmd, inFlight>>
vars == <<regVars, gen, conn, wire, cmdVars, daemon, crashes>>

NewConn == [pc |-> "new", tok |-> 0, man |-> NONE, ver |-> TRUE,
            ref |-> "none", ans |-> "none"]
NewWire == [closed |-> FALSE, pending |-> {}, queue |-> <<>>, got |-> {}]
NewCmd == [pc |-> "new", conn |-> NONE, res |-> "none", ans |-> "none"]

Req(k) == [kind |-> "request", cmd |-> k]
Cancel(k) == [kind |-> "cancel", cmd |-> k]
Success == [kind |-> "success", cmd |-> NONE]
Frames == [kind : {"request", "cancel"}, cmd : Cmds] \cup {Success}

Refusals == {"auth_failed", "digest_mismatch", "version_mismatch"}
ConnAnswers == Refusals \cup
    {"none", "shutting_down", "forbidden", "busy", "closed", "success"}
NoFrameSent == {"not_found", "forbidden", "not_ready", "busy", "not_sent"}

Handshakes == [pc : {"new", "hello", "open", "noting", "refused", "claimed",
                     "committed", "serving", "ended", "done"},
               tok : 0..MaxTok, man : Manifests \cup {NONE}, ver : BOOLEAN,
               ref : Refusals \cup {"none"}, ans : ConnAnswers]
Wires == [closed : BOOLEAN, pending : SUBSET Cmds, queue : Seq(Frames),
          got : SUBSET Frames]
Commands == [pc : {"new", "body", "reserved", "waiting", "cancelling", "done"},
             conn : Conns \cup {NONE}, res : {"none", "answer", "lost"},
             ans : NoFrameSent \cup {"none", "ok", "lost", "timeout", "gone"}]

TypeOK ==
    /\ disk \in [rec : Record \cup {NONE}, tomb : Manifests \cup {NONE}]
    /\ change \in ChangeRec \cup {NONE}
    /\ entry \in Entry \cup {NONE}
    /\ closed \in BOOLEAN
    /\ lock \in {NONE, "change", "shutdown"}
    /\ gen \in [Conns -> {"none", "running", "revoked"}]
    /\ conn \in [Conns -> Handshakes]
    /\ wire \in [Conns -> Wires]
    /\ \A c \in Conns : Len(wire[c].queue) <= QueueCap
    /\ cmd \in [Cmds -> Commands]
    /\ inFlight \in [Conns -> Nat]
    /\ daemon \in [boot : {"hydrated", "filled", "up"}, stop : BOOLEAN,
                   checked : BOOLEAN]
    /\ minted \in 0..MaxTok /\ told \subseteq 1..minted
    /\ agreed \in [known : BOOLEAN, facts : SUBSET UNION {Facts[m] : m \in Manifests}]
    /\ crashes \in Nat

\* There is room for one more command, connection or restart.
Load == Cardinality({k \in Cmds : cmd[k].pc # "new"})
        + 2 * Cardinality({c \in Conns : conn[c].pc # "new"}) + 2 * crashes
Arrives(n) == Load + n <= MaxLoad

\* hydrate: every record comes back detached.
Hydrated(rec) ==
    IF rec = NONE THEN NONE
    ELSE [man |-> rec.man, tok |-> rec.tok, disabled |-> rec.disabled,
          slot |-> NONE, last |-> NONE, live |-> NONE, mismatch |-> 0]

Init ==
    /\ disk = [rec |-> NONE, tomb |-> NONE]
    /\ change = NONE /\ entry = NONE /\ closed = FALSE /\ lock = NONE
    /\ gen = [c \in Conns |-> "none"]
    /\ conn = [c \in Conns |-> NewConn]
    /\ wire = [c \in Conns |-> NewWire]
    /\ cmd = [k \in Cmds |-> NewCmd]
    /\ inFlight = [c \in Conns |-> 0]
    /\ daemon = [boot |-> "hydrated", stop |-> FALSE, checked |-> FALSE]
    /\ minted = 0 /\ told = {} /\ agreed = [known |-> FALSE, facts |-> {}] /\ crashes = 0

Unlocked == lock = NONE
Running(c) == c # NONE /\ gen[c] = "running"

\* AttachSlot::revoke: whatever generation the slot holds.
SlotRevoked ==
    [c \in Conns |-> IF entry.slot = c THEN "revoked" ELSE gen[c]]

\* Shared::close: no further call is issued, every waiting one is dropped.
Closed(c) == [wire EXCEPT ![c].closed = TRUE, ![c].pending = {}]
Dropped(c) ==
    [k \in Cmds |-> IF c # NONE /\ k \in wire[c].pending
                    THEN [cmd[k] EXCEPT !.res = "lost"] ELSE cmd[k]]

CloseLive(c) ==
    /\ wire' = IF c = NONE THEN wire ELSE Closed(c)
    /\ cmd' = Dropped(c)

------------------------------------------------------------------------------
(* The records: register, revoke and set_disabled, each under the file lock. *)

\* A mutant: a revoked name is a new name.
IsRelaxForgetful(m) ==
    IF disk.rec # NONE THEN ~(Facts[m] \subseteq Facts[disk.rec.man])
    ELSE Remote \in Facts[m]

\* is_relax, against the record or the tombstone a revocation left.
IsRelax(m) ==
    LET prev == IF disk.rec # NONE THEN disk.rec.man ELSE disk.tomb IN
    IF prev = NONE THEN Remote \in Facts[m]
    ELSE ~(Facts[m] \subseteq Facts[prev])

\* A rotation keeps `disabled`; a new record of a revoked name starts enabled.
Register(m, allowRelax) ==
    LET rec == [man |-> m, tok |-> minted + 1,
                disabled |-> disk.rec # NONE /\ disk.rec.disabled] IN
    /\ daemon.boot = "up" /\ change = NONE /\ minted < MaxTok
    /\ IsRelax(m) => allowRelax
    /\ disk' = [rec |-> rec, tomb |-> NONE]
    /\ change' = [op |-> "registered", rec |-> rec]
    /\ minted' = minted + 1
    /\ agreed' = [known |-> TRUE,
                  facts |-> IF allowRelax THEN Facts[m]
                            ELSE IF agreed.known THEN agreed.facts \cap Facts[m]
                            ELSE Facts[m] \ {Remote}]
    /\ UNCHANGED <<entry, closed, lock, told, gen, conn, wire, cmdVars,
                   daemon, crashes>>

RevokeRecord ==
    /\ daemon.boot = "up" /\ change = NONE /\ disk.rec # NONE
    /\ disk' = [rec |-> NONE, tomb |-> disk.rec.man]
    /\ change' = [op |-> "revoked", rec |-> disk.rec]
    /\ UNCHANGED <<entry, closed, lock, gen, conn, wire, cmdVars, daemon,
                   minted, told, agreed, crashes>>

SetDisabled(d) ==
    LET rec == [disk.rec EXCEPT !.disabled = d] IN
    /\ daemon.boot = "up" /\ change = NONE /\ disk.rec # NONE
    /\ disk' = [disk EXCEPT !.rec = rec]
    /\ change' = [op |-> "disabled", rec |-> rec]
    /\ UNCHANGED <<entry, closed, lock, gen, conn, wire, cmdVars, daemon,
                   minted, told, agreed, crashes>>

\* on_change runs inside the file lock, under the registry's own lock. What the
\* entry becomes; a closed registry is left alone.
Changed ==
    CASE change.op = "revoked" -> NONE
      [] change.op = "disabled" ->
            [entry EXCEPT !.disabled = change.rec.disabled,
                          !.live = IF change.rec.disabled THEN NONE ELSE @]
      [] OTHER ->
            IF entry = NONE THEN Hydrated(change.rec)
            ELSE [entry EXCEPT !.man = change.rec.man, !.tok = change.rec.tok,
                               !.disabled = change.rec.disabled,
                               !.live = NONE, !.mismatch = 0]

\* Which changes end the generation that is live.
MustRevoke == change.op # "disabled" \/ change.rec.disabled

\* The request answers and the file lock is released: a token is only now known.
Return ==
    /\ change' = NONE
    /\ told' = IF change.op = "registered" THEN told \cup {change.rec.tok}
               ELSE told

OnChangeIdle ==
    /\ change # NONE /\ Unlocked
    /\ closed \/ entry = NONE \/ ~MustRevoke
    /\ entry' = IF closed \/ (entry = NONE /\ change.op # "registered")
                THEN entry ELSE Changed
    /\ Return
    /\ UNCHANGED <<disk, closed, lock, gen, conn, wire, cmdVars, daemon, minted,
                   agreed, crashes>>

\* The generation is revoked, then its calls are closed: a call already holds a
\* slot and takes no registry lock, so it may run in between.
OnChangeRevoke ==
    /\ change # NONE /\ Unlocked /\ ~closed /\ entry # NONE /\ MustRevoke
    /\ gen' = SlotRevoked
    /\ entry' = [entry EXCEPT !.slot = NONE]
    /\ lock' = "change"
    /\ UNCHANGED <<disk, change, closed, conn, wire, cmdVars, daemon, minted,
                   told, agreed, crashes>>

OnChangeClose ==
    /\ lock = "change"
    /\ CloseLive(entry.live)
    /\ entry' = Changed /\ lock' = NONE /\ Return
    /\ UNCHANGED <<disk, closed, gen, conn, inFlight, daemon, minted, agreed,
                   crashes>>

------------------------------------------------------------------------------
(* One connection: handle_connection and check_frame. Each step that reads or *)
(* writes the registry takes its lock.                                        *)

Enqueued(c, f) == [wire EXCEPT ![c].queue = Append(@, f)]

Room(c) == ~wire[c].closed /\ Len(wire[c].queue) < QueueCap

To(c, pc) == conn' = [conn EXCEPT ![c].pc = pc]
Answer(c, a) == conn' = [conn EXCEPT ![c].pc = "done", ![c].ans = a]
Refused(c, r) == conn' = [conn EXCEPT ![c].pc = "refused", ![c].ref = r]

ConnStep(c, pc) ==
    /\ conn[c].pc = pc /\ Unlocked
    /\ UNCHANGED <<disk, change, closed, lock, minted, told, agreed, cmd, daemon,
                   crashes>>

\* The listener accepts and reads the first frame. Token 0 was never minted.
Connect(c) ==
    /\ daemon.boot = "up" /\ ~daemon.stop /\ conn[c].pc = "new" /\ Arrives(2)
    /\ \E tok \in told \cup {0}, man \in Manifests, ver \in BOOLEAN :
          conn' = [conn EXCEPT ![c] =
              [@ EXCEPT !.pc = "hello", !.tok = tok, !.man = man, !.ver = ver]]
    /\ UNCHANGED <<regVars, gen, wire, cmdVars, daemon, crashes>>

CheckClosed(c) ==
    /\ ConnStep(c, "hello")
    /\ IF closed THEN Answer(c, "shutting_down") ELSE To(c, "open")
    /\ UNCHANGED <<entry, gen, wire, inFlight>>

\* accept_attached, against the expectation the lookup cloned.
Lookup(c) ==
    /\ ConnStep(c, "open")
    /\ IF entry = NONE \/ entry.tok # conn[c].tok THEN Refused(c, "auth_failed")
       ELSE IF entry.man # conn[c].man THEN Refused(c, "digest_mismatch")
       ELSE To(c, IF conn[c].ver THEN "claimed" ELSE "noting")
    /\ UNCHANGED <<entry, gen, wire, inFlight>>

\* note_contract_mismatch.
Note(c) ==
    /\ ConnStep(c, "noting")
    /\ entry' = IF closed \/ entry = NONE THEN entry
                ELSE IF entry.tok # conn[c].tok \/ Running(entry.last) THEN entry
                ELSE [entry EXCEPT !.mismatch = conn[c].tok]
    /\ Refused(c, "version_mismatch")
    /\ UNCHANGED <<gen, wire, inFlight>>

\* is_closed again: a shutdown between the check and the lookup emptied the map.
Refuse(c) ==
    /\ ConnStep(c, "refused")
    /\ Answer(c, IF closed THEN "shutting_down" ELSE conn[c].ref)
    /\ UNCHANGED <<entry, gen, wire, inFlight>>

Installed(c) ==
    /\ gen' = [gen EXCEPT ![c] = "running"]
    /\ entry' = [entry EXCEPT !.slot = c, !.last = c, !.mismatch = 0]
    /\ To(c, "committed")

\* A mutant: the claim is taken as current.
CommitStale(c) ==
    /\ ConnStep(c, "claimed")
    /\ IF closed \/ entry = NONE \/ entry.disabled \/ entry.slot # NONE
       THEN Answer(c, "closed") /\ UNCHANGED <<entry, gen>>
       ELSE Installed(c)
    /\ UNCHANGED <<wire, inFlight>>

\* A closed registry closes the connection with no frame at all.
Commit(c) ==
    /\ ConnStep(c, "claimed")
    /\ IF closed THEN Answer(c, "closed") /\ UNCHANGED <<entry, gen>>
       ELSE IF entry = NONE \/ entry.tok # conn[c].tok
            THEN Answer(c, "auth_failed") /\ UNCHANGED <<entry, gen>>
       ELSE IF entry.disabled
            THEN /\ Answer(c, "forbidden") /\ UNCHANGED gen
                 /\ entry' = [entry EXCEPT !.mismatch = 0]
       ELSE IF entry.slot # NONE
            THEN Answer(c, "busy") /\ UNCHANGED <<entry, gen>>
       ELSE Installed(c)
    /\ UNCHANGED <<wire, inFlight>>

\* A mutant: the handle is installed for whichever generation is the last.
AttachAny(c) ==
    /\ ConnStep(c, "committed")
    /\ wire' = Enqueued(c, Success)
    /\ entry' = IF entry = NONE THEN entry ELSE [entry EXCEPT !.live = c]
    /\ conn' = [conn EXCEPT ![c].pc = "serving", ![c].ans = "success"]
    /\ inFlight' = [inFlight EXCEPT ![c] = 0]
    /\ UNCHANGED gen

\* attach_kernel_calls: the success frame and the handle, in one lock. The queue
\* is new and its writer has nothing to fail on, so the frame always enters it.
Attach(c) ==
    /\ ConnStep(c, "committed")
    /\ wire' = Enqueued(c, Success)
    /\ entry' = IF entry # NONE /\ entry.last = c
                THEN [entry EXCEPT !.live = c] ELSE entry
    /\ conn' = [conn EXCEPT ![c].pc = "serving", ![c].ans = "success"]
    /\ inFlight' = [inFlight EXCEPT ![c] = 0]
    /\ UNCHANGED gen

\* The writer task: one line at a time. The answers to the module's own calls
\* share the queue and are left out.
Write(c) ==
    /\ conn[c].pc = "serving" /\ wire[c].queue # <<>>
    /\ wire' = [wire EXCEPT ![c].got = @ \cup {Head(wire[c].queue)},
                            ![c].queue = Tail(@)]
    /\ UNCHANGED <<regVars, gen, conn, cmdVars, daemon, crashes>>

\* Teardown: the writer is aborted with the frame it was writing, which may
\* have arrived, and what is queued behind it is discarded.
Torn(c) ==
    /\ conn[c].pc = "serving"
    /\ \E arrived \in BOOLEAN :
          wire' = [Closed(c) EXCEPT
              ![c].queue = <<>>,
              ![c].got = IF arrived /\ wire[c].queue # <<>>
                         THEN @ \cup {Head(wire[c].queue)} ELSE @]
    /\ cmd' = Dropped(c)
    /\ To(c, "ended")
    /\ UNCHANGED <<regVars, gen, inFlight, daemon, crashes>>

\* The generation's revocation or the daemon's stop ends the connection.
EndServe(c) == (gen[c] = "revoked" \/ daemon.stop) /\ Torn(c)

\* The module closed its end, or a write failed or took too long.
PeerLost(c) == Torn(c)

\* release: an entry that was removed already revoked the generation. The wire
\* is closed by the teardown before.
Release(c) ==
    /\ ConnStep(c, "ended")
    /\ IF entry = NONE THEN UNCHANGED <<gen, entry>>
       ELSE /\ gen' = [gen EXCEPT ![c] = "revoked"]
            /\ entry' = [entry EXCEPT !.slot = IF @ = c THEN NONE ELSE @,
                                      !.live = IF @ = c THEN NONE ELSE @]
    /\ To(c, "done")
    /\ UNCHANGED <<wire, inFlight>>

------------------------------------------------------------------------------
(* One command: post_command and KernelCalls::call.                          *)

cmdOthers == <<regVars, gen, conn, daemon, crashes>>
Ended(k, a) == cmd' = [cmd EXCEPT ![k].pc = "done", ![k].ans = a]
FreeSlot(k) == inFlight' = [inFlight EXCEPT ![cmd[k].conn] = @ - 1]
Forgotten(k) == [wire EXCEPT ![cmd[k].conn].pending = @ \ {k}]

\* The pre-check, before the body is read.
Declared(k) ==
    /\ cmd[k].pc = "new" /\ daemon.boot = "up" /\ Unlocked /\ Arrives(1)
    /\ IF entry = NONE THEN Ended(k, "not_found")
       ELSE IF k \notin Declares[entry.man] THEN Ended(k, "forbidden")
       ELSE cmd' = [cmd EXCEPT ![k].pc = "body"]
    /\ UNCHANGED <<cmdOthers, wire, inFlight>>

\* reserve_ready: declared now, live now, and a slot free.
Reserve(k) ==
    /\ cmd[k].pc = "body" /\ Unlocked
    /\ IF entry = NONE \/ (entry # NONE /\ k \notin Declares[entry.man])
       THEN Ended(k, "forbidden") /\ UNCHANGED inFlight
       ELSE IF ~Running(entry.live)
       THEN Ended(k, "not_ready") /\ UNCHANGED inFlight
       ELSE IF inFlight[entry.live] >= MaxCalls
       THEN Ended(k, "busy") /\ UNCHANGED inFlight
       ELSE /\ cmd' = [cmd EXCEPT ![k].pc = "reserved", ![k].conn = entry.live]
            /\ inFlight' = [inFlight EXCEPT ![entry.live] = @ + 1]
    /\ UNCHANGED <<cmdOthers, wire>>

\* A mutant: the frame is queued before the connection is known to be open.
SendUnchecked(k) ==
    LET c == cmd[k].conn IN
    /\ cmd[k].pc = "reserved"
    /\ IF Len(wire[c].queue) >= QueueCap \/ conn[c].pc # "serving"
       THEN Ended(k, "not_sent") /\ FreeSlot(k) /\ UNCHANGED wire
       ELSE /\ wire' = Enqueued(c, Req(k))
            /\ IF wire[c].closed THEN Ended(k, "not_sent") /\ FreeSlot(k)
               ELSE UNCHANGED <<cmd, inFlight>>
    /\ UNCHANGED cmdOthers

\* The check, the enqueue and the pending entry share one lock with close.
Send(k) ==
    LET c == cmd[k].conn IN
    /\ cmd[k].pc = "reserved"
    /\ IF Room(c)
       THEN /\ wire' = [Enqueued(c, Req(k)) EXCEPT ![c].pending = @ \cup {k}]
            /\ cmd' = [cmd EXCEPT ![k].pc = "waiting"]
            /\ UNCHANGED inFlight
       ELSE Ended(k, "not_sent") /\ FreeSlot(k) /\ UNCHANGED wire
    /\ UNCHANGED cmdOthers

\* route_response: the answer takes the pending entry and wakes the call. An
\* answer nobody waits for is dropped and changes nothing.
ModuleAnswers(k) ==
    \E c \in Conns :
        /\ conn[c].pc = "serving" /\ Req(k) \in wire[c].got
        /\ k \in wire[c].pending
        /\ wire' = [wire EXCEPT ![c].pending = @ \ {k}]
        /\ cmd' = [cmd EXCEPT ![k].res = "answer"]
        /\ UNCHANGED <<cmdOthers, inFlight>>

\* The result, an error or a malformed answer alike, or the dropped sender.
Finish(k) ==
    /\ cmd[k].pc = "waiting" /\ cmd[k].res # "none"
    /\ Ended(k, IF cmd[k].res = "answer" THEN "ok" ELSE "lost")
    /\ FreeSlot(k)
    /\ UNCHANGED <<cmdOthers, wire>>

TimeoutFires(k) ==
    /\ cmd[k].pc = "waiting" /\ cmd[k].res = "none"
    /\ cmd' = [cmd EXCEPT ![k].pc = "cancelling"]
    /\ UNCHANGED <<cmdOthers, wire, inFlight>>

\* enqueue_cancel, once; a full queue or a closed connection gets none.
SendCancel(k) ==
    LET c == cmd[k].conn IN
    /\ cmd[k].pc = "cancelling"
    /\ wire' = IF Room(c)
               THEN [Forgotten(k) EXCEPT ![c].queue = Append(@, Cancel(k))]
               ELSE Forgotten(k)
    /\ Ended(k, "timeout") /\ FreeSlot(k)
    /\ UNCHANGED cmdOthers

\* The client went away, or its body was refused: the handler's future is
\* dropped, and PendingGuard and CommandSlot with it.
Gone(k) ==
    /\ cmd[k].pc \in {"body", "waiting"}
    /\ IF cmd[k].pc = "waiting"
       THEN wire' = Forgotten(k) /\ FreeSlot(k)
       ELSE UNCHANGED <<wire, inFlight>>
    /\ Ended(k, "gone")
    /\ UNCHANGED cmdOthers

------------------------------------------------------------------------------
(* Startup, shutdown and crash of the daemon.                                 *)

bootOthers == <<disk, change, conn, wire, cmdVars, minted, told, agreed, crashes>>

\* revoke_all, up to the revocation of the generation.
BeginRevokeAll ==
    /\ Unlocked
    /\ closed' = TRUE
    /\ IF entry = NONE THEN UNCHANGED <<entry, gen, lock>>
       ELSE /\ gen' = SlotRevoked
            /\ entry' = [entry EXCEPT !.slot = NONE]
            /\ lock' = "shutdown"

FinishRevokeAll ==
    /\ lock = "shutdown"
    /\ CloseLive(entry.live)
    /\ entry' = NONE /\ lock' = NONE
    /\ UNCHANGED <<disk, change, closed, gen, conn, inFlight, daemon, minted,
                   told, agreed, crashes>>

Fill ==
    /\ daemon.boot = "hydrated"
    /\ daemon' = [daemon EXCEPT !.boot = "filled"]
    /\ UNCHANGED <<regVars, gen, conn, wire, cmdVars, crashes>>

\* A mutant: the fill is the end of it.
RecheckNot ==
    /\ daemon.boot = "filled"
    /\ daemon' = [daemon EXCEPT !.boot = "up"]
    /\ UNCHANGED <<entry, closed, lock, gen>>
    /\ UNCHANGED bootOthers

\* fill_attach_registry_and_recheck, its second half; then the listener starts.
Recheck ==
    /\ daemon.boot = "filled"
    /\ daemon' = [daemon EXCEPT !.boot = "up"]
    /\ IF daemon.stop THEN BeginRevokeAll
       ELSE UNCHANGED <<entry, closed, lock, gen>>
    /\ UNCHANGED bootOthers

StopRequested ==
    /\ ~daemon.stop
    /\ daemon' = [daemon EXCEPT !.stop = TRUE]
    /\ UNCHANGED <<regVars, gen, conn, wire, cmdVars, crashes>>

\* The stopping task looks at the cell exactly once.
StopCheck ==
    /\ daemon.stop /\ ~daemon.checked
    /\ daemon' = [daemon EXCEPT !.checked = TRUE]
    /\ IF daemon.boot = "hydrated" THEN UNCHANGED <<entry, closed, lock, gen>>
       ELSE BeginRevokeAll
    /\ UNCHANGED bootOthers

\* The process ends, after a shutdown or without one, and a new one hydrates
\* from the file. Names of connections and requests are not used again.
Crash ==
    /\ Arrives(2) /\ crashes' = crashes + 1
    /\ change' = NONE /\ closed' = FALSE /\ lock' = NONE
    /\ entry' = Hydrated(disk.rec)
    /\ gen' = [c \in Conns |-> IF gen[c] = "none" THEN "none" ELSE "revoked"]
    /\ conn' = [c \in Conns |-> IF conn[c].pc = "new" THEN conn[c]
                                ELSE [conn[c] EXCEPT !.pc = "done"]]
    /\ wire' = [c \in Conns |-> [wire[c] EXCEPT !.pending = {}, !.queue = <<>>]]
    /\ cmd' = [k \in Cmds |-> IF cmd[k].pc \in {"new", "done"} THEN cmd[k]
                              ELSE [cmd[k] EXCEPT !.pc = "done", !.ans = "gone"]]
    /\ inFlight' = [c \in Conns |-> 0]
    /\ daemon' = [boot |-> "hydrated", stop |-> FALSE, checked |-> FALSE]
    /\ UNCHANGED <<disk, minted, told, agreed>>

------------------------------------------------------------------------------
Change ==
    \/ \E m \in Manifests, r \in BOOLEAN : Register(m, r)
    \/ RevokeRecord
    \/ \E d \in BOOLEAN : SetDisabled(d)

Applied == OnChangeIdle \/ OnChangeRevoke \/ OnChangeClose

Handshake(c) ==
    \/ CheckClosed(c) \/ Lookup(c) \/ Note(c) \/ Refuse(c)
    \/ Commit(c) \/ Attach(c)

Teardown(c) == EndServe(c) \/ Release(c)

Call(k) == Send(k) \/ Finish(k) \/ TimeoutFires(k) \/ SendCancel(k)

Shutdown == Fill \/ Recheck \/ StopCheck \/ FinishRevokeAll

Next ==
    \/ Change \/ Applied \/ Shutdown \/ StopRequested \/ Crash
    \/ \E c \in Conns : \/ Connect(c) \/ Handshake(c) \/ Write(c)
                        \/ PeerLost(c) \/ Teardown(c)
    \/ \E k \in Cmds : \/ Declared(k) \/ Reserve(k) \/ Call(k)
                       \/ ModuleAnswers(k) \/ Gone(k)

Spec == Init /\ [][Next]_vars

------------------------------------------------------------------------------
(* Properties.                                                                *)

\* A generation that runs is the one in the slot of an entry that is open,
\* enabled, and still at the token and the manifest its module showed: a
\* rotation, a deletion, a disable or a shutdown between the pure check and the
\* commit, or after it, leaves none behind (attach_registry.rs, commit, on_change,
\* release and revoke_all).
RunningIsCurrent ==
    \A c \in Conns : gen[c] = "running" =>
        /\ ~closed /\ entry # NONE
        /\ entry.slot = c /\ entry.tok = conn[c].tok /\ entry.man = conn[c].man
        /\ ~entry.disabled

\* What is registered never has a capability, or remote models, that the host
\* did not agree to since it last agreed to less: revoking the name first, or
\* restarting in between, changes nothing (attached.rs, is_relax and the tombstone).
RelaxAgreed ==
    disk.rec # NONE => Facts[disk.rec.man] \subseteq agreed.facts

\* A module that has read its success frame and was not revoked can be sent
\* commands: the frame and the handle appear together, and no other connection's
\* handle replaces this one (attach_kernel_calls).
ToldMeansReady ==
    \A c \in Conns :
        gen[c] = "running" /\ Unlocked /\ Success \in wire[c].got =>
            entry.live = c

\* The module has read frame f, or will if the connection lives.
Carried(c, f) ==
    \/ f \in wire[c].got
    \/ \E i \in 1..Len(wire[c].queue) : wire[c].queue[i] = f

\* What the client is told about its command is what happened to the frame: a
\* refusal and a not_sent mean the module never saw it, now or later, and a
\* result means it did (attach_commands.rs, the answers of post_command).
AnswerHonest ==
    \A k \in Cmds, c \in Conns :
        /\ cmd[k].ans \in NoFrameSent => ~Carried(c, Req(k))
        /\ cmd[k].ans = "ok" /\ cmd[k].conn = c => Req(k) \in wire[c].got

\* A shutdown is not lost between the fill of the cell and the stopping task's
\* one look at it: once both are past, the registry is closed and nothing runs,
\* whichever came first (server.rs, the two sides of the cell).
StopCloses ==
    daemon.stop /\ daemon.checked /\ daemon.boot = "up" =>
        closed /\ \A c \in Conns : gen[c] # "running"

==============================================================================
