---------------------------- MODULE Generations ----------------------------
(* One run of an installed module is a GENERATION (agent24-os-proto,          *)
(* drain.rs): a small state machine behind one mutex that admits proxied      *)
(* requests, callbacks and approval callbacks, drains, and is revoked once.   *)
(* `Current` is the slot the proxy reads the generation from. This module is  *)
(* what a generation and the outer half of the proxy (proxy.rs, `proxy`) do,  *)
(* and the discipline the slot's owner keeps; Supervisor implements that      *)
(* discipline and ModuleProxy refines what happens to a request in between.   *)
(*                                                                            *)
(* Generation names are recycled once nothing refers to them.                 *)
EXTENDS Naturals, FiniteSets

CONSTANTS
    Gens,     \* names of generations, a nonempty set of numbers
    Reqs,     \* proxied requests; a request id is never minted twice
    NoGen     \* no generation

ASSUME GensAssumption == Gens # {} /\ Gens \subseteq Nat /\ NoGen \notin Gens

VARIABLES
    gen,      \* gen[g]: what the generation's mutex guards, and its kind
    slot,     \* the generation in Current
    req       \* req[r]: the proxy call of request r

gvars == <<gen, slot, req>>

Kinds == {"none", "placeholder", "process"}
States == {"starting", "running", "draining", "revoked"}
Answers == {"none", "ok", "error", "not_ready", "draining", "stopping", "unknown"}

Generation(k) ==
    [kind |-> k, state |-> "starting", inFlight |-> {}, dispatched |-> {},
     used |-> {}]

NewReq == [pc |-> "new", gen |-> NoGen, ans |-> "none", listed |-> "no",
           result |-> "none", left |-> FALSE]

GTypeOK ==
    /\ gen \in [Gens -> [kind : Kinds, state : States, inFlight : SUBSET Reqs,
                         dispatched : SUBSET Reqs, used : SUBSET Reqs]]
    /\ slot \in Gens
    /\ req \in [Reqs -> [pc : {"new", "got", "flying", "sent", "done"},
                         gen : Gens \cup {NoGen}, ans : Answers,
                         listed : {"no", "abandoned", "never_sent"},
                         result : {"none", "ok", "error"}, left : BOOLEAN]]

\* Current::new with a generation that was never started.
GInit ==
    /\ slot = CHOOSE g \in Gens : \A h \in Gens : g <= h
    /\ gen = [g \in Gens |-> Generation(IF g = slot THEN "placeholder" ELSE "none")]
    /\ req = [r \in Reqs |-> NewReq]

------------------------------------------------------------------------------
(* The operations on one generation. *)

\* ready: only a generation with an address, and only out of Starting.
CanReady(g) == gen[g].kind = "process" /\ gen[g].state = "starting"

Readied(g) == [gen EXCEPT ![g].state = "running"]

CanDrain(g) == gen[g].state = "running"

\* begin_drain: the first call sets the deadline, later ones find Draining.
Drained(g) == [gen EXCEPT ![g].state = "draining"]

RevokedIn(gs, g) == [gs EXCEPT ![g].state = "revoked"]

\* revoke: the requests in flight are listed, once, as sent or never sent.
Listed(g) ==
    [r \in Reqs |->
        IF gen[g].state # "revoked" /\ r \in gen[g].inFlight
        THEN [req[r] EXCEPT !.listed =
                IF r \in gen[g].dispatched THEN "abandoned" ELSE "never_sent"]
        ELSE req[r]]

Revoke(g) ==
    /\ gen' = RevokedIn(gen, g)
    /\ req' = Listed(g)

\* A generation's name is free when neither the slot nor a call refers to it.
Free(g) ==
    /\ g # slot
    /\ \A r \in Reqs : req[r].gen = g => req[r].pc \in {"new", "done"}

------------------------------------------------------------------------------
(* The proxy: get the slot's generation, be admitted, send, finish. *)

\* proxy: the path was judged and the ids minted; `state.module.get()`.
ProxyGet(r) ==
    /\ req[r].pc = "new"
    /\ req' = [req EXCEPT ![r].pc = "got", ![r].gen = slot]
    /\ UNCHANGED <<gen, slot>>

\* admit_request's refusals, one code each.
Refusal(g) ==
    CASE gen[g].state = "starting" -> "not_ready"
      [] gen[g].state = "draining" -> "draining"
      [] gen[g].state = "revoked" -> "stopping"
      [] OTHER -> "none"

ProxyRefused(r) ==
    /\ req[r].pc = "got"
    /\ Refusal(req[r].gen) # "none"
    /\ req' = [req EXCEPT ![r].pc = "done", ![r].ans = Refusal(req[r].gen)]
    /\ UNCHANGED <<gen, slot>>

ProxyAdmit(r) ==
    /\ req[r].pc = "got"
    /\ Refusal(req[r].gen) = "none"
    /\ gen' = [gen EXCEPT ![req[r].gen].inFlight = @ \cup {r}]
    /\ req' = [req EXCEPT ![r].pc = "flying"]
    /\ UNCHANGED slot

\* dispatch: from here on the module may act on the request.
MayDispatch(r) == gen[req[r].gen].state # "revoked"

ProxyDispatch(r) ==
    /\ req[r].pc = "flying"
    /\ MayDispatch(r)
    /\ gen' = [gen EXCEPT ![req[r].gen].dispatched = @ \cup {r}]
    /\ req' = [req EXCEPT ![r].pc = "sent", ![r].left = TRUE]
    /\ UNCHANGED slot

Removed(r) == [gen EXCEPT ![req[r].gen].inFlight = @ \ {r},
                          ![req[r].gen].dispatched = @ \ {r}]

\* finish: leave the set and read the state under one lock. What the client
\* is told when forward produced `result`, or was cut by the revocation.
Outcome(r, result) ==
    IF gen[req[r].gen].state # "revoked" THEN result
    ELSE IF r \in gen[req[r].gen].dispatched THEN "unknown" ELSE "stopping"

\* forward returned; finish has not run yet.
ProxyResult(r) ==
    /\ req[r].pc \in {"flying", "sent"}
    /\ req[r].result = "none"
    /\ \E x \in {"ok", "error"} :
          /\ x = "ok" => req[r].pc = "sent"
          /\ req' = [req EXCEPT ![r].result = x]
    /\ UNCHANGED <<gen, slot>>

\* The select ended: by forward, or by the revocation.
ProxyFinish(r) ==
    /\ req[r].pc \in {"flying", "sent"}
    /\ req[r].result # "none" \/ gen[req[r].gen].state = "revoked"
    /\ gen' = Removed(r)
    /\ req' = [req EXCEPT ![r].pc = "done", ![r].ans = Outcome(r, req[r].result)]
    /\ UNCHANGED slot

\* InFlight::drop: the client went away and the call's future was dropped.
ProxyDrop(r) ==
    /\ req[r].pc \in {"flying", "sent"}
    /\ gen' = Removed(r)
    /\ req' = [req EXCEPT ![r].pc = "done"]
    /\ UNCHANGED slot

\* admit_approval_callback: the token of a request in flight, at most once.
ApprovalCallback(r) ==
    LET g == req[r].gen IN
    /\ req[r].pc = "sent"
    /\ gen[g].state \in {"running", "draining"}
    /\ r \in gen[g].inFlight \ gen[g].used
    /\ gen' = [gen EXCEPT ![g].used = @ \cup {r}]
    /\ UNCHANGED <<slot, req>>

ProxyStep ==
    \E r \in Reqs :
        \/ ProxyGet(r) \/ ProxyRefused(r) \/ ProxyAdmit(r) \/ ProxyDispatch(r)
        \/ ProxyResult(r) \/ ProxyFinish(r) \/ ProxyDrop(r) \/ ApprovalCallback(r)

------------------------------------------------------------------------------
(* The discipline of the slot's owner: what the proxy may rely on. *)

\* The generation in the slot can no longer be serving.
Replaceable == gen[slot].kind = "placeholder" \/ gen[slot].state = "revoked"

OwnerInstallsPlaceholder(g) ==
    /\ Free(g) /\ Replaceable
    /\ gen' = [gen EXCEPT ![g] = Generation("placeholder")]
    /\ slot' = g
    /\ UNCHANGED req

\* A run is spawned only once every earlier one is revoked.
OwnerSpawns(g) ==
    /\ Free(g)
    /\ \A h \in Gens : gen[h].kind = "process" => gen[h].state = "revoked"
    /\ gen' = [gen EXCEPT ![g] = Generation("process")]
    /\ UNCHANGED <<slot, req>>

OwnerInstalls(g) ==
    /\ Replaceable
    /\ CanReady(g)
    /\ slot' = g
    /\ UNCHANGED <<gen, req>>

\* Only the generation in the slot becomes ready.
OwnerReadies(g) ==
    /\ g = slot /\ CanReady(g)
    /\ gen' = Readied(g)
    /\ UNCHANGED <<slot, req>>

OwnerDrains(g) ==
    /\ CanDrain(g)
    /\ gen' = Drained(g)
    /\ UNCHANGED <<slot, req>>

OwnerRevokes(g) ==
    /\ gen[g].kind # "none" /\ gen[g].state # "revoked"
    /\ Revoke(g)
    /\ UNCHANGED slot

OwnerStep ==
    \E g \in Gens :
        \/ OwnerInstallsPlaceholder(g) \/ OwnerSpawns(g) \/ OwnerInstalls(g)
        \/ OwnerReadies(g) \/ OwnerDrains(g) \/ OwnerRevokes(g)

GNext == ProxyStep \/ OwnerStep

\* The owner of a slot replaces only a generation that cannot be serving, spawns
\* a run only when the ones before it are revoked, and makes ready only the
\* generation in the slot (drain.rs Current, supervisor.rs Slot and run_loop).
GSpec == GInit /\ [][GNext]_gvars

------------------------------------------------------------------------------
(* Properties. *)

==============================================================================
