----------------------------- MODULE ModuleProxy -----------------------------
(* What happens to a proxied request between its admission and its answer     *)
(* (agent24-os-proto, proxy.rs: forward, exchange, Upstream, IdleConnections):*)
(* the permit, the client's body, the dispatch, a pooled or a fresh           *)
(* connection, the one retry of a safe request, and the return of the         *)
(* connection to the pool. Generations is the rest of the call and the        *)
(* discipline the slot's owner keeps (Supervisor keeps it).                   *)
EXTENDS Generations, Sequences

CONSTANTS
    Conns,      \* names of upstream connections
    NoConn,     \* no connection
    Bodiless,   \* requests without a body: their connection may be reused
    Safe,       \* bodiless requests with a safe method: retried once
    Others,     \* further requests, which may hold a permit all along
    Capacity,   \* MAX_INFLIGHT_PER_MODULE
    MaxIdle     \* MAX_IDLE_CONNECTIONS

ASSUME ProxyAssumption ==
    /\ NoConn \notin Conns /\ Bodiless \subseteq Reqs /\ Safe \subseteq Bodiless
    /\ Others \cap Reqs = {}
    /\ Capacity \in Nat \ {0} /\ MaxIdle \in Nat

VARIABLES
    px,       \* px[r]: where forward is, its connection, attempt and result
    conn,     \* conn[c]: a connection to the module, and its driver task
    permits,  \* the semaphore's permits that are out
    seen      \* seen[r]: the runs that received r, oldest first

pvars == <<px, conn, permits, seen>>
vars == <<gvars, pvars>>

Closed == [st |-> "none", gen |-> NoGen, idle |-> FALSE, pooled |-> FALSE, driver |-> "racing"]
Idle == [at |-> "none", conn |-> NoConn, try |-> 1, res |-> "none"]

Steps == {"none", "permit", "body", "dispatch", "take", "reused", "connect", "guard",
          "fresh", "again", "read", "mark", "check", "push", "over"}
Results == {"none", "ok", "overloaded", "client_body", "stopping", "unreached",
            "maybe_sent", "timeout", "bad_answer"}

TypeOK ==
    /\ GTypeOK
    /\ px \in [Reqs -> [at : Steps, conn : Conns \cup {NoConn}, try : 1..2, res : Results]]
    /\ conn \in [Conns -> [st : {"none", "open", "closed"}, gen : Gens \cup {NoGen},
                           idle : BOOLEAN, pooled : BOOLEAN,
                           driver : {"racing", "finishing"}]]
    /\ permits \subseteq Reqs \cup Others
    /\ \A r \in Reqs : Len(seen[r]) <= 2

Init ==
    /\ GInit
    /\ px = [r \in Reqs |-> Idle]
    /\ conn = [c \in Conns |-> Closed]
    /\ permits \in SUBSET Others
    /\ seen = [r \in Reqs |-> <<>>]

------------------------------------------------------------------------------
At(r, p) == px[r].at = p
To(r, p) == px' = [px EXCEPT ![r].at = p]

\* forward returns: its connection, if it still has one, is dropped with it, and
\* so is the permit unless it rides with the bytes of the response.
Returns(r, res) ==
    /\ px' = [px EXCEPT ![r] = [Idle EXCEPT !.at = "over", !.res = res]]
    /\ req' = [req EXCEPT ![r].result = IF res = "ok" THEN "ok" ELSE "error"]
    /\ conn' = [c \in Conns |-> IF c = px[r].conn /\ ~conn[c].pooled THEN Closed ELSE conn[c]]
    /\ permits' = IF res = "ok" THEN permits ELSE permits \ {r}
    /\ UNCHANGED <<gen, slot>>

Deliver(r) == seen' = [seen EXCEPT ![r] = Append(@, conn[px[r].conn].gen)]

Ahead(r, p) == To(r, p) /\ UNCHANGED <<gvars, conn, permits, seen>>

------------------------------------------------------------------------------
(* forward. *)

\* The proxy call up to its admission (Generations), and into forward.
Enter(r) ==
    /\ ProxyAdmit(r)
    /\ To(r, "permit")
    /\ UNCHANGED <<conn, permits, seen>>

\* try_acquire_owned: refused rather than queued.
TakePermit(r) ==
    /\ At(r, "permit") /\ Cardinality(permits) < Capacity
    /\ permits' = permits \cup {r}
    /\ To(r, "body")
    /\ UNCHANGED <<gvars, conn, seen>>

Overloaded(r) ==
    /\ At(r, "permit") /\ Cardinality(permits) >= Capacity
    /\ Returns(r, "overloaded")
    /\ UNCHANGED seen

\* A mutant: the request is sent without the dispatch.
ReadBodyAndSend(r) ==
    /\ At(r, "body")
    /\ \/ Ahead(r, "take")
       \/ Returns(r, "client_body") /\ UNCHANGED seen

ReadBody(r) ==
    /\ At(r, "body")
    /\ \/ Ahead(r, "dispatch")
       \/ Returns(r, "client_body") /\ UNCHANGED seen

Dispatch(r) ==
    /\ At(r, "dispatch")
    /\ ProxyDispatch(r)
    /\ To(r, "take")
    /\ UNCHANGED <<conn, permits, seen>>

DispatchRefused(r) ==
    /\ At(r, "dispatch") /\ ~MayDispatch(r)
    /\ Returns(r, "stopping")
    /\ UNCHANGED seen

\* What the pool keeps: connections that are open, of a run not revoked and not
\* too old. (Age is an event: any pooled connection may be dropped here.)
Kept(old) == {c \in Conns : /\ conn[c].pooled /\ conn[c].st = "open" /\ c \notin old
                            /\ gen[conn[c].gen].state # "revoked"}

\* A mutant: a connection of whichever run is ready will do.
OwnAny(r, kept) == kept

\* Only a connection of the request's own run.
Own(r, kept) == {c \in kept : conn[c].gen = req[r].gen}

\* IdleConnections::take.
TakeIdle(r) ==
    /\ At(r, "take")
    /\ \E old \in SUBSET {c \in Conns : conn[c].pooled} :
        LET kept == Kept(old)
            swept == [c \in Conns |-> IF conn[c].pooled /\ c \notin kept
                                      THEN Closed ELSE conn[c]]
        IN  IF Own(r, kept) = {}
            THEN /\ conn' = swept
                 /\ To(r, "connect")
            ELSE \E c \in Own(r, kept) :
                 /\ conn' = [swept EXCEPT ![c].pooled = FALSE, ![c].idle = FALSE]
                 /\ px' = [px EXCEPT ![r].at = "reused", ![r].conn = c]
    /\ UNCHANGED <<gvars, permits, seen>>

\* try_send_request on the pooled connection: answered; closed before hyper
\* took the request, which it hands back; or closed after, perhaps delivered.
SendReused(r) ==
    /\ At(r, "reused")
    /\ UNCHANGED <<gvars, permits>>
    /\ \/ /\ conn[px[r].conn].st = "open"
          /\ Deliver(r) /\ To(r, "read") /\ UNCHANGED conn
       \/ /\ conn' = [conn EXCEPT ![px[r].conn] = Closed]
          /\ px' = [px EXCEPT ![r].at = "connect", ![r].conn = NoConn]
          /\ UNCHANGED seen
       \/ /\ conn' = [conn EXCEPT ![px[r].conn] = Closed]
          /\ px' = [px EXCEPT ![r].at = "again", ![r].conn = NoConn]
          /\ Deliver(r) \/ UNCHANGED seen

FreeConn == {c \in Conns : conn[c].st = "none" /\ \A r \in Reqs : px[r].conn # c}

\* Upstream::connect; on the retry the caller may withdraw before the send.
Connect(r) ==
    /\ At(r, "connect")
    /\ \E c \in FreeConn :
        /\ conn' = [conn EXCEPT ![c] = [Closed EXCEPT !.st = "open", !.gen = req[r].gen]]
        /\ px' = [px EXCEPT ![r].conn = c,
                            ![r].at = IF px[r].try = 2 THEN "guard" ELSE "fresh"]
    /\ UNCHANGED <<gvars, permits, seen>>

\* A mutant: the retry's own failure is reported.
FailureOfRetry(r, first) == first

\* "Once maybe sent, always maybe sent": what a failed attempt is reported as.
Failure(r, first) == IF px[r].try = 2 THEN "maybe_sent" ELSE first

ConnectFails(r) ==
    /\ At(r, "connect")
    /\ Returns(r, Failure(r, "unreached"))
    /\ UNCHANGED seen

\* The send guard of the retry: dispatch once more.
Guard(r) ==
    /\ At(r, "guard")
    /\ IF MayDispatch(r) THEN Ahead(r, "fresh")
       ELSE Returns(r, "maybe_sent") /\ UNCHANGED seen

SendFresh(r) ==
    /\ At(r, "fresh")
    /\ \/ /\ conn[px[r].conn].st = "open"
          /\ Deliver(r) /\ To(r, "read")
          /\ UNCHANGED <<gvars, conn, permits>>
       \/ /\ px[r].try = 1
          /\ Deliver(r) \/ UNCHANGED seen
          /\ px' = [px EXCEPT ![r].at = "again", ![r].conn = NoConn]
          /\ conn' = [conn EXCEPT ![px[r].conn] = Closed]
          /\ UNCHANGED <<gvars, permits>>
       \/ /\ px[r].try = 2
          /\ Deliver(r) \/ UNCHANGED seen
          /\ Returns(r, "maybe_sent")

Retriable(r) == r \in Safe

\* An ambiguous first send: the one retry, on a fresh connection, or a report.
Again(r) ==
    /\ At(r, "again")
    /\ IF Retriable(r) /\ MayDispatch(r)
       THEN /\ px' = [px EXCEPT ![r].at = "connect", ![r].try = 2]
            /\ UNCHANGED <<gvars, conn, permits, seen>>
       ELSE Returns(r, "maybe_sent") /\ UNCHANGED seen

\* The head deadline: it may pass while the exchange is anywhere. What is on its
\* way may still be delivered.
HeadTimeout(r) ==
    /\ px[r].at \in {"take", "reused", "connect", "guard", "fresh"}
    /\ Returns(r, Failure(r, "timeout"))
    /\ \/ UNCHANGED seen
       \/ px[r].at \in {"reused", "fresh"} /\ Deliver(r)

\* The answer's head is refused, or its body is too large, late or cut short.
BadAnswer(r) ==
    /\ At(r, "read")
    /\ Returns(r, "bad_answer")
    /\ UNCHANGED seen

\* The answer was read; only a bodiless request's connection may be kept.
ReadAnswer(r) ==
    /\ At(r, "read")
    /\ \/ r \in Bodiless /\ Ahead(r, "mark")
       \/ Returns(r, "ok") /\ UNCHANGED seen

\* IdleConnections::put: marked idle first ...
MarkIdle(r) ==
    /\ At(r, "mark")
    /\ conn' = [conn EXCEPT ![px[r].conn].idle = TRUE]
    /\ To(r, "check")
    /\ UNCHANGED <<gvars, permits, seen>>

\* A mutant: pushed without the check.
CheckSkipped(r) ==
    /\ At(r, "check")
    /\ Ahead(r, "push")

\* ... then checked ...
CheckRevoked(r) ==
    /\ At(r, "check")
    /\ IF gen[conn[px[r].conn].gen].state = "revoked"
       THEN Returns(r, "ok") /\ UNCHANGED seen
       ELSE Ahead(r, "push")

\* ... then pushed, if there is room.
Push(r) ==
    LET room == Cardinality({c \in Conns : conn[c].pooled}) < MaxIdle
        c == px[r].conn
    IN  /\ At(r, "push")
        /\ px' = [px EXCEPT ![r] = [Idle EXCEPT !.at = "over", !.res = "ok"]]
        /\ req' = [req EXCEPT ![r].result = "ok"]
        /\ conn' = [conn EXCEPT ![c] = IF room THEN [@ EXCEPT !.pooled = TRUE] ELSE Closed]
        /\ UNCHANGED <<gen, slot, permits, seen>>

\* The select ended by forward or by the revocation, or the client went away: a
\* forward that has not returned is dropped with its permit and connection. The
\* permit of an answer that is passed on stays out until its bytes are gone.
Leave(r) ==
    /\ ProxyFinish(r) \/ ProxyDrop(r)
    /\ px' = [px EXCEPT ![r] = [Idle EXCEPT !.at = "over", !.res = px[r].res]]
    /\ conn' = [c \in Conns |-> IF c = px[r].conn THEN Closed ELSE conn[c]]
    /\ permits' = IF req'[r].ans = "ok" THEN permits ELSE permits \ {r}
    /\ \/ UNCHANGED seen
       \/ px[r].at \in {"reused", "fresh"} /\ Deliver(r)

\* The last clone of the response's bytes is dropped.
BytesGone(r) ==
    /\ req[r].pc = "done" /\ r \in permits
    /\ permits' = permits \ {r}
    /\ UNCHANGED <<gvars, px, conn, seen>>

------------------------------------------------------------------------------
(* A connection's driver task, and the module's end of it (external). *)

\* The driver wakes on the revocation: an idle connection ends now, one in use
\* finishes its exchange.
DriverWakes(c) ==
    /\ conn[c].st = "open" /\ conn[c].driver = "racing"
    /\ gen[conn[c].gen].state = "revoked"
    /\ conn' = [conn EXCEPT ![c] = IF conn[c].idle
                                   THEN [@ EXCEPT !.st = "closed"]
                                   ELSE [@ EXCEPT !.driver = "finishing"]]
    /\ UNCHANGED <<gvars, px, permits, seen>>

ModuleCloses(c) ==
    /\ conn[c].st = "open"
    /\ conn' = [conn EXCEPT ![c].st = "closed"]
    /\ UNCHANGED <<gvars, px, permits, seen>>

------------------------------------------------------------------------------
\* A generation whose name a connection still bears is not recycled.
OwnerMoves ==
    /\ OwnerStep
    /\ \A c \in Conns : conn[c].st # "none" => gen'[conn[c].gen].kind # "none"
          /\ (gen'[conn[c].gen].state = "starting" => gen[conn[c].gen].state = "starting")
    /\ UNCHANGED pvars

Forward(r) ==
    \/ TakePermit(r) \/ Overloaded(r) \/ ReadBody(r) \/ Dispatch(r) \/ DispatchRefused(r)
    \/ TakeIdle(r) \/ SendReused(r) \/ Connect(r) \/ ConnectFails(r) \/ Guard(r)
    \/ SendFresh(r) \/ Again(r) \/ HeadTimeout(r) \/ BadAnswer(r) \/ ReadAnswer(r)
    \/ MarkIdle(r) \/ CheckRevoked(r) \/ Push(r)

Next ==
    \/ \E r \in Reqs :
        \/ (ProxyGet(r) \/ ProxyRefused(r)) /\ UNCHANGED pvars
        \/ Enter(r) \/ Forward(r) \/ Leave(r) \/ BytesGone(r)
    \/ \E c \in Conns : DriverWakes(c) \/ ModuleCloses(c)
    \/ OwnerMoves

Spec == Init /\ [][Next]_vars

------------------------------------------------------------------------------
(* Properties. *)

\* A request reaches only the run it was admitted into, only after its dispatch,
\* and more than once only if it is safe to repeat (exchange, forward).
SentRight ==
    \A r \in Reqs :
        /\ \A i \in 1..Len(seen[r]) : seen[r][i] = req[r].gen
        /\ Len(seen[r]) > 0 => req[r].left
        /\ Len(seen[r]) > 1 => r \in Safe

\* An answer that says or implies that the module never saw the request is true,
\* across pooled connections, the retry, deadlines and the revocation; and a
\* success was really answered by the module (ExchangeError, maybe_sent_response).
AnswerHonest ==
    \A r \in Reqs : req[r].pc = "done" =>
        /\ req[r].ans \in {"not_ready", "draining", "stopping"} => seen[r] = <<>>
        /\ req[r].ans = "error" /\ px[r].res \in {"overloaded", "client_body", "unreached"} =>
              seen[r] = <<>>
        /\ req[r].ans = "ok" => seen[r] # <<>>

\* No idle connection to a revoked run is left for good: its driver has yet to
\* see the revocation, whatever the order of the mark, the check, the push and
\* the driver's one wake-up. A stopping module never waits for the kernel's
\* pool (Upstream, IdleConnections::put).
NoIdleLeft ==
    \A c \in Conns :
        conn[c].st = "open" /\ conn[c].pooled /\ gen[conn[c].gen].state = "revoked" =>
            conn[c].driver = "racing"
==============================================================================
