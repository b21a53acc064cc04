-------------------------- MODULE ModuleApprovals --------------------------
(* Approvals an out-of-process module asks for: the submission handler       *)
(* (approval_callback.rs), the broker and its periodic scan                   *)
(* (module_approval_broker.rs), the rows (store, module_approvals.rs) and the *)
(* one-time token of the forwarded request (os-proto, drain.rs). One module;  *)
(* a row is named by its request and kind, its unique key.                    *)
EXTENDS Naturals, Sequences, FiniteSets

CONSTANTS
    Reqs,      \* requests forwarded to the module, each with its own token
    Subs,      \* calls of gate or advise, numbered as they arrive
    Kinds,     \* the kinds submitted: "gate", "advise" or both
    Targets,   \* targets a gate names, in parts of a second
    Parts,     \* parts of a second a target may name
    Deciders,  \* PATCH requests of the operator, numbered as they arrive
    NONE,
    TTL,       \* MODULE_APPROVAL_TTL_SECS
    MaxTime,   \* bound: seconds
    MaxLoad,   \* bound: submissions and decisions together
    MaxTroubles \* bound: store errors and daemon crashes together

Decisions == {"pending", "approved", "denied", "timed_out"}
Row == [decision : Decisions, target : Nat \cup {NONE}, exp : Nat,
        decided : Nat \cup {NONE}, executed : Nat \cup {NONE}]

ASSUME ApprovalsAssumption ==
    /\ Kinds \subseteq {"gate", "advise"} /\ Targets \subseteq Nat
    /\ Parts \in Nat \ {0} /\ TTL \in Nat
    /\ MaxTime \in Nat /\ MaxLoad \in Nat /\ MaxTroubles \in Nat
    /\ Subs \subseteq Nat /\ Deciders \subseteq Nat /\ NONE \notin Nat \cup Row

VARIABLES
    time,     \* the wall clock, in seconds
    req,      \* req[r]: the forwarded request and its token
    revoked,  \* the module's generation is revoked
    rows,     \* rows[k]: the row of key k, or NONE
    sub,      \* sub[s]: one submission
    write,    \* write[s]: its INSERT, in the hands of SQLite or settled
    announced,\* the deduper: keys whose module-approval.required was sent
    resolved, \* history: module-approval.resolved, per key
    dec,      \* dec[d]: one decision
    scan,     \* the scan's step and the time it read
    troubles

vars == <<time, req, revoked, rows, sub, write, announced, resolved,
          dec, scan, troubles>>

Keys == Reqs \X Kinds
Key(s) == <<sub[s].req, sub[s].kind>>

SubAnswers == {"none", "ok", "invalid", "token_invalid", "revoked",
               "timeout", "unavailable", "lost"}
NewSub == [pc |-> "new", req |-> NONE, kind |-> NONE, target |-> NONE,
           exp |-> NONE, ans |-> "none"]
NewDec == [pc |-> "new", key |-> NONE, to |-> NONE, now |-> NONE]

SubRecord == [pc : {"new", "find", "bind", "token", "inserting", "fallback", "done"},
              req : Reqs \cup {NONE}, kind : Kinds \cup {NONE},
              target : Nat \cup {NONE}, exp : Nat \cup {NONE}, ans : SubAnswers]
DecRecord == [pc : {"new", "cas", "told", "done"}, key : Keys \cup {NONE},
              to : {"approved", "denied", NONE}, now : Nat \cup {NONE}]

TypeOK ==
    /\ time \in 0..MaxTime
    /\ req \in [Reqs -> [st : {"new", "inflight", "ended"}, used : BOOLEAN]]
    /\ revoked \in BOOLEAN
    /\ rows \in [Keys -> Row \cup {NONE}]
    /\ sub \in [Subs -> SubRecord]
    /\ write \in [Subs -> {"none", "queued", "committed", "failed"}]
    /\ announced \subseteq Keys
    /\ resolved \in [Keys -> Seq(Decisions)]
    /\ dec \in [Deciders -> DecRecord]
    /\ scan \in [pc : {"idle", "expire", "execute"}, now : 0..MaxTime]
    /\ troubles \in 0..MaxTroubles

Init ==
    /\ time = 0 /\ revoked = FALSE
    /\ req = [r \in Reqs |-> [st |-> "new", used |-> FALSE]]
    /\ rows = [k \in Keys |-> NONE]
    /\ sub = [s \in Subs |-> NewSub]
    /\ write = [s \in Subs |-> "none"]
    /\ announced = {}
    /\ resolved = [k \in Keys |-> <<>>]
    /\ dec = [d \in Deciders |-> NewDec]
    /\ scan = [pc |-> "idle", now |-> 0]
    /\ troubles = 0

\* The call has not started, the ones before it have, and there is room for it.
Arrives(n, calls) ==
    /\ calls[n].pc = "new" /\ \A m \in DOMAIN calls : m < n => calls[m].pc # "new"
    /\ Cardinality({s \in Subs : sub[s].pc # "new"})
       + Cardinality({d \in Deciders : dec[d].pc # "new"}) < MaxLoad

Advance(s, pc) == sub' = [sub EXCEPT ![s].pc = pc]
Reply(s, a) == sub' = [sub EXCEPT ![s].pc = "done", ![s].ans = a]
Trouble == troubles < MaxTroubles /\ troubles' = troubles + 1

OldDec == [NewDec EXCEPT !.pc = "done"]
Decided(d) == dec' = [dec EXCEPT ![d] = OldDec]

others == <<time, req, revoked, rows, write, announced, resolved,
            dec, scan>>

------------------------------------------------------------------------------
(* The forwarded requests. Draining only stops new ones, as not forwarding    *)
(* does, and answers an unknown request as running does.                      *)

Forward(r) ==
    /\ req[r].st = "new" /\ ~revoked
    /\ req' = [req EXCEPT ![r].st = "inflight"]
    /\ UNCHANGED <<time, revoked, rows, sub, write, announced, resolved, dec, scan, troubles>>

EndRequest(r) ==
    /\ req[r].st = "inflight"
    /\ req' = [req EXCEPT ![r].st = "ended"]
    /\ UNCHANGED <<time, revoked, rows, sub, write, announced, resolved, dec, scan, troubles>>

Revoke ==
    /\ ~revoked /\ revoked' = TRUE
    /\ UNCHANGED <<time, req, rows, sub, write, announced, resolved,
                   dec, scan, troubles>>

------------------------------------------------------------------------------
(* ApprovalSubmitHandler::call.                                               *)

\* canonicalize_schedule_target: the fraction is dropped.
Canonical(t) == t \div Parts

\* The closed set and the target are checked before anything else. NONE is a
\* target, or an action, that is not accepted.
Submit(s) ==
    /\ Arrives(s, sub)
    /\ \E r \in Reqs, kind \in Kinds, t \in Targets \cup {NONE} :
          /\ req[r].st # "new" /\ (kind = "advise" => t = NONE)
          /\ sub' = [sub EXCEPT ![s] =
                IF kind = "gate" /\ t = NONE
                THEN [@ EXCEPT !.pc = "done", !.ans = "invalid",
                               !.req = r, !.kind = kind]
                ELSE [@ EXCEPT !.pc = "find", !.req = r, !.kind = kind,
                               !.target = IF kind = "gate" THEN Canonical(t)
                                          ELSE NONE]]
    /\ UNCHANGED <<others, troubles>>

FindExisting(s) ==
    /\ sub[s].pc = "find"
    /\ IF rows[Key(s)] # NONE THEN Reply(s, "ok") ELSE Advance(s, "bind")
    /\ UNCHANGED <<others, troubles>>

FindFails(s) ==
    /\ sub[s].pc = "find" /\ Trouble
    /\ Reply(s, "unavailable")
    /\ UNCHANGED others

\* admit_callback_bound: the request's lifecycle, or a refusal.
Bind(s) ==
    /\ sub[s].pc = "bind"
    /\ IF revoked THEN Reply(s, "revoked")
       ELSE IF req[sub[s].req].st # "inflight" THEN Reply(s, "token_invalid")
       ELSE Advance(s, "token")
    /\ UNCHANGED <<others, troubles>>

\* A mutant: the token is marked used once the row is in.
TakeTokenUnmarked(s) ==
    /\ sub[s].pc = "token"
    /\ IF revoked THEN Reply(s, "revoked") /\ UNCHANGED write
       ELSE IF req[sub[s].req].st # "inflight" \/ req[sub[s].req].used
       THEN Reply(s, "token_invalid") /\ UNCHANGED write
       ELSE /\ sub' = [sub EXCEPT ![s].pc = "inserting", ![s].exp = time + TTL]
            /\ write' = [write EXCEPT ![s] = "queued"]
    /\ UNCHANGED <<time, req, revoked, rows, announced, resolved, dec,
                   scan, troubles>>

\* admit_approval_callback checks and consumes the token in one step, and the
\* INSERT is on its way before the handler next waits.
TakeToken(s) ==
    /\ sub[s].pc = "token"
    /\ IF revoked THEN Reply(s, "revoked") /\ UNCHANGED <<req, write>>
       ELSE IF req[sub[s].req].st # "inflight" \/ req[sub[s].req].used
       THEN Reply(s, "token_invalid") /\ UNCHANGED <<req, write>>
       ELSE /\ req' = [req EXCEPT ![sub[s].req].used = TRUE]
            /\ sub' = [sub EXCEPT ![s].pc = "inserting", ![s].exp = time + TTL]
            /\ write' = [write EXCEPT ![s] = "queued"]
    /\ UNCHANGED <<time, revoked, rows, announced, resolved, dec,
                   scan, troubles>>

\* SQLite runs the statement it was handed, whether or not anyone still waits.
StoreCommits(s) ==
    /\ write[s] = "queued"
    /\ IF rows[Key(s)] = NONE
       THEN /\ write' = [write EXCEPT ![s] = "committed"]
            /\ rows' = [rows EXCEPT ![Key(s)] =
                  [decision |-> "pending", target |-> sub[s].target,
                   exp |-> sub[s].exp, decided |-> NONE, executed |-> NONE]]
       ELSE write' = [write EXCEPT ![s] = "failed"] /\ UNCHANGED rows
    /\ UNCHANGED <<time, req, revoked, sub, announced, resolved, dec,
                   scan, troubles>>

StoreFails(s) ==
    /\ write[s] = "queued" /\ Trouble
    /\ write' = [write EXCEPT ![s] = "failed"]
    /\ UNCHANGED <<time, req, revoked, rows, sub, announced, resolved,
                   dec, scan>>

\* announce_required, once per id.
Announce(k) == announced' = announced \cup {k}

InsertReturns(s) ==
    /\ sub[s].pc = "inserting" /\ write[s] \in {"committed", "failed"}
    /\ IF write[s] = "committed"
       THEN Announce(Key(s)) /\ Reply(s, "ok")
       ELSE Reply(s, "unavailable") /\ UNCHANGED announced
    /\ UNCHANGED <<time, req, revoked, rows, write, resolved, dec, scan, troubles>>

\* bind_to_lifecycle: the request ended, or its budget ran out. The future is
\* dropped; the statement it sent is not.
Cancelled(s) ==
    /\ sub[s].pc = "inserting"
    /\ Advance(s, "fallback")
    /\ UNCHANGED <<others, troubles>>

\* announce_existing_required, after the cancellation.
Fallback(s) ==
    /\ sub[s].pc = "fallback"
    /\ IF rows[Key(s)] # NONE
       THEN Announce(Key(s)) /\ Reply(s, "ok")
       ELSE Reply(s, "timeout") /\ UNCHANGED announced
    /\ UNCHANGED <<time, req, revoked, rows, write, resolved, dec, scan, troubles>>

FallbackFails(s) ==
    /\ sub[s].pc = "fallback" /\ Trouble
    /\ Reply(s, "unavailable")
    /\ UNCHANGED others

------------------------------------------------------------------------------
(* The operator's decision.                                                   *)

\* The clock is read before the statement runs.
BeginDecide(d) ==
    /\ Arrives(d, dec)
    /\ \E k \in Keys, to \in {"approved", "denied"} :
          /\ rows[k] # NONE
          /\ dec' = [dec EXCEPT ![d] = [pc |-> "cas", key |-> k, to |-> to,
                                        now |-> time]]
    /\ UNCHANGED <<time, req, revoked, rows, sub, write, announced, resolved, scan, troubles>>

Decidable(d) ==
    /\ rows[dec[d].key].decision = "pending"
    /\ rows[dec[d].key].exp >= dec[d].now

\* A mutant: the event is sent whether or not the statement took.
DecideCasTold(d) ==
    /\ dec[d].pc = "cas"
    /\ rows' = IF Decidable(d)
               THEN [rows EXCEPT ![dec[d].key].decision = dec[d].to,
                                 ![dec[d].key].decided = dec[d].now]
               ELSE rows
    /\ dec' = [dec EXCEPT ![d].pc = "told"]
    /\ UNCHANGED <<time, req, revoked, sub, write, announced, resolved,
                   scan, troubles>>

\* decide_module_approval: one statement, or a conflict.
DecideCas(d) ==
    /\ dec[d].pc = "cas"
    /\ IF Decidable(d)
       THEN /\ rows' = [rows EXCEPT ![dec[d].key].decision = dec[d].to,
                                    ![dec[d].key].decided = dec[d].now]
            /\ dec' = [dec EXCEPT ![d].pc = "told"]
       ELSE Decided(d) /\ UNCHANGED rows
    /\ UNCHANGED <<time, req, revoked, sub, write, announced, resolved,
                   scan, troubles>>

\* Either of the two statements; the second one fails after the decision.
DecideFails(d) ==
    /\ dec[d].pc \in {"cas", "told"} /\ Trouble
    /\ Decided(d)
    /\ UNCHANGED <<time, req, revoked, rows, sub, write, announced, resolved, scan>>

\* The row is read again, then told.
DecideTells(d) ==
    /\ dec[d].pc = "told"
    /\ resolved' = [resolved EXCEPT ![dec[d].key] =
                        Append(@, rows[dec[d].key].decision)]
    /\ Decided(d)
    /\ UNCHANGED <<time, req, revoked, rows, sub, write, announced, scan, troubles>>

------------------------------------------------------------------------------
(* scan_once: two statements that do not depend on each other.               *)

Idle == [pc |-> "idle", now |-> 0]

BeginScan ==
    /\ scan.pc = "idle"
    /\ scan' = [pc |-> "expire", now |-> time]
    /\ UNCHANGED <<time, req, revoked, rows, sub, write, announced, resolved, dec, troubles>>

Expires(k) == rows[k].decision = "pending" /\ rows[k].exp < scan.now

ScanExpire ==
    LET out == {k \in Keys : rows[k] # NONE /\ Expires(k)} IN
    /\ scan.pc = "expire"
    /\ rows' = [k \in Keys |-> IF k \in out
                    THEN [rows[k] EXCEPT !.decision = "timed_out",
                                         !.decided = scan.now]
                    ELSE rows[k]]
    /\ resolved' = [k \in Keys |-> IF k \in out
                        THEN Append(resolved[k], "timed_out") ELSE resolved[k]]
    /\ scan' = [scan EXCEPT !.pc = "execute"]
    /\ UNCHANGED <<time, req, revoked, sub, write, announced, dec,
                   troubles>>

Due(k) ==
    /\ k[2] = "gate" /\ rows[k].decision = "approved"
    /\ rows[k].executed = NONE /\ rows[k].target <= scan.now

ScanExecute ==
    /\ scan.pc = "execute"
    /\ rows' = [k \in Keys |-> IF rows[k] # NONE /\ Due(k)
                    THEN [rows[k] EXCEPT !.executed = scan.now] ELSE rows[k]]
    /\ scan' = Idle
    /\ UNCHANGED <<time, req, revoked, sub, write, announced, resolved,
                   dec, troubles>>

\* A mutant: an error ends the loop.
ScanStops ==
    /\ scan.pc # "idle" /\ Trouble
    /\ scan' = [scan EXCEPT !.pc = "stopped"]
    /\ UNCHANGED <<time, req, revoked, rows, sub, write, announced, resolved, dec>>

\* A statement that fails is left to the next pass; the other one still runs.
ScanFails ==
    /\ scan.pc # "idle" /\ Trouble
    /\ scan' = IF scan.pc = "expire" THEN [scan EXCEPT !.pc = "execute"] ELSE Idle
    /\ UNCHANGED <<time, req, revoked, rows, sub, write, announced, resolved, dec>>

Tick ==
    /\ time < MaxTime /\ time' = time + 1
    /\ UNCHANGED <<req, revoked, rows, sub, write, announced, resolved,
                   dec, scan, troubles>>

\* The daemon ends and starts again: what is in memory is gone, the requests
\* with it. A statement SQLite had not run is not run.
Crash ==
    /\ Trouble
    /\ revoked' = FALSE /\ announced' = {} /\ scan' = Idle
    /\ req' = [r \in Reqs |-> IF req[r].st = "inflight"
                              THEN [req[r] EXCEPT !.st = "ended"] ELSE req[r]]
    /\ sub' = [s \in Subs |-> IF sub[s].pc \in {"new", "done"} THEN sub[s]
                    ELSE [sub[s] EXCEPT !.pc = "done", !.ans = "lost"]]
    /\ write' = [s \in Subs |-> IF write[s] = "queued" THEN "failed" ELSE write[s]]
    /\ dec' = [d \in Deciders |-> IF dec[d].pc = "new" THEN dec[d]
                                  ELSE OldDec]
    /\ UNCHANGED <<time, rows, resolved>>

------------------------------------------------------------------------------
Submission(s) ==
    \/ Submit(s) \/ FindExisting(s) \/ FindFails(s) \/ Bind(s) \/ TakeToken(s)
    \/ StoreCommits(s) \/ StoreFails(s) \/ InsertReturns(s)
    \/ Cancelled(s) \/ Fallback(s) \/ FallbackFails(s)

Decision(d) ==
    BeginDecide(d) \/ DecideCas(d) \/ DecideFails(d) \/ DecideTells(d)

Scan == BeginScan \/ ScanExpire \/ ScanExecute \/ ScanFails

Next ==
    \/ \E r \in Reqs : Forward(r) \/ EndRequest(r)
    \/ \E s \in Subs : Submission(s)
    \/ \E d \in Deciders : Decision(d)
    \/ Revoke \/ Scan \/ Tick \/ Crash

Spec == Init /\ [][Next]_vars

\* The scan loop runs for the daemon's lifetime and the clock advances.
FairSpec == Spec /\ WF_vars(Scan) /\ WF_vars(Tick)

------------------------------------------------------------------------------
(* Properties.                                                                *)

\* One request, one approval: overlapping submissions, and a gate beside an
\* advise, cannot both use the token (drain.rs, admit_approval_callback).
OneRowPerToken ==
    \A r \in Reqs : Cardinality({kind \in Kinds : rows[<<r, kind>>] # NONE}) <= 1

\* Each row gets one verdict. Two operators and the scan race for it: it is told
\* at most once, as what the row says, and the row says approved or denied only
\* if the operator was in time and timed out only if nobody could be, by the one
\* clock both read (module_approvals.rs, >= in one statement against < in the other).
OneVerdict ==
    \A k \in Keys :
        /\ resolved[k] # <<>> => resolved[k] = <<rows[k].decision>>
        /\ rows[k] # NONE => LET row == rows[k] IN
              /\ row.decision \in {"approved", "denied"} => row.decided <= row.exp
              /\ row.decision = "timed_out" => row.decided > row.exp

\* No row waits for ever, whatever the operator does, across errors and crashes:
\* the scan outlives the statement that fails and the row outlives the daemon
\* (module_approval_broker.rs, scan_once and its loop).
EveryRowDecided ==
    []<>(\A k \in Keys : rows[k] # NONE /\ rows[k].exp < MaxTime =>
            rows[k].decision # "pending")

=============================================================================
