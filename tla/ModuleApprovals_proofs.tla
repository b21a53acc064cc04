----------------------- MODULE ModuleApprovals_proofs -----------------------
(***************************************************************************)
(* The safety of module approvals for every number of requests,            *)
(* submissions, operators, store errors and crashes.                       *)
(*                                                                         *)
(* Neither property is inductive: a submission holds the token long before *)
(* its row exists, and a decision is announced long after it was made.     *)
(* The strengthening follows both: who still carries a request's token     *)
(* (TokenInv), and who still has a row's verdict to tell (VerdictInv).     *)
(***************************************************************************)
EXTENDS ModuleApprovals, FiniteSetTheorems, TLAPS

\* A submission's INSERT names a row of its own request.
SubInv ==
    \A s \in Subs :
        /\ sub[s].pc # "new" => sub[s].req \in Reqs /\ sub[s].kind \in Kinds
        /\ sub[s].pc = "new" => write[s] = "none"
        /\ write[s] = "queued" => sub[s].exp \in Nat

Queued(s) == write[s] = "queued"

\* A token still fresh stands for nothing; one taken stands for one INSERT in
\* flight or for the row it left.
TokenInv ==
    /\ \A s \in Subs : Queued(s) => req[sub[s].req].used
    /\ \A k \in Keys : rows[k] # NONE => req[k[1]].used
    /\ \A s, t \in Subs :
          Queued(s) /\ Queued(t) /\ sub[s].req = sub[t].req => s = t
    /\ \A s \in Subs, k \in Keys : Queued(s) /\ sub[s].req = k[1] => rows[k] = NONE
    /\ \A k, l \in Keys :
          rows[k] # NONE /\ rows[l] # NONE /\ k[1] = l[1] => k = l

Decides(d) == dec[d].pc \in {"cas", "told"}
Tells(d) == dec[d].pc = "told"

\* A verdict is made in time, and told once: by the scan in its own statement,
\* by the operator later, while nobody else has it to tell.
RowInv(k) ==
    LET row == rows[k] IN
    /\ row.decision = "pending" => resolved[k] = <<>>
    /\ resolved[k] # <<>> => resolved[k] = <<row.decision>>
    /\ row.decision \in {"approved", "denied"} => row.decided \in Nat /\ row.decided <= row.exp
    /\ row.decision = "timed_out" => row.decided \in Nat /\ row.decided > row.exp

VerdictInv ==
    /\ \A k \in Keys : rows[k] = NONE => resolved[k] = <<>>
    /\ \A k \in Keys : rows[k] # NONE => RowInv(k)
    /\ \A d \in Deciders : Decides(d) =>
          /\ dec[d].key \in Keys /\ rows[dec[d].key] # NONE
          /\ dec[d].to \in {"approved", "denied"} /\ dec[d].now \in Nat
    /\ \A d \in Deciders : Tells(d) =>
          /\ rows[dec[d].key].decision \in {"approved", "denied"}
          /\ resolved[dec[d].key] = <<>>
    /\ \A d, e \in Deciders : Tells(d) /\ Tells(e) /\ dec[d].key = dec[e].key => d = e

\* The inductive invariant.
Inv == TypeOK /\ SubInv /\ TokenInv /\ VerdictInv

-----------------------------------------------------------------------------
(* Types.                                                                  *)

LEMMA InitInv == Init => Inv
<1>. SUFFICES ASSUME Init PROVE Inv
  OBVIOUS
<1>1. TypeOK
  <2>1. sub \in [Subs -> SubRecord] /\ dec \in [Deciders -> DecRecord]
    BY DEF Init, SubRecord, DecRecord, SubAnswers, NewSub, NewDec
  <2>2. rows \in [Keys -> Row \cup {NONE}] /\ resolved \in [Keys -> Seq(Decisions)]
    BY DEF Init
  <2>3. /\ time \in 0..MaxTime /\ troubles \in 0..MaxTroubles
        /\ scan \in [pc : {"idle", "expire", "execute"}, now : 0..MaxTime]
    BY ApprovalsAssumption DEF Init
  <2>4. /\ req \in [Reqs -> [st : {"new", "inflight", "ended"}, used : BOOLEAN]]
        /\ write \in [Subs -> {"none", "queued", "committed", "failed"}]
        /\ revoked \in BOOLEAN /\ announced \subseteq Keys
    BY DEF Init
  <2>. QED  BY <2>1, <2>2, <2>3, <2>4 DEF TypeOK
<1>2. SubInv /\ TokenInv
  BY DEF Init, SubInv, TokenInv, Queued, NewSub
<1>3. VerdictInv
  BY DEF Init, VerdictInv, Decides, Tells, NewDec
<1>. QED  BY <1>1, <1>2, <1>3 DEF Inv

ReqRecord == [st : {"new", "inflight", "ended"}, used : BOOLEAN]

\* The steps of a request and of its token keep its type.
LEMMA RequestType ==
    ASSUME req \in [Reqs -> ReqRecord], NEW r \in Reqs,
           \/ \E st \in {"inflight", "ended"} : req' = [req EXCEPT ![r].st = st]
           \/ req' = [req EXCEPT ![r].used = TRUE]
           \/ req' = req
    PROVE  req' \in [Reqs -> ReqRecord]
<1>1. ASSUME NEW st \in {"inflight", "ended"}
      PROVE  [req[r] EXCEPT !.st = st] \in ReqRecord /\ [req[r] EXCEPT !.used = TRUE] \in ReqRecord
  BY DEF ReqRecord
<1>. QED  BY <1>1

\* So do the answers and the steps of a submission.
LEMMA ReplyType ==
    ASSUME sub \in [Subs -> SubRecord], NEW s \in Subs,
           \/ \E a \in SubAnswers : Reply(s, a)
           \/ \E pc \in {"bind", "token", "fallback"} : Advance(s, pc)
    PROVE  sub' \in [Subs -> SubRecord]
<1>1. ASSUME NEW a \in SubAnswers, Reply(s, a) PROVE sub' \in [Subs -> SubRecord]
  <2>1. [sub[s] EXCEPT !.pc = "done", !.ans = a] \in SubRecord
    BY DEF SubRecord
  <2>. QED  BY <1>1, <2>1 DEF Reply
<1>2. ASSUME NEW pc \in {"bind", "token", "fallback"}, Advance(s, pc)
      PROVE  sub' \in [Subs -> SubRecord]
  <2>1. [sub[s] EXCEPT !.pc = pc] \in SubRecord
    BY DEF SubRecord
  <2>. QED  BY <1>2, <2>1 DEF Advance
<1>. QED  BY <1>1, <1>2

LEMMA SubmitType ==
    ASSUME sub \in [Subs -> SubRecord], NEW s \in Subs, Submit(s)
    PROVE  sub' \in [Subs -> SubRecord]
<1>1. PICK r \in Reqs, kind \in Kinds, t \in Targets \cup {NONE} :
        /\ kind = "advise" => t = NONE
        /\ sub' = [sub EXCEPT ![s] =
              IF kind = "gate" /\ t = NONE
              THEN [@ EXCEPT !.pc = "done", !.ans = "invalid", !.req = r, !.kind = kind]
              ELSE [@ EXCEPT !.pc = "find", !.req = r, !.kind = kind,
                             !.target = IF kind = "gate" THEN Canonical(t) ELSE NONE]]
  BY DEF Submit
<1>2. kind = "gate" /\ t # NONE => Canonical(t) \in Nat
  BY ApprovalsAssumption DEF Canonical
<1>3. [sub[s] EXCEPT !.pc = "done", !.ans = "invalid", !.req = r, !.kind = kind] \in SubRecord
  BY DEF SubRecord, SubAnswers
<1>4. ASSUME NEW u \in Nat \cup {NONE}
      PROVE  [sub[s] EXCEPT !.pc = "find", !.req = r, !.kind = kind, !.target = u] \in SubRecord
  BY DEF SubRecord
<1>. QED  BY <1>1, <1>2, <1>3, <1>4

\* A step of one submission keeps every type.
LEMMA SubmissionType ==
    ASSUME TypeOK, SubInv, NEW s \in Subs, Submission(s)
    PROVE  TypeOK'
<1>. USE DEF others
<1>0. sub \in [Subs -> SubRecord]
  BY DEF TypeOK
<1>1. CASE Submit(s)
  BY <1>0, <1>1, SubmitType DEF Submit, TypeOK
<1>2. CASE FindExisting(s) \/ FindFails(s) \/ Bind(s) \/ Cancelled(s) \/ FallbackFails(s)
  <2>1. sub' \in [Subs -> SubRecord]
    BY <1>0, <1>2, ReplyType
    DEF FindExisting, FindFails, Bind, Cancelled, FallbackFails, SubAnswers
  <2>2. troubles' \in 0..MaxTroubles
    BY <1>2, ApprovalsAssumption
    DEF FindExisting, FindFails, Bind, Cancelled, FallbackFails, Trouble, TypeOK
  <2>. QED  BY <1>2, <2>1, <2>2
            DEF FindExisting, FindFails, Bind, Cancelled, FallbackFails, TypeOK
<1>3. CASE TakeToken(s)
  <2>1. sub' \in [Subs -> SubRecord]
    <3>1. CASE \E a \in SubAnswers : Reply(s, a)
      BY <1>0, <3>1, ReplyType
    <3>2. CASE sub' = [sub EXCEPT ![s].pc = "inserting", ![s].exp = time + TTL]
      <4>1. time + TTL \in Nat
        BY ApprovalsAssumption DEF TypeOK
      <4>2. [sub[s] EXCEPT !.pc = "inserting", !.exp = time + TTL] \in SubRecord
        BY <1>0, <4>1 DEF SubRecord
      <4>. QED  BY <1>0, <3>2, <4>2
    <3>3. \/ Reply(s, "revoked") \/ Reply(s, "token_invalid")
          \/ sub' = [sub EXCEPT ![s].pc = "inserting", ![s].exp = time + TTL]
      BY <1>3 DEF TakeToken
    <3>. QED  BY <3>1, <3>2, <3>3 DEF SubAnswers
  <2>2. req' \in [Reqs -> ReqRecord]
    <3>1. req \in [Reqs -> ReqRecord] /\ sub[s].req \in Reqs
      BY <1>3 DEF TakeToken, SubInv, TypeOK, ReqRecord
    <3>2. req' = [req EXCEPT ![sub[s].req].used = TRUE] \/ req' = req
      BY <1>3 DEF TakeToken
    <3>. QED  BY <3>1, <3>2, RequestType
  <2>3. write' \in [Subs -> {"none", "queued", "committed", "failed"}]
    BY <1>3 DEF TakeToken, TypeOK
  <2>. QED  BY <1>3, <2>1, <2>2, <2>3 DEF TakeToken, TypeOK, ReqRecord
<1>4. CASE StoreCommits(s) \/ StoreFails(s)
  <2>1. write' \in [Subs -> {"none", "queued", "committed", "failed"}]
    BY <1>4 DEF StoreCommits, StoreFails, TypeOK
  <2>2. rows' \in [Keys -> Row \cup {NONE}]
    <3>1. sub[s].exp \in Nat /\ sub[s].target \in Nat \cup {NONE} /\ rows \in [Keys -> Row \cup {NONE}]
      BY <1>0, <1>4 DEF StoreCommits, StoreFails, SubInv, SubRecord, TypeOK
    <3>2. [decision |-> "pending", target |-> sub[s].target, exp |-> sub[s].exp,
           decided |-> NONE, executed |-> NONE] \in Row
      BY <3>1 DEF Row, Decisions
    <3>. QED  BY <1>4, <3>1, <3>2 DEF StoreCommits, StoreFails
  <2>3. troubles' \in 0..MaxTroubles
    BY <1>4, ApprovalsAssumption DEF StoreCommits, StoreFails, Trouble, TypeOK
  <2>. QED  BY <1>4, <2>1, <2>2, <2>3 DEF StoreCommits, StoreFails, TypeOK
<1>5. CASE InsertReturns(s) \/ Fallback(s)
  <2>1. sub' \in [Subs -> SubRecord]
    BY <1>0, <1>5, ReplyType DEF InsertReturns, Fallback, SubAnswers
  <2>2. Key(s) \in Keys
    BY <1>5 DEF InsertReturns, Fallback, SubInv, Key, Keys
  <2>3. announced' \subseteq Keys
    BY <1>5, <2>2 DEF InsertReturns, Fallback, Announce, TypeOK
  <2>. QED  BY <1>5, <2>1, <2>3 DEF InsertReturns, Fallback, TypeOK
<1>. QED  BY <1>1, <1>2, <1>3, <1>4, <1>5 DEF Submission

\* A decision keeps every type: what it writes in a row is a verdict.
LEMMA DecisionType ==
    ASSUME TypeOK, VerdictInv, NEW d \in Deciders, Decision(d)
    PROVE  TypeOK'
<1>0. /\ dec \in [Deciders -> DecRecord] /\ rows \in [Keys -> Row \cup {NONE}]
      /\ resolved \in [Keys -> Seq(Decisions)]
      /\ OldDec \in DecRecord
  BY DEF TypeOK, OldDec, NewDec, DecRecord
<1>1. CASE BeginDecide(d)
  <2>1. PICK k \in Keys, to \in {"approved", "denied"} :
          dec' = [dec EXCEPT ![d] = [pc |-> "cas", key |-> k, to |-> to, now |-> time]]
    BY <1>1 DEF BeginDecide
  <2>2. [pc |-> "cas", key |-> k, to |-> to, now |-> time] \in DecRecord
    BY DEF DecRecord, TypeOK
  <2>3. dec' \in [Deciders -> DecRecord]
    BY <1>0, <2>1, <2>2
  <2>. QED  BY <1>1, <2>3 DEF BeginDecide, TypeOK
<1>2. CASE DecideCas(d)
  <2>1. /\ dec[d].key \in Keys /\ rows[dec[d].key] \in Row
        /\ dec[d].to \in Decisions /\ dec[d].now \in Nat
    BY <1>0, <1>2 DEF DecideCas, VerdictInv, Decides, Decisions
  <2>2. rows' \in [Keys -> Row \cup {NONE}]
    <3>1. [rows[dec[d].key] EXCEPT !.decision = dec[d].to, !.decided = dec[d].now] \in Row
      BY <2>1 DEF Row
    <3>. QED  BY <1>0, <1>2, <2>1, <3>1 DEF DecideCas
  <2>3. dec' \in [Deciders -> DecRecord]
    <3>1. [dec[d] EXCEPT !.pc = "told"] \in DecRecord
      BY <1>0 DEF DecRecord
    <3>. QED  BY <1>0, <1>2, <3>1 DEF DecideCas, Decided
  <2>. QED  BY <1>2, <2>2, <2>3 DEF DecideCas, TypeOK
<1>3. CASE DecideFails(d)
  <2>1. dec' \in [Deciders -> DecRecord]
    BY <1>0, <1>3 DEF DecideFails, Decided
  <2>. QED  BY <1>3, <2>1, ApprovalsAssumption DEF DecideFails, Trouble, TypeOK
<1>4. CASE DecideTells(d)
  <2>1. dec' \in [Deciders -> DecRecord]
    BY <1>0, <1>4 DEF DecideTells, Decided
  <2>2. resolved' \in [Keys -> Seq(Decisions)]
    <3>1. rows[dec[d].key].decision \in Decisions /\ dec[d].key \in Keys
      BY <1>0, <1>4 DEF DecideTells, VerdictInv, Decides, Tells, Decisions
    <3>2. Append(resolved[dec[d].key], rows[dec[d].key].decision) \in Seq(Decisions)
      BY <1>0, <3>1
    <3>. QED  BY <1>0, <1>4, <3>1, <3>2 DEF DecideTells
  <2>. QED  BY <1>4, <2>1, <2>2 DEF DecideTells, TypeOK
<1>. QED  BY <1>1, <1>2, <1>3, <1>4 DEF Decision

\* So does the scan: it rewrites the rows it finds.
LEMMA ScanType ==
    ASSUME TypeOK, Scan
    PROVE  TypeOK'
<1>0. /\ rows \in [Keys -> Row \cup {NONE}] /\ resolved \in [Keys -> Seq(Decisions)]
      /\ scan.now \in Nat
      /\ scan \in [pc : {"idle", "expire", "execute"}, now : 0..MaxTime]
      /\ Idle \in [pc : {"idle", "expire", "execute"}, now : 0..MaxTime]
  BY ApprovalsAssumption DEF TypeOK, Idle
<1>1. CASE BeginScan
  BY <1>1 DEF BeginScan, TypeOK
<1>2. CASE ScanExpire
  <2>1. rows' \in [Keys -> Row \cup {NONE}]
    <3>1. ASSUME NEW k \in Keys, rows[k] # NONE
          PROVE  [rows[k] EXCEPT !.decision = "timed_out", !.decided = scan.now] \in Row
      BY <1>0, <3>1 DEF Row, Decisions
    <3>. QED  BY <1>0, <1>2, <3>1 DEF ScanExpire
  <2>2. resolved' \in [Keys -> Seq(Decisions)]
    <3>1. ASSUME NEW k \in Keys PROVE Append(resolved[k], "timed_out") \in Seq(Decisions)
      BY <1>0 DEF Decisions
    <3>. QED  BY <1>0, <1>2, <3>1 DEF ScanExpire
  <2>3. scan' \in [pc : {"idle", "expire", "execute"}, now : 0..MaxTime]
    BY <1>0, <1>2 DEF ScanExpire
  <2>. QED  BY <1>2, <2>1, <2>2, <2>3 DEF ScanExpire, TypeOK
<1>3. CASE ScanExecute
  <2>1. rows' \in [Keys -> Row \cup {NONE}]
    <3>1. ASSUME NEW k \in Keys, rows[k] # NONE
          PROVE  [rows[k] EXCEPT !.executed = scan.now] \in Row
      BY <1>0, <3>1 DEF Row
    <3>. QED  BY <1>0, <1>3, <3>1 DEF ScanExecute
  <2>. QED  BY <1>0, <1>3, <2>1 DEF ScanExecute, TypeOK
<1>4. CASE ScanFails
  <2>1. scan' \in [pc : {"idle", "expire", "execute"}, now : 0..MaxTime]
    BY <1>0, <1>4 DEF ScanFails
  <2>2. troubles' \in 0..MaxTroubles
    BY <1>4, ApprovalsAssumption DEF ScanFails, Trouble, TypeOK
  <2>. QED  BY <1>4, <2>1, <2>2 DEF ScanFails, TypeOK
<1>. QED  BY <1>1, <1>2, <1>3, <1>4 DEF Scan

\* The requests, the clock and a crash keep every type.
LEMMA WorldType ==
    ASSUME TypeOK,
           \/ \E r \in Reqs : Forward(r) \/ EndRequest(r)
           \/ Revoke \/ Tick \/ Crash
    PROVE  TypeOK'
<1>1. CASE \E r \in Reqs : Forward(r) \/ EndRequest(r)
  <2>1. req' \in [Reqs -> ReqRecord]
    <3>1. req \in [Reqs -> ReqRecord]
      BY DEF TypeOK, ReqRecord
    <3>. QED  BY <1>1, <3>1, RequestType DEF Forward, EndRequest
  <2>. QED  BY <1>1, <2>1 DEF Forward, EndRequest, TypeOK, ReqRecord
<1>2. CASE Revoke
  BY <1>2 DEF Revoke, TypeOK
<1>4. CASE Tick
  <2>1. time' \in 0..MaxTime
    BY <1>4, ApprovalsAssumption DEF Tick, TypeOK
  <2>. QED  BY <1>4, <2>1 DEF Tick, TypeOK
<1>3. CASE Crash
  <2>1. req' \in [Reqs -> [st : {"new", "inflight", "ended"}, used : BOOLEAN]]
    BY <1>3 DEF Crash, TypeOK
  <2>2. sub' \in [Subs -> SubRecord]
    <3>1. sub \in [Subs -> SubRecord]
      BY DEF TypeOK
    <3>2. ASSUME NEW s \in Subs PROVE [sub[s] EXCEPT !.pc = "done", !.ans = "lost"] \in SubRecord
      BY <3>1 DEF SubRecord, SubAnswers
    <3>. QED  BY <1>3, <3>1, <3>2 DEF Crash
  <2>3. write' \in [Subs -> {"none", "queued", "committed", "failed"}]
    BY <1>3 DEF Crash, TypeOK
  <2>4. dec' \in [Deciders -> DecRecord]
    <3>1. OldDec \in DecRecord /\ dec \in [Deciders -> DecRecord]
      BY DEF OldDec, NewDec, DecRecord, TypeOK
    <3>. QED  BY <1>3, <3>1 DEF Crash
  <2>5. /\ scan' \in [pc : {"idle", "expire", "execute"}, now : 0..MaxTime]
        /\ troubles' \in 0..MaxTroubles
    <3>1. scan' = Idle /\ troubles < MaxTroubles /\ troubles' = troubles + 1
      BY <1>3 DEF Crash, Trouble
    <3>. QED  BY <3>1, ApprovalsAssumption DEF Idle, TypeOK
  <2>. QED  BY <1>3, <2>1, <2>2, <2>3, <2>4, <2>5 DEF Crash, TypeOK
<1>. QED  BY <1>1, <1>2, <1>3, <1>4

LEMMA NextType == ASSUME Inv, [Next]_vars PROVE TypeOK'
<1>1. CASE UNCHANGED vars
  BY <1>1 DEF Inv, TypeOK, vars
<1>2. CASE Next
  BY <1>2, SubmissionType, DecisionType, ScanType, WorldType DEF Inv, Next
<1>. QED  BY <1>1, <1>2

-----------------------------------------------------------------------------
(* Submissions.                                                            *)

\* A submission's answer and its steps ahead change neither the row it names
\* nor any other submission.
LEMMA StepFrame ==
    ASSUME sub \in [Subs -> SubRecord], NEW s \in Subs,
           \/ \E a \in SubAnswers : Reply(s, a)
           \/ \E pc \in {"bind", "token", "fallback"} : Advance(s, pc)
    PROVE  /\ \A t \in Subs : /\ sub'[t].req = sub[t].req /\ sub'[t].kind = sub[t].kind
                              /\ sub'[t].exp = sub[t].exp
           /\ \A t \in Subs : t # s => sub'[t].pc = sub[t].pc
           /\ sub'[s].pc # "new"
BY DEF Reply, Advance, SubRecord

\* The steps that only answer or go on.
Moves(s) ==
    \/ FindExisting(s) \/ FindFails(s) \/ Bind(s) \/ InsertReturns(s)
    \/ Cancelled(s) \/ Fallback(s) \/ FallbackFails(s)

LEMMA MovesFrame ==
    ASSUME TypeOK, NEW s \in Subs, Moves(s)
    PROVE  /\ sub[s].pc # "new" /\ UNCHANGED <<req, rows, write, resolved, dec>>
           /\ \/ \E a \in SubAnswers : Reply(s, a)
              \/ \E pc \in {"bind", "token", "fallback"} : Advance(s, pc)
BY DEF Moves, FindExisting, FindFails, Bind, InsertReturns, Cancelled, Fallback,
       FallbackFails, SubAnswers, others

LEMMA SubInvNext == ASSUME Inv, [Next]_vars PROVE SubInv'
<1>. USE DEF SubInv
<1>0. /\ TypeOK /\ sub \in [Subs -> SubRecord]
      /\ write \in [Subs -> {"none", "queued", "committed", "failed"}]
  BY DEF Inv, TypeOK
<1>1. ASSUME NEW s \in Subs, Submission(s) PROVE SubInv'
  <2>1. CASE Submit(s)
    <3>1. PICK r \in Reqs, kind \in Kinds, t \in Targets \cup {NONE} :
            sub' = [sub EXCEPT ![s] =
                  IF kind = "gate" /\ t = NONE
                  THEN [@ EXCEPT !.pc = "done", !.ans = "invalid", !.req = r, !.kind = kind]
                  ELSE [@ EXCEPT !.pc = "find", !.req = r, !.kind = kind,
                                 !.target = IF kind = "gate" THEN Canonical(t) ELSE NONE]]
      BY <2>1 DEF Submit
    <3>2. sub[s].pc = "new" /\ write' = write
      BY <2>1 DEF Submit, Arrives, others
    <3>3. sub'[s].req = r /\ sub'[s].kind = kind /\ sub'[s].pc # "new"
      BY <1>0, <3>1 DEF SubRecord
    <3>. QED  BY <1>0, <3>1, <3>2, <3>3 DEF Inv
  <2>2. CASE Moves(s)
    BY <1>0, <2>2, MovesFrame, StepFrame DEF Inv
  <2>3. CASE TakeToken(s)
    <3>1. CASE \E a \in SubAnswers : Reply(s, a)
      <4>1. UNCHANGED write /\ sub[s].pc # "new"
        BY <1>0, <2>3, <3>1 DEF TakeToken, Reply, SubRecord
      <4>. QED  BY <1>0, <3>1, <4>1, StepFrame DEF Inv
    <3>2. CASE /\ sub' = [sub EXCEPT ![s].pc = "inserting", ![s].exp = time + TTL]
               /\ write' = [write EXCEPT ![s] = "queued"]
      <4>1. time + TTL \in Nat
        BY ApprovalsAssumption DEF Inv, TypeOK
      <4>2. /\ sub'[s].req = sub[s].req /\ sub'[s].kind = sub[s].kind
            /\ sub'[s].exp = time + TTL /\ sub'[s].pc = "inserting"
        BY <1>0, <3>2 DEF SubRecord
      <4>3. sub[s].pc = "token"
        BY <2>3 DEF TakeToken
      <4>. QED  BY <1>0, <3>2, <4>1, <4>2, <4>3 DEF Inv
    <3>. QED  BY <2>3, <3>1, <3>2 DEF TakeToken, SubAnswers
  <2>4. CASE StoreCommits(s) \/ StoreFails(s)
    <3>1. PICK w \in {"committed", "failed"} : write' = [write EXCEPT ![s] = w]
      BY <2>4 DEF StoreCommits, StoreFails
    <3>2. write[s] = "queued" /\ sub' = sub
      BY <2>4 DEF StoreCommits, StoreFails
    <3>3. write'[s] = w /\ \A t \in Subs : t # s => write'[t] = write[t]
      BY <1>0, <3>1
    <3>4. sub[s].pc # "new"
      BY <3>2 DEF Inv
    <3>. QED  BY <3>1, <3>2, <3>3, <3>4 DEF Inv
  <2>. QED  BY <1>1, <2>1, <2>2, <2>3, <2>4 DEF Submission, Moves
<1>2. CASE Crash
  <2>1. ASSUME NEW s \in Subs
        PROVE  /\ sub'[s].req = sub[s].req /\ sub'[s].kind = sub[s].kind
               /\ sub'[s].exp = sub[s].exp /\ (sub'[s].pc = "new" <=> sub[s].pc = "new")
               /\ write'[s] \in {write[s], "failed"}
               /\ write'[s] # write[s] => write[s] = "queued"
    BY <1>0, <1>2 DEF Crash, SubRecord
  <2>. QED  BY <2>1 DEF Inv
<1>3. CASE UNCHANGED <<sub, write>>
  BY <1>3 DEF Inv
<1>4. ASSUME ~\E s \in Subs : Submission(s), ~Crash PROVE UNCHANGED <<sub, write>>
  BY <1>4 DEF Next, vars, Forward, EndRequest, Revoke, Tick, Decision, BeginDecide, DecideCas,
              DecideFails, DecideTells, Scan, BeginScan, ScanExpire, ScanExecute, ScanFails
<1>. QED  BY <1>1, <1>2, <1>3, <1>4

-----------------------------------------------------------------------------
(* One row per token.                                                      *)

\* TokenInv reads the requests a submission and a key name, the INSERTs in
\* flight, the tokens and the rows that exist: a step that uses no token, sends
\* no INSERT and makes no row keeps it.
LEMMA TokenFrame ==
    ASSUME TokenInv,
           \A s \in Subs : Queued(s)' => Queued(s) /\ sub'[s].req = sub[s].req,
           \A s \in Subs : Queued(s) => sub[s].req \in Reqs,
           \A r \in Reqs : req[r].used => req'[r].used,
           \A k \in Keys : rows'[k] # NONE => rows[k] # NONE
    PROVE  TokenInv'
BY DEF TokenInv, Queued, Keys

LEMMA TokenNext == ASSUME Inv, [Next]_vars PROVE TokenInv'
<1>0. /\ TypeOK /\ sub \in [Subs -> SubRecord]
      /\ write \in [Subs -> {"none", "queued", "committed", "failed"}]
      /\ req \in [Reqs -> ReqRecord] /\ rows \in [Keys -> Row \cup {NONE}]
      /\ TokenInv /\ SubInv /\ VerdictInv
      /\ \A s \in Subs : Queued(s) => sub[s].req \in Reqs /\ sub[s].kind \in Kinds
  BY DEF Inv, TypeOK, ReqRecord, SubInv, Queued
<1>1. ASSUME NEW s \in Subs, Submission(s) PROVE TokenInv'
  <2>1. CASE Submit(s)
    <3>1. /\ UNCHANGED <<req, write, rows>> /\ ~Queued(s)
          /\ \A t \in Subs : t # s => sub'[t] = sub[t]
      BY <1>0, <2>1 DEF Submit, others, Arrives, SubInv, Queued
    <3>. QED  BY <1>0, <3>1, TokenFrame DEF Queued
  <2>2. CASE Moves(s)
    BY <1>0, <2>2, MovesFrame, StepFrame, TokenFrame DEF Queued
  <2>3. CASE TakeToken(s)
    <3>1. CASE \E a \in SubAnswers : Reply(s, a)
      <4>1. UNCHANGED <<req, write, rows>>
        BY <1>0, <2>3, <3>1 DEF TakeToken, Reply, SubRecord
      <4>. QED  BY <1>0, <3>1, <4>1, StepFrame, TokenFrame DEF Queued
    <3>2. CASE /\ sub' = [sub EXCEPT ![s].pc = "inserting", ![s].exp = time + TTL]
               /\ write' = [write EXCEPT ![s] = "queued"]
               /\ req' = [req EXCEPT ![sub[s].req].used = TRUE]
               /\ ~req[sub[s].req].used
      <4>1. sub[s].req \in Reqs /\ rows' = rows
        BY <1>0, <2>3 DEF TakeToken, SubInv
      <4>2. /\ \A t \in Subs : sub'[t].req = sub[t].req
            /\ \A t \in Subs : Queued(t)' <=> Queued(t) \/ t = s
            /\ req'[sub[s].req].used
            /\ \A r \in Reqs : req[r].used => req'[r].used
        BY <1>0, <3>2, <4>1 DEF SubRecord, ReqRecord, Queued
      <4>3. /\ \A t \in Subs : Queued(t) => sub[t].req # sub[s].req
            /\ \A k \in Keys : rows[k] # NONE => k[1] # sub[s].req
        BY <1>0, <3>2 DEF TokenInv
      <4>. QED  BY <1>0, <4>1, <4>2, <4>3 DEF TokenInv, Keys
    <3>. QED  BY <2>3, <3>1, <3>2 DEF TakeToken, SubAnswers
  <2>4. CASE StoreCommits(s)
    <3>1. Key(s) \in Keys /\ Queued(s) /\ Key(s)[1] = sub[s].req
      BY <1>0, <2>4 DEF StoreCommits, Queued, Key, Keys
    <3>2. \A t \in Subs : Queued(t)' <=> Queued(t) /\ t # s
      BY <1>0, <2>4 DEF StoreCommits, Queued
    <3>3. \A k \in Keys : rows'[k] # NONE => rows[k] # NONE \/ k = Key(s)
      BY <1>0, <2>4 DEF StoreCommits
    <3>4. UNCHANGED <<req, sub>>
      BY <2>4 DEF StoreCommits
    <3>5. /\ req[sub[s].req].used
          /\ \A t \in Subs : Queued(t) /\ t # s => sub[t].req # Key(s)[1]
          /\ \A k \in Keys : rows[k] # NONE => k[1] # Key(s)[1]
      BY <1>0, <3>1 DEF TokenInv
    <3>. QED  BY <1>0, <3>1, <3>2, <3>3, <3>4, <3>5 DEF TokenInv
  <2>5. CASE StoreFails(s)
    <3>1. UNCHANGED <<req, sub, rows>> /\ \A t \in Subs : Queued(t)' => Queued(t)
      BY <1>0, <2>5 DEF StoreFails, Queued
    <3>. QED  BY <1>0, <3>1, TokenFrame
  <2>. QED  BY <1>1, <2>1, <2>2, <2>3, <2>4, <2>5 DEF Submission, Moves
<1>2. CASE \E r \in Reqs : Forward(r) \/ EndRequest(r)
  <2>1. UNCHANGED <<sub, write, rows>> /\ \A r \in Reqs : req'[r].used = req[r].used
    BY <1>0, <1>2 DEF Forward, EndRequest, ReqRecord
  <2>. QED  BY <1>0, <2>1, TokenFrame DEF Queued
<1>3. CASE (\E d \in Deciders : Decision(d)) \/ Scan
  <2>1. UNCHANGED <<sub, write, req>>
    BY <1>3 DEF Decision, BeginDecide, DecideCas, DecideFails, DecideTells,
                Scan, BeginScan, ScanExpire, ScanExecute, ScanFails
  <2>2. \A k \in Keys : rows'[k] # NONE => rows[k] # NONE
    <3>1. ASSUME NEW d \in Deciders, Decision(d), NEW k \in Keys, rows'[k] # NONE
          PROVE  rows[k] # NONE
      <4>1. Decides(d) => rows[dec[d].key] # NONE
        BY <1>0 DEF VerdictInv
      <4>. QED  BY <1>0, <3>1, <4>1 DEF Decision, BeginDecide, DecideCas, DecideFails, DecideTells, Decides
    <3>2. ASSUME Scan, NEW k \in Keys, rows'[k] # NONE
          PROVE  rows[k] # NONE
      BY <1>0, <3>2 DEF Scan, BeginScan, ScanExpire, ScanExecute, ScanFails
    <3>. QED  BY <1>3, <3>1, <3>2
  <2>. QED  BY <1>0, <2>1, <2>2, TokenFrame DEF Queued
<1>4. CASE Revoke \/ Tick \/ UNCHANGED vars
  BY <1>0, <1>4, TokenFrame DEF Revoke, Tick, vars, Queued
<1>5. CASE Crash
  <2>1. /\ \A s \in Subs : sub'[s].req = sub[s].req /\ (Queued(s)' => Queued(s))
        /\ \A r \in Reqs : req'[r].used = req[r].used
        /\ rows' = rows
    BY <1>0, <1>5 DEF Crash, SubRecord, ReqRecord, Queued
  <2>. QED  BY <1>0, <2>1, TokenFrame
<1>. QED  BY <1>1, <1>2, <1>3, <1>4, <1>5 DEF Next

-----------------------------------------------------------------------------
(* One verdict per row.                                                    *)

\* A row whose verdict and announcements a step leaves alone stays sound.
LEMMA RowFrame ==
    ASSUME NEW k \in Keys, RowInv(k), resolved'[k] = resolved[k],
           /\ rows'[k].decision = rows[k].decision /\ rows'[k].decided = rows[k].decided
           /\ rows'[k].exp = rows[k].exp
    PROVE  RowInv(k)'
BY DEF RowInv

\* A step that starts no decision and leaves the verdicts alone keeps VerdictInv.
LEMMA VerdictFrame ==
    ASSUME VerdictInv, UNCHANGED resolved,
           \A k \in Keys : /\ rows'[k] = NONE <=> rows[k] = NONE
                           /\ rows'[k].decision = rows[k].decision
                           /\ rows'[k].decided = rows[k].decided
                           /\ rows'[k].exp = rows[k].exp,
           \A d \in Deciders : Decides(d)' => dec'[d] = dec[d]
    PROVE  VerdictInv'
<1>1. \A k \in Keys : rows'[k] # NONE => RowInv(k)'
  BY RowFrame DEF VerdictInv
<1>2. \A d \in Deciders : Decides(d)' => Decides(d) /\ dec'[d] = dec[d]
  BY DEF Decides
<1>3. \A d \in Deciders : Tells(d)' => Tells(d) /\ Decides(d) /\ dec'[d] = dec[d]
  BY DEF Decides, Tells
<1>. QED  BY <1>1, <1>2, <1>3 DEF VerdictInv

LEMMA VerdictNext == ASSUME Inv, [Next]_vars PROVE VerdictInv'
<1>0. /\ TypeOK /\ VerdictInv /\ SubInv
      /\ rows \in [Keys -> Row \cup {NONE}] /\ NONE \notin Row
      /\ resolved \in [Keys -> Seq(Decisions)] /\ dec \in [Deciders -> DecRecord]
      /\ time \in Nat /\ scan.now \in Nat
  BY ApprovalsAssumption DEF Inv, TypeOK
<1>1. CASE UNCHANGED <<rows, resolved, dec>>
  BY <1>0, <1>1, VerdictFrame
<1>2. ASSUME NEW s \in Subs, StoreCommits(s) PROVE VerdictInv'
  <2>. DEFINE k == Key(s)
              row == [decision |-> "pending", target |-> sub[s].target,
                      exp |-> sub[s].exp, decided |-> NONE, executed |-> NONE]
  <2>1. CASE rows[k] # NONE
    BY <1>0, <1>1, <1>2, <2>1 DEF StoreCommits
  <2>2. CASE rows[k] = NONE
    <3>1. k \in Keys
      BY <1>0, <1>2 DEF StoreCommits, SubInv, Key, Keys
    <3>2. rows' = [rows EXCEPT ![k] = row] /\ UNCHANGED <<resolved, dec>>
      BY <1>2, <2>2 DEF StoreCommits
    <3>3. row # NONE
      <4>1. sub[s].exp \in Nat /\ sub[s].target \in Nat \cup {NONE}
        BY <1>0, <1>2 DEF StoreCommits, SubInv, TypeOK, SubRecord
      <4>2. row \in Row
        BY <4>1 DEF Row, Decisions
      <4>. QED  BY <1>0, <4>2
    <3>. HIDE DEF k
    <3>4. resolved[k] = <<>>
      BY <1>0, <2>2, <3>1 DEF VerdictInv
    <3>5. rows'[k] = row /\ \A l \in Keys : l # k => rows'[l] = rows[l]
      BY <1>0, <3>1, <3>2
    <3>. HIDE DEF row
    <3>6. row.decision = "pending"
      BY DEF row
    <3>7. \A l \in Keys : rows'[l] # NONE => RowInv(l)'
      BY <1>0, <3>2, <3>4, <3>5, <3>6 DEF VerdictInv, RowInv
    <3>8. \A d \in Deciders : Decides(d) => dec[d].key # k
      BY <1>0, <2>2 DEF VerdictInv
    <3>. QED  BY <1>0, <3>2, <3>3, <3>5, <3>7, <3>8 DEF VerdictInv, Decides, Tells
  <2>. QED  BY <2>1, <2>2
<1>3. ASSUME NEW d \in Deciders, BeginDecide(d) PROVE VerdictInv'
  <2>1. PICK k \in Keys, to \in {"approved", "denied"} :
          /\ rows[k] # NONE
          /\ dec' = [dec EXCEPT ![d] = [pc |-> "cas", key |-> k, to |-> to, now |-> time]]
    BY <1>3 DEF BeginDecide
  <2>2. UNCHANGED <<rows, resolved>>
    BY <1>3 DEF BeginDecide
  <2>3. /\ dec'[d] = [pc |-> "cas", key |-> k, to |-> to, now |-> time]
        /\ \A e \in Deciders : e # d => dec'[e] = dec[e]
    BY <1>0, <2>1
  <2>4. \A e \in Deciders : Tells(e)' => e # d /\ Tells(e)
    BY <2>3 DEF Tells
  <2>. QED  BY <1>0, <2>1, <2>2, <2>3, <2>4 DEF VerdictInv, RowInv, Decides, Tells
<1>4. ASSUME NEW d \in Deciders, DecideCas(d) PROVE VerdictInv'
  <2>. DEFINE k == dec[d].key
  <2>1. /\ k \in Keys /\ rows[k] \in Row /\ rows[k] # NONE
        /\ dec[d].to \in {"approved", "denied"} /\ dec[d].now \in Nat
    BY <1>0, <1>4 DEF DecideCas, VerdictInv, Decides
  <2>2. CASE ~Decidable(d)
    <3>1. /\ UNCHANGED <<rows, resolved>>
          /\ \A e \in Deciders : Decides(e)' => dec'[e] = dec[e]
      BY <1>0, <1>4, <2>2 DEF DecideCas, Decided, OldDec, NewDec, Decides
    <3>. QED  BY <1>0, <3>1, VerdictFrame
  <2>3. CASE Decidable(d)
    <3>1. /\ rows' = [rows EXCEPT ![k].decision = dec[d].to, ![k].decided = dec[d].now]
          /\ dec' = [dec EXCEPT ![d].pc = "told"] /\ UNCHANGED resolved
      BY <1>4, <2>3 DEF DecideCas
    <3>2. rows[k].decision = "pending" /\ dec[d].now <= rows[k].exp
      BY <1>0, <2>1, <2>3 DEF Decidable, Row
    <3>. HIDE DEF k
    <3>3. /\ rows'[k].decision = dec[d].to /\ rows'[k].decided = dec[d].now
          /\ rows'[k].exp = rows[k].exp
          /\ \A l \in Keys : l # k => rows'[l] = rows[l]
      BY <1>0, <2>1, <3>1 DEF Row
    <3>4. rows'[k] # NONE
      <4>1. [rows[k] EXCEPT !.decision = dec[d].to, !.decided = dec[d].now] \in Row
        BY <2>1 DEF Row, Decisions
      <4>2. rows'[k] \in Row
        BY <1>0, <2>1, <3>1, <4>1
      <4>. QED  BY <1>0, <4>2
    <3>5. /\ dec'[d].pc = "told" /\ dec'[d].key = k /\ dec'[d].to = dec[d].to
          /\ dec'[d].now = dec[d].now
          /\ \A e \in Deciders : e # d => dec'[e] = dec[e]
      BY <1>0, <3>1 DEF DecRecord, k
    <3>6. resolved[k] = <<>>
      BY <1>0, <2>1, <3>2 DEF VerdictInv, RowInv
    <3>7. \A e \in Deciders : Tells(e) => dec[e].key # k
      BY <1>0, <3>2 DEF VerdictInv
    <3>8. ASSUME NEW l \in Keys, rows'[l] # NONE PROVE RowInv(l)'
      <4>1. CASE l = k
        BY <2>1, <3>1, <3>2, <3>3, <3>6, <4>1 DEF RowInv
      <4>2. CASE l # k
        BY <1>0, <3>1, <3>3, <3>8, <4>2 DEF VerdictInv, RowInv
      <4>. QED  BY <4>1, <4>2
    <3>9. \A l \in Keys : rows'[l] = NONE <=> rows[l] = NONE
      BY <2>1, <3>3, <3>4
    <3>10. ASSUME NEW e \in Deciders, Decides(e)'
           PROVE  /\ Decides(e) /\ dec'[e].key = dec[e].key
                  /\ dec'[e].to = dec[e].to /\ dec'[e].now = dec[e].now
      BY <1>4, <3>5, <3>10 DEF Decides, DecideCas, k
    <3>11. ASSUME NEW e \in Deciders, Tells(e)'
           PROVE  (e = d \/ Tells(e)) /\ Decides(e)'
      BY <3>5, <3>11 DEF Decides, Tells
    <3>12. \A e \in Deciders : Tells(e)' =>
             /\ rows'[dec'[e].key].decision \in {"approved", "denied"}
             /\ resolved'[dec'[e].key] = <<>>
      BY <1>0, <2>1, <3>1, <3>3, <3>5, <3>6, <3>7, <3>10, <3>11 DEF VerdictInv
    <3>13. \A e, f \in Deciders :
             Tells(e)' /\ Tells(f)' /\ dec'[e].key = dec'[f].key => e = f
      <4>1. \A e \in Deciders : Tells(e)' /\ e # d =>
              Tells(e) /\ dec'[e].key = dec[e].key /\ dec[e].key # k
        BY <3>5, <3>7, <3>11
      <4>. QED  BY <1>0, <3>5, <4>1 DEF VerdictInv
    <3>. QED
      <4>1. \A l \in Keys : rows'[l] = NONE => resolved'[l] = <<>>
        BY <1>0, <3>1, <3>9 DEF VerdictInv
      <4>2. \A e \in Deciders : Decides(e)' =>
              /\ dec'[e].key \in Keys /\ rows'[dec'[e].key] # NONE
              /\ dec'[e].to \in {"approved", "denied"} /\ dec'[e].now \in Nat
        BY <1>0, <3>9, <3>10 DEF VerdictInv
      <4>. QED  BY <3>8, <3>12, <3>13, <4>1, <4>2 DEF VerdictInv
  <2>. QED  BY <2>2, <2>3
<1>5. ASSUME NEW d \in Deciders, DecideFails(d) PROVE VerdictInv'
  <2>1. /\ UNCHANGED <<rows, resolved>>
        /\ \A e \in Deciders : Decides(e)' => dec'[e] = dec[e]
    BY <1>0, <1>5 DEF DecideFails, Decided, OldDec, NewDec, Decides
  <2>. QED  BY <1>0, <2>1, VerdictFrame
<1>6. ASSUME NEW d \in Deciders, DecideTells(d) PROVE VerdictInv'
  <2>. DEFINE k == dec[d].key
  <2>1. /\ k \in Keys /\ rows[k] # NONE /\ Tells(d) /\ Decides(d)
        /\ rows[k].decision \in {"approved", "denied"} /\ resolved[k] = <<>>
    BY <1>0, <1>6 DEF DecideTells, VerdictInv, Decides, Tells
  <2>2. /\ resolved' = [resolved EXCEPT ![k] = Append(@, rows[k].decision)]
        /\ dec' = [dec EXCEPT ![d] = OldDec] /\ UNCHANGED rows
    BY <1>6 DEF DecideTells, Decided
  <2>3. \A e \in Deciders : Tells(e) /\ e # d => dec[e].key # k
    BY <1>0, <2>1 DEF VerdictInv
  <2>. HIDE DEF k
  <2>4. /\ resolved'[k] = <<rows[k].decision>>
        /\ \A l \in Keys : l # k => resolved'[l] = resolved[l]
    BY <1>0, <2>1, <2>2
  <2>5. \A e \in Deciders : Decides(e)' => e # d /\ dec'[e] = dec[e]
    BY <1>0, <2>2 DEF Decides, OldDec, NewDec
  <2>6. ASSUME NEW l \in Keys, rows'[l] # NONE PROVE RowInv(l)'
    <3>1. CASE l = k
      BY <1>0, <2>1, <2>2, <2>4, <3>1 DEF VerdictInv, RowInv
    <3>2. CASE l # k
      BY <1>0, <2>2, <2>4, <2>6, <3>2 DEF VerdictInv, RowInv
    <3>. QED  BY <3>1, <3>2
  <2>. QED  BY <1>0, <2>1, <2>2, <2>3, <2>4, <2>5, <2>6 DEF VerdictInv, Decides, Tells
<1>7. CASE ScanExpire
  <2>. DEFINE out == {k \in Keys : rows[k] # NONE /\ Expires(k)}
  <2>1. /\ rows' = [k \in Keys |-> IF k \in out
                       THEN [rows[k] EXCEPT !.decision = "timed_out", !.decided = scan.now]
                       ELSE rows[k]]
        /\ resolved' = [k \in Keys |-> IF k \in out
                           THEN Append(resolved[k], "timed_out") ELSE resolved[k]]
        /\ dec' = dec
    BY <1>7 DEF ScanExpire
  <2>0. \A k \in out : k \in Keys /\ rows[k] # NONE /\ Expires(k)
    OBVIOUS
  <2>. HIDE DEF out
  <2>2. ASSUME NEW k \in out
        PROVE  /\ rows'[k] # NONE /\ rows[k].decision = "pending"
               /\ RowInv(k)'
    <3>1. k \in Keys /\ rows[k] \in Row /\ rows[k].decision = "pending" /\ rows[k].exp < scan.now
      BY <1>0, <2>0 DEF Expires
    <3>2. rows'[k] = [rows[k] EXCEPT !.decision = "timed_out", !.decided = scan.now]
      BY <2>1, <3>1
    <3>3. /\ rows'[k].decision = "timed_out" /\ rows'[k].decided = scan.now
          /\ rows'[k].exp = rows[k].exp /\ rows'[k] \in Row
      BY <1>0, <3>1, <3>2 DEF Row, Decisions
    <3>4. resolved[k] = <<>>
      BY <1>0, <3>1 DEF VerdictInv, RowInv
    <3>5. resolved'[k] = <<"timed_out">>
      <4>1. resolved'[k] = Append(resolved[k], "timed_out")
        BY <2>1, <3>1
      <4>. QED  BY <3>4, <4>1
    <3>6. RowInv(k)'
      BY <1>0, <3>1, <3>3, <3>5 DEF RowInv, Row
    <3>. QED  BY <1>0, <3>1, <3>3, <3>6
  <2>3. \A k \in Keys : k \notin out => rows'[k] = rows[k] /\ resolved'[k] = resolved[k]
    BY <2>1
  <2>4. \A d \in Deciders : Tells(d) => dec[d].key \notin out
    BY <1>0, <2>2 DEF VerdictInv
  <2>5. \A k \in Keys : rows'[k] # NONE => RowInv(k)'
    BY <1>0, <2>2, <2>3 DEF VerdictInv, RowInv
  <2>. QED  BY <1>0, <2>1, <2>0, <2>2, <2>3, <2>4, <2>5 DEF VerdictInv, Decides, Tells
<1>8. CASE ScanExecute
  <2>3. ASSUME NEW k \in Keys
        PROVE  /\ rows'[k] = NONE <=> rows[k] = NONE
               /\ rows'[k].decision = rows[k].decision
               /\ rows'[k].decided = rows[k].decided
               /\ rows'[k].exp = rows[k].exp
    <3>1. CASE rows[k] \in Row /\ Due(k)
      <4>1. rows'[k] = [rows[k] EXCEPT !.executed = scan.now]
        BY <1>0, <1>8, <3>1 DEF ScanExecute
      <4>. QED  BY <1>0, <3>1, <4>1 DEF Row
    <3>2. CASE ~(rows[k] \in Row /\ Due(k))
      <4>1. rows'[k] = rows[k]
        BY <1>0, <1>8, <3>2 DEF ScanExecute
      <4>. QED  BY <4>1
    <3>. QED  BY <3>1, <3>2
  <2>4. UNCHANGED <<resolved, dec>>
    BY <1>8 DEF ScanExecute
  <2>. QED  BY <1>0, <2>3, <2>4, VerdictFrame
<1>9. CASE Crash
  <2>1. /\ UNCHANGED <<rows, resolved>>
        /\ \A d \in Deciders : Decides(d)' => dec'[d] = dec[d]
    BY <1>0, <1>9 DEF Crash, OldDec, NewDec, Decides
  <2>. QED  BY <1>0, <2>1, VerdictFrame
<1>10. CASE UNCHANGED vars
  BY <1>1, <1>10 DEF vars
<1>11. ASSUME NEW s \in Subs, Submission(s), ~StoreCommits(s) PROVE UNCHANGED <<rows, resolved, dec>>
  BY <1>11 DEF Submission, Submit, FindExisting, FindFails, Bind, TakeToken, StoreFails,
               InsertReturns, Cancelled, Fallback, FallbackFails, others
<1>12. CASE \/ \E r \in Reqs : Forward(r) \/ EndRequest(r)
            \/ Revoke \/ BeginScan \/ ScanFails \/ Tick
  BY <1>1, <1>12 DEF Forward, EndRequest, Revoke, BeginScan, ScanFails, Tick
<1>. QED
  BY <1>1, <1>2, <1>3, <1>4, <1>5, <1>6, <1>7, <1>8, <1>9, <1>10, <1>11, <1>12
  DEF Next, Decision, Scan

-----------------------------------------------------------------------------
(* The theorems.                                                           *)

\* In every behaviour, whatever the number of requests, submissions and
\* operators, a token is in one place and a verdict in one pair of hands.
THEOREM ApprovalsInvariant == Spec => []Inv
<1>1. Init => Inv
  BY InitInv
<1>2. Inv /\ [Next]_vars => Inv'
  BY NextType, SubInvNext, TokenNext, VerdictNext DEF Inv
<1>. QED  BY <1>1, <1>2, PTL DEF Spec

\* Every record of a submission, a row, a decision and the scan keeps its type
\* (approval_callback.rs, module_approval_broker.rs, module_approvals.rs).
THEOREM ApprovalsTypeCorrect == Spec => []TypeOK
<1>1. Inv => TypeOK
  BY DEF Inv
<1>. QED  BY <1>1, ApprovalsInvariant, PTL

\* One forwarded request leaves at most one row, gate or advise, however its
\* submissions overlap, fail and are cut off (drain.rs, admit_approval_callback).
THEOREM OneRow == Spec => []OneRowPerToken
<1>1. Inv => OneRowPerToken
  <2>. SUFFICES ASSUME Inv, NEW r \in Reqs
                PROVE  Cardinality({kind \in Kinds : rows[<<r, kind>>] # NONE}) <= 1
    BY DEF OneRowPerToken
  <2>. DEFINE made == {kind \in Kinds : rows[<<r, kind>>] # NONE}
  <2>1. \A i, j \in made : i = j
    BY DEF Inv, TokenInv, Keys
  <2>. HIDE DEF made
  <2>2. ASSUME made = {} PROVE Cardinality(made) = 0
    BY <2>2, FS_EmptySet
  <2>3. ASSUME NEW i \in made PROVE Cardinality(made) = 1
    <3>1. made = {i}
      BY <2>1, <2>3
    <3>2. Cardinality({i}) = 1
      BY FS_Singleton
    <3>. QED  BY <3>1, <3>2
  <2>4. Cardinality(made) <= 1
    BY <2>2, <2>3
  <2>. QED  BY <2>4 DEF made
<1>. QED  BY <1>1, ApprovalsInvariant, PTL

\* A row is announced at most once, as what it says, approved or denied in time
\* and timed out only after it, whoever wins the race of operators and scan
\* (module_approvals.rs, decide_module_approval and expire_module_approvals).
THEOREM OneVerdictEach == Spec => []OneVerdict
<1>1. Inv => OneVerdict
  BY DEF Inv, VerdictInv, RowInv, OneVerdict
<1>. QED  BY <1>1, ApprovalsInvariant, PTL
=============================================================================
