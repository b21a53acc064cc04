------------------------ MODULE ApprovalBroker_proofs ------------------------
(***************************************************************************)
(* The approval broker for every set of calls and clients, and any number  *)
(* of store errors, crashes and dropped callers.                           *)
(*                                                                         *)
(* The row is the only arbiter, so the inductive invariant says what each  *)
(* of the other places still knows of it: where a call can be before and   *)
(* after its row exists (CallInv), what a settled row records (RowInv),    *)
(* what a REST client and a oneshot channel carry away from it (CarryInv)  *)
(* and which troubles leave a row unanswered (TroubleInv).                 *)
(***************************************************************************)
EXTENDS ApprovalBroker, TLAPS

Unasked == {"unasked", "start", "standing", "session", "guardian", "register", "persist"}

\* A call has a row once it waits; a plan asks at once.
CallInv ==
    \A r \in Requests :
        /\ pc[r] \in Unasked => row[r].status = "none"
        /\ pc[r] = "waiting" => row[r].status # "none"
        /\ pc[r] = "from_row" => row[r].status \notin {"none", "pending"}
        /\ verdict[r] = "none" <=> pc[r] # "done"
        /\ Req[r].plan => pc[r] \notin {"standing", "session", "guardian"}

\* A row records a decision that was offered, and what is told is what it says.
RowInv ==
    \A r \in Requests :
        /\ row[r].status \in {"none", "pending"} => row[r].decision = NULL /\ told[r] = <<>>
        /\ told[r] # <<>> => told[r] = <<row[r].status>>
        /\ row[r].decision # NULL =>
              row[r].decision \in Offered(r) /\ row[r].status = StatusOf(row[r].decision)
        /\ row[r].status = "approved" => row[r].decision # NULL

Won(c) == rest[c].pc \in {"wake", "resume"}
Untold(c) == rest[c].pc = "wake"

\* What a client won is what the row says, and one client tells it.
CarryInv ==
    /\ \A c \in Clients : rest[c].pc # "idle" =>
          rest[c].d \in Offered(rest[c].r) /\ row[rest[c].r].status # "none"
    /\ \A c \in Clients : Won(c) =>
          row[rest[c].r] = [status |-> StatusOf(rest[c].d), decision |-> rest[c].d]
    /\ \A c \in Clients : Untold(c) => told[rest[c].r] = <<>>
    /\ \A b, c \in Clients : Untold(b) /\ Untold(c) /\ rest[b].r = rest[c].r => b = c
    /\ \A r \in Requests : chan[r] # NULL =>
          row[r] = [status |-> StatusOf(chan[r]), decision |-> chan[r]]

\* A caller is lost by a crash or a drop, and answered before its row by an error.
TroubleInv ==
    \A r \in Requests :
        /\ pc[r] = "gone" => crashes > 0
        /\ pc[r] = "dropped" => drops > 0
        /\ pc[r] = "done" /\ row[r].status = "pending" => faults > 0

\* The inductive invariant.
Inv == /\ TypeOK /\ CallInv /\ RowInv /\ CarryInv /\ TroubleInv
       /\ HumanDecides /\ GrantsEarned /\ AnswerHonoured

-----------------------------------------------------------------------------
(* Decisions and types.                                                    *)

\* What is offered is a decision, and what it stands for settles a row.
LEMMA DecisionFacts ==
    ASSUME NEW r \in Requests, NEW d \in Offered(r)
    PROVE  /\ d \in Decisions /\ d # NULL
           /\ StatusOf(d) \in {"approved", "denied", "aborted"}
BY BrokerAssumption DEF Offered, Decisions, StatusOf

\* A plan and a module call are offered nothing that lasts.
LEMMA OfferedToHumans ==
    ASSUME NEW r \in Requests, NeedsHuman(r), NEW d \in Offered(r), StatusOf(d) = "approved"
    PROVE  d = "approve"
BY BrokerAssumption DEF NeedsHuman, Offered, OfferTarget, PerCall, SessionWide, StatusOf

\* A decision that lasts names a grant that may be given.
LEMMA OfferedGrants ==
    ASSUME NEW r \in Requests
    PROVE  /\ "approve_for_target" \in Offered(r) => OfferTarget(r) # NULL /\ ~PerCall(r)
           /\ "approve_for_session" \in Offered(r) => ~PerCall(r)
BY BrokerAssumption DEF Offered, OfferTarget, PerCall, SessionWide

\* The ways a call goes on keep its type.
LEMMA CallType ==
    ASSUME pc \in [Requests -> Places], verdict \in [Requests -> Verdicts], NEW r \in Requests,
           \/ \E v \in Verdicts : Return(r, v)
           \/ \E l \in Places : Goto(r, l)
           \/ UNCHANGED <<pc, verdict>>
    PROVE  pc' \in [Requests -> Places] /\ verdict' \in [Requests -> Verdicts]
BY DEF Return, Goto, Places, Ended

\* So do a settled row and its announcement.
LEMMA SettleType ==
    ASSUME row \in [Requests -> Row], NEW R, NEW s \in Status, Settle(R, s)
    PROVE  row' \in [Requests -> Row]
<1>1. [status |-> s, decision |-> NULL] \in Row
  BY DEF Row
<1>. QED  BY <1>1 DEF Settle

LEMMA AnnounceType ==
    ASSUME told \in [Requests -> Seq(Status)], NEW R, NEW s \in Status, Announce(R, s)
    PROVE  told' \in [Requests -> Seq(Status)]
<1>1. \A r \in Requests : Append(told[r], s) \in Seq(Status)
  OBVIOUS
<1>. QED  BY <1>1 DEF Announce

\* What a resolution of one row amounts to, for the row and for what is told.
RowStep(r) ==
    \/ row'[r] = row[r] /\ told'[r] = told[r]
    \/ /\ pc[r] = "persist" /\ pc'[r] = "waiting" /\ verdict'[r] = "none"
       /\ row'[r] = [status |-> "pending", decision |-> NULL] /\ told'[r] = told[r]
    \/ /\ row[r].status = "pending"
       /\ \E s \in {"timed_out", "aborted"} :
             /\ row'[r] = [status |-> s, decision |-> NULL]
             /\ told'[r] \in {told[r], Append(told[r], s)}
    \/ /\ row[r].status = "pending" /\ told'[r] = told[r]
       /\ \E d \in Offered(r) : row'[r] = [status |-> StatusOf(d), decision |-> d]
    \/ /\ \E c \in Clients : Untold(c) /\ ~Untold(c)' /\ rest[c].r = r
       /\ row'[r] = row[r] /\ told'[r] = Append(told[r], row[r].status)

\* What a step of one call amounts to.
CallStep(r) ==
    \/ pc'[r] = pc[r] /\ verdict'[r] = verdict[r]
    \/ /\ pc[r] # "done" /\ verdict'[r] = verdict[r]
       /\ \/ /\ pc[r] \in Unasked /\ pc'[r] \in Unasked /\ row'[r] = row[r]
             /\ Req[r].plan => pc'[r] \in {"register", "persist"}
          \/ pc[r] = "persist" /\ pc'[r] = "waiting" /\ row'[r].status = "pending"
          \/ pc[r] = "waiting" /\ pc'[r] = "from_row" /\ row'[r] = row[r]
             /\ row[r].status # "pending"
          \/ pc'[r] = "dropped" /\ drops' > 0
          \/ pc'[r] = "gone" /\ crashes' > 0
    \/ /\ pc[r] # "done" /\ pc'[r] = "done"
       /\ verdict'[r] \in {"approved", "denied", "aborted"}
       /\ verdict'[r] = "approved" =>
             /\ row'[r] = row[r]
             /\ \/ row[r].status = "none" /\ ~NeedsHuman(r)
                \/ row[r].status = "approved"
       /\ row'[r].status = "pending" => faults' > 0
       /\ row'[r].status = "approved" =>
             \/ verdict'[r] = "approved" \/ r \in cancelled
             \/ faults' > 0 \/ crashes > 0 \/ drops > 0

Budget == faults' >= faults /\ crashes' >= crashes /\ drops' >= drops
          /\ faults' \in Nat /\ crashes' \in Nat /\ drops' \in Nat

\* A step of the broker is a step of each call and of each row.
Steps == Budget /\ cancelled \subseteq cancelled' /\ \A r \in Requests : RowStep(r) /\ CallStep(r)

\* A call that moves leaves the others where they are.
LEMMA CallMoves ==
    ASSUME pc \in [Requests -> Places], verdict \in [Requests -> Verdicts], NEW r \in Requests
    PROVE  /\ \A v : Return(r, v) =>
                /\ pc'[r] = "done" /\ verdict'[r] = v
                /\ \A q \in Requests : q # r => pc'[q] = pc[q] /\ verdict'[q] = verdict[q]
           /\ \A l : Goto(r, l) =>
                /\ pc'[r] = l /\ verdict'[r] = verdict[r]
                /\ \A q \in Requests : q # r => pc'[q] = pc[q] /\ verdict'[q] = verdict[q]
BY DEF Return, Goto

\* An error counts, and nothing else does.
LEMMA FaultFacts ==
    ASSUME faults \in Nat
    PROVE  /\ Fault => faults' = faults + 1 /\ faults' \in Nat /\ faults' > 0
           /\ NoFault => faults' = faults
BY DEF Fault, NoFault

\* The ways past the human, and the sender registered: no row is touched.
LEMMA EntryStep ==
    ASSUME Inv, NEW r \in Requests,
           Enter(r) \/ LookupStanding(r) \/ LookupSession(r) \/ GuardianAnswers(r) \/ Register(r)
    PROVE  TypeOK' /\ Steps
<1>0. /\ pc \in [Requests -> Places] /\ verdict \in [Requests -> Verdicts]
      /\ faults \in Nat /\ crashes \in Nat /\ drops \in Nat
      /\ TypeOK /\ CallInv
  BY DEF Inv, TypeOK
<1>1. /\ pc[r] \in Unasked /\ pc[r] # "done" /\ row[r].status = "none"
      /\ UNCHANGED <<row, expired, standing, chan, watchdog, cancelled, grants, rest, told, up,
                     crashes, drops>>
      /\ senders' \subseteq Requests
  BY <1>0 DEF Enter, LookupStanding, LookupSession, GuardianAnswers, Register, Unasked, CallInv,
              TypeOK, budget, store
<1>2. /\ \/ Return(r, "approved") /\ ~NeedsHuman(r)
         \/ \E l \in Unasked \cap Places : Goto(r, l) /\ (Req[r].plan => l \in {"register", "persist"})
      /\ Fault \/ NoFault
  <2>1. CASE Enter(r)
    BY <2>1, BrokerAssumption DEF Enter, Unasked, Places, NeedsHuman, PerCall
  <2>2. CASE LookupStanding(r)
    BY <1>0, <2>2 DEF LookupStanding, Unasked, Places, NeedsHuman, Held, CallInv
  <2>3. CASE LookupSession(r)
    BY <1>0, <2>3 DEF LookupSession, Unasked, Places, NeedsHuman, CallInv, budget, NoFault
  <2>4. CASE GuardianAnswers(r)
    BY <1>0, <2>4 DEF GuardianAnswers, Unasked, Places, NeedsHuman, CallInv
  <2>5. CASE Register(r)
    BY <2>5 DEF Register, Unasked, Places, NoFault, budget
  <2>. QED  BY <2>1, <2>2, <2>3, <2>4, <2>5
<1>3. pc' \in [Requests -> Places] /\ verdict' \in [Requests -> Verdicts]
  BY <1>0, <1>2, CallType DEF Verdicts
<1>4. TypeOK' /\ Budget
  <2>1. faults' \in Nat /\ faults' >= faults
    BY <1>0, <1>2, FaultFacts
  <2>. QED  BY <1>0, <1>1, <1>3, <2>1 DEF TypeOK, Budget
<1>5. ASSUME NEW q \in Requests PROVE RowStep(q) /\ CallStep(q)
  <2>1. RowStep(q)
    BY <1>1 DEF RowStep
  <2>2. CASE q # r
    BY <1>0, <1>2, <2>1, <2>2, CallMoves DEF CallStep
  <2>3. CASE q = r /\ Return(r, "approved") /\ ~NeedsHuman(r)
    BY <1>0, <1>1, <2>1, <2>3, CallMoves DEF CallStep
  <2>4. CASE q = r /\ \E l \in Unasked \cap Places :
                        Goto(r, l) /\ (Req[r].plan => l \in {"register", "persist"})
    BY <1>0, <1>1, <2>1, <2>4, CallMoves DEF CallStep
  <2>. QED  BY <1>2, <2>1, <2>2, <2>3, <2>4
<1>. QED  BY <1>1, <1>4, <1>5 DEF Steps

\* The row is written and the caller waits, or the call is denied.
LEMMA PersistStep == ASSUME Inv, NEW r \in Requests, Persist(r) PROVE TypeOK' /\ Steps
<1>0. /\ pc \in [Requests -> Places] /\ verdict \in [Requests -> Verdicts]
      /\ row \in [Requests -> Row] /\ faults \in Nat /\ crashes \in Nat /\ drops \in Nat
      /\ TypeOK /\ CallInv /\ RowInv
      /\ pc[r] = "persist" /\ row[r].status = "none" /\ row[r].decision = NULL
      /\ verdict[r] = "none"
  BY DEF Inv, TypeOK, Persist, CallInv, RowInv, Unasked
<1>1. /\ UNCHANGED <<expired, standing, chan, cancelled, grants, rest, told, up, crashes, drops>>
      /\ senders' \subseteq Requests /\ watchdog' \subseteq Requests
  BY <1>0 DEF Persist, TypeOK
<1>2. CASE /\ NoFault /\ Goto(r, "waiting") /\ row' = [row EXCEPT ![r].status = "pending"]
  <2>1. /\ row' \in [Requests -> Row]
        /\ row'[r] = [status |-> "pending", decision |-> NULL]
        /\ \A q \in Requests : q # r => row'[q] = row[q]
    <3>1. [row[r] EXCEPT !.status = "pending"] = [status |-> "pending", decision |-> NULL]
      BY <1>0 DEF Row
    <3>2. [row[r] EXCEPT !.status = "pending"] \in Row
      BY <3>1 DEF Row, Status
    <3>. QED  BY <1>0, <1>2, <3>1, <3>2
  <2>2. TypeOK' /\ Budget
    BY <1>0, <1>1, <1>2, <2>1, CallType DEF TypeOK, Budget, NoFault, Places
  <2>3. ASSUME NEW q \in Requests PROVE RowStep(q) /\ CallStep(q)
    BY <1>0, <1>1, <1>2, <2>1, CallMoves DEF RowStep, CallStep
  <2>. QED  BY <1>1, <2>2, <2>3 DEF Steps
<1>3. CASE Fault /\ Return(r, "denied") /\ UNCHANGED row
  <2>1. TypeOK' /\ Budget
    BY <1>0, <1>1, <1>3, CallType, FaultFacts DEF TypeOK, Budget, Verdicts
  <2>2. ASSUME NEW q \in Requests PROVE RowStep(q) /\ CallStep(q)
    BY <1>0, <1>1, <1>3, CallMoves DEF RowStep, CallStep
  <2>. QED  BY <1>1, <2>1, <2>2 DEF Steps
<1>. QED  BY <1>2, <1>3 DEF Persist

\* A decision is applied: the call is answered as the row says.
LEMMA DecisionStep ==
    ASSUME Inv, NEW r \in Requests, TakeDecision(r) \/ VerdictFromRow(r)
    PROVE  TypeOK' /\ Steps
<1>0. /\ pc \in [Requests -> Places] /\ verdict \in [Requests -> Verdicts]
      /\ row \in [Requests -> Row] /\ faults \in Nat /\ crashes \in Nat /\ drops \in Nat
      /\ TypeOK /\ CallInv /\ RowInv /\ CarryInv
  BY DEF Inv, TypeOK
<1>1. /\ UNCHANGED <<row, expired, chan, watchdog, cancelled, rest, told, up, crashes, drops>>
      /\ senders' \subseteq Requests /\ pc[r] # "done" /\ (Fault \/ NoFault)
  BY <1>0 DEF TakeDecision, VerdictFromRow, ApplyDecision, ApplyGrants, TypeOK
<1>2. PICK v \in {"approved", "denied", "aborted"} :
        /\ Return(r, v)
        /\ v = "approved" => row[r].status = "approved"
        /\ row[r].status = "approved" => v = "approved" \/ Fault
        /\ row[r].status # "pending"
  <2>1. CASE TakeDecision(r)
    <3>1. /\ chan[r] # NULL /\ Return(r, StatusOf(chan[r]))
          /\ row[r] = [status |-> StatusOf(chan[r]), decision |-> chan[r]]
      BY <1>0, <2>1 DEF TakeDecision, ApplyDecision, CarryInv
    <3>2. StatusOf(chan[r]) \in {"approved", "denied", "aborted"}
      BY <1>0, <3>1, DecisionFacts DEF RowInv
    <3>. QED  BY <3>1, <3>2
  <2>2. CASE VerdictFromRow(r)
    <3>1. row[r].status # "pending"
      BY <1>0, <2>2 DEF VerdictFromRow, CallInv
    <3>2. CASE row[r].status = "approved" /\ ApplyDecision(r, row[r].decision)
      <4>1. StatusOf(row[r].decision) = "approved"
        BY <1>0, <3>2 DEF RowInv
      <4>. QED  BY <3>1, <3>2, <4>1 DEF ApplyDecision
    <3>. QED  BY <2>2, <3>1, <3>2 DEF VerdictFromRow
  <2>. QED  BY <2>1, <2>2
<1>3. TypeOK' /\ Budget
  <2>1. pc' \in [Requests -> Places] /\ verdict' \in [Requests -> Verdicts]
    BY <1>0, <1>2, CallType DEF Verdicts
  <2>2. faults' \in Nat /\ faults' >= faults
    BY <1>0, <1>1, FaultFacts
  <2>. QED  BY <1>0, <1>1, <2>1, <2>2 DEF TypeOK, Budget
<1>4. ASSUME NEW q \in Requests PROVE RowStep(q) /\ CallStep(q)
  <2>1. RowStep(q)
    BY <1>1 DEF RowStep
  <2>2. CASE q # r
    BY <1>0, <1>2, <2>1, <2>2, CallMoves DEF CallStep
  <2>3. CASE q = r
    BY <1>0, <1>1, <1>2, <2>1, <2>3, CallMoves, FaultFacts DEF CallStep
  <2>. QED  BY <2>1, <2>2, <2>3
<1>. QED  BY <1>1, <1>3, <1>4 DEF Steps

\* A settled row, announced or not, is a step of every row.
LEMMA SettleRows ==
    ASSUME row \in [Requests -> Row], told \in [Requests -> Seq(Status)],
           NEW R \in SUBSET Pending, NEW s \in {"timed_out", "aborted"},
           Settle(R, s) /\ Announce(R, s)
    PROVE  /\ row' \in [Requests -> Row] /\ told' \in [Requests -> Seq(Status)]
           /\ \A q \in Requests : RowStep(q)
           /\ \A q \in R : row'[q].status = s
           /\ \A q \in Requests \ R : row'[q] = row[q]
<1>1. row' \in [Requests -> Row] /\ told' \in [Requests -> Seq(Status)]
  BY SettleType, AnnounceType DEF Status
<1>2. ASSUME NEW q \in R
      PROVE  /\ row'[q] = [status |-> s, decision |-> NULL] /\ told'[q] = Append(told[q], s)
             /\ row[q].status = "pending"
  BY DEF Settle, Announce, Pending
<1>3. ASSUME NEW q \in Requests \ R
      PROVE  row'[q] = row[q] /\ told'[q] = told[q]
  BY DEF Settle, Announce
<1>. QED  BY <1>1, <1>2, <1>3 DEF RowStep

\* The caller's own timer and its run's token.
LEMMA CallerEndsStep ==
    ASSUME Inv, NEW r \in Requests, TimerFires(r) \/ CancelFires(r)
    PROVE  TypeOK' /\ Steps
<1>0. /\ pc \in [Requests -> Places] /\ verdict \in [Requests -> Verdicts]
      /\ row \in [Requests -> Row] /\ told \in [Requests -> Seq(Status)]
      /\ faults \in Nat /\ crashes \in Nat /\ drops \in Nat
      /\ TypeOK /\ CallInv
      /\ pc[r] = "waiting" /\ verdict[r] = "none" /\ row[r].status # "none"
  BY DEF Inv, TypeOK, CallInv, TimerFires, CancelFires
<1>1. /\ UNCHANGED <<expired, standing, chan, watchdog, cancelled, grants, rest, up, crashes, drops>>
      /\ senders' \subseteq Requests /\ (Fault \/ NoFault)
  BY <1>0 DEF TimerFires, CancelFires, TypeOK
<1>2. \/ UNCHANGED <<row, told>>
      \/ \E s \in {"timed_out", "aborted"} :
            r \in Pending /\ Settle({r}, s) /\ Announce({r}, s)
  BY DEF TimerFires, CancelFires
<1>3. /\ row' \in [Requests -> Row] /\ told' \in [Requests -> Seq(Status)]
      /\ \A q \in Requests : RowStep(q)
  <2>1. CASE UNCHANGED <<row, told>>
    BY <1>0, <2>1 DEF RowStep
  <2>2. ASSUME NEW s \in {"timed_out", "aborted"},
               r \in Pending /\ Settle({r}, s) /\ Announce({r}, s)
        PROVE  /\ row' \in [Requests -> Row] /\ told' \in [Requests -> Seq(Status)]
               /\ \A q \in Requests : RowStep(q)
    <3>1. {r} \in SUBSET Pending
      BY <2>2
    <3>. QED  BY <1>0, <2>2, <3>1, SettleRows
  <2>. QED  BY <1>2, <2>1, <2>2
<1>4. \/ Goto(r, "from_row") /\ r \notin Pending /\ row' = row
      \/ /\ \E v \in {"denied", "aborted"} : Return(r, v)
         /\ Fault \/ row'[r].status \in {"timed_out", "aborted"} \/ r \in cancelled
         /\ Fault \/ row'[r].status # "pending"
  BY <1>0 DEF TimerFires, CancelFires, Settle, Pending
<1>5. TypeOK' /\ Budget
  <2>1. pc' \in [Requests -> Places] /\ verdict' \in [Requests -> Verdicts]
    BY <1>0, <1>4, CallType DEF Verdicts, Places
  <2>2. faults' \in Nat /\ faults' >= faults
    BY <1>0, <1>1, FaultFacts
  <2>. QED  BY <1>0, <1>1, <1>3, <2>1, <2>2 DEF TypeOK, Budget
<1>6. ASSUME NEW q \in Requests PROVE CallStep(q)
  <2>1. CASE q # r
    BY <1>0, <1>4, <2>1, CallMoves DEF CallStep
  <2>2. CASE q = r
    BY <1>0, <1>1, <1>4, <2>2, CallMoves, FaultFacts DEF CallStep, Pending
  <2>. QED  BY <2>1, <2>2
<1>. QED  BY <1>1, <1>3, <1>5, <1>6 DEF Steps

\* The tasks beside the callers: a row times out, or an error leaves it.
LEMMA TaskStep ==
    ASSUME Inv, (\E r \in Requests : WatchdogFires(r)) \/ TimeoutExpired
    PROVE  TypeOK' /\ Steps
<1>0. /\ row \in [Requests -> Row] /\ told \in [Requests -> Seq(Status)]
      /\ faults \in Nat /\ crashes \in Nat /\ drops \in Nat
      /\ TypeOK
  BY DEF Inv, TypeOK
<1>1. /\ UNCHANGED <<expired, standing, pc, verdict, senders, chan, cancelled, grants, rest, up,
                     crashes, drops>>
      /\ watchdog' \subseteq Requests /\ (Fault \/ NoFault)
      /\ \/ UNCHANGED <<row, told>>
         \/ \E R \in SUBSET Pending : Settle(R, "timed_out") /\ Announce(R, "timed_out")
  <2>1. ASSUME NEW r \in Requests, WatchdogFires(r)
        PROVE  /\ UNCHANGED <<expired, standing, pc, verdict, senders, chan, cancelled, grants,
                              rest, up, crashes, drops>>
               /\ watchdog' \subseteq Requests /\ (Fault \/ NoFault)
               /\ \/ UNCHANGED <<row, told>>
                  \/ \E R \in SUBSET Pending : Settle(R, "timed_out") /\ Announce(R, "timed_out")
    <3>1. r \in Pending => {r} \in SUBSET Pending
      OBVIOUS
    <3>. QED  BY <1>0, <2>1, <3>1 DEF WatchdogFires, TypeOK
  <2>2. CASE TimeoutExpired
    <3>1. Pending \cap expired \in SUBSET Pending
      OBVIOUS
    <3>. QED  BY <1>0, <2>2, <3>1 DEF TimeoutExpired, calls, budget, NoFault, TypeOK
  <2>. QED  BY <2>1, <2>2
<1>2. /\ row' \in [Requests -> Row] /\ told' \in [Requests -> Seq(Status)]
      /\ \A q \in Requests : RowStep(q)
  <2>1. CASE UNCHANGED <<row, told>>
    BY <1>0, <2>1 DEF RowStep
  <2>2. ASSUME NEW R \in SUBSET Pending, Settle(R, "timed_out") /\ Announce(R, "timed_out")
        PROVE  /\ row' \in [Requests -> Row] /\ told' \in [Requests -> Seq(Status)]
               /\ \A q \in Requests : RowStep(q)
    BY <1>0, <2>2, SettleRows
  <2>. QED  BY <1>1, <2>1, <2>2
<1>3. faults' \in Nat /\ faults' >= faults
  BY <1>0, <1>1, FaultFacts
<1>4. TypeOK' /\ Budget
  BY <1>0, <1>1, <1>2, <1>3 DEF TypeOK, Budget
<1>. QED  BY <1>1, <1>2, <1>4 DEF Steps, CallStep

\* What leaves every call and every row where it is.
LEMMA QuietStep ==
    ASSUME Inv,
           \/ \E r \in Requests : CancelRun(r) \/ Expire(r)
           \/ \E g \in standing : Revoke(g)
           \/ \E c \in Clients, r \in Requests, d \in Decisions : Submit(c, r, d)
           \/ Quiescent
           \/ UNCHANGED vars
    PROVE  TypeOK' /\ Steps
<1>. USE DEF store, calls, budget, vars
<1>0. /\ rest \in [Clients -> RestCall \cup {Idle}] /\ TypeOK
      /\ faults \in Nat /\ crashes \in Nat /\ drops \in Nat
  BY DEF Inv, TypeOK
<1>1. /\ UNCHANGED <<row, pc, verdict, senders, chan, watchdog, told, up, faults, crashes, drops>>
      /\ cancelled \subseteq cancelled' /\ cancelled' \subseteq Requests
      /\ expired' \subseteq Requests
  BY <1>0 DEF CancelRun, Expire, Revoke, Submit, Quiescent, TypeOK
<1>2. rest' \in [Clients -> RestCall \cup {Idle}]
  <2>1. ASSUME NEW c \in Clients, NEW r \in Requests, NEW d \in Decisions, Submit(c, r, d)
        PROVE  rest' \in [Clients -> RestCall \cup {Idle}]
    <3>1. [pc |-> "decide", r |-> r, d |-> d] \in RestCall
      BY DEF RestCall
    <3>. QED  BY <1>0, <2>1, <3>1 DEF Submit
  <2>. QED  BY <1>0, <2>1 DEF CancelRun, Expire, Revoke, Quiescent
<1>3. TypeOK' /\ Budget
  BY <1>0, <1>1, <1>2 DEF TypeOK, Budget
<1>. QED  BY <1>1, <1>3 DEF Steps, RowStep, CallStep

LEMMA DropStep == ASSUME Inv, NEW r \in Requests, DropCaller(r) PROVE TypeOK' /\ Steps
<1>0. /\ pc \in [Requests -> Places] /\ verdict \in [Requests -> Verdicts]
      /\ faults \in Nat /\ crashes \in Nat /\ drops \in Nat
      /\ TypeOK /\ pc[r] # "done"
  BY DEF Inv, TypeOK, DropCaller
<1>1. /\ UNCHANGED <<row, expired, standing, chan, watchdog, cancelled, grants, rest, told, up,
                     faults, crashes>>
      /\ senders' \subseteq Requests /\ drops' = drops + 1 /\ Goto(r, "dropped")
  BY <1>0 DEF DropCaller, store, TypeOK
<1>2. TypeOK' /\ Budget
  <2>1. pc' \in [Requests -> Places] /\ verdict' \in [Requests -> Verdicts]
    BY <1>0, <1>1, CallType DEF Places, Ended
  <2>. QED  BY <1>0, <1>1, <2>1 DEF TypeOK, Budget
<1>3. drops' > 0
  BY <1>0, <1>1
<1>4. ASSUME NEW q \in Requests PROVE RowStep(q) /\ CallStep(q)
  BY <1>0, <1>1, <1>3, CallMoves DEF RowStep, CallStep
<1>. QED  BY <1>1, <1>2, <1>4 DEF Steps

\* A client that acts on a row has a decision that was offered for it; one that
\* won the row finds its decision there.
LEMMA RestFacts ==
    ASSUME TypeOK, CarryInv, NEW c \in Clients, rest[c].pc # "idle"
    PROVE  /\ rest[c] \in RestCall /\ rest[c].r \in Requests
           /\ rest[c].d \in Decisions /\ rest[c].d \in Offered(rest[c].r)
           /\ row[rest[c].r] \in Row
           /\ Won(c) => /\ row[rest[c].r].status = StatusOf(rest[c].d)
                        /\ row[rest[c].r].decision = rest[c].d
<1>1. rest[c] \in RestCall
  BY DEF TypeOK, Idle
<1>2. rest[c].r \in Requests /\ rest[c].d \in Decisions
  BY <1>1 DEF RestCall
<1>3. row[rest[c].r] \in Row
  BY <1>2 DEF TypeOK
<1>4. rest[c].d \in Offered(rest[c].r)
  BY DEF CarryInv
<1>5. Won(c) => row[rest[c].r] = [status |-> StatusOf(rest[c].d), decision |-> rest[c].d]
  BY DEF CarryInv
<1>. QED  BY <1>1, <1>2, <1>3, <1>4, <1>5

\* The client's decision is written, or it lost the row.
LEMMA CasStep == ASSUME Inv, NEW c \in Clients, Cas(c) PROVE TypeOK' /\ Steps
<1>0. /\ row \in [Requests -> Row] /\ rest \in [Clients -> RestCall \cup {Idle}]
      /\ faults \in Nat /\ crashes \in Nat /\ drops \in Nat
      /\ TypeOK /\ TroubleInv
      /\ rest[c] \in RestCall /\ rest[c].r \in Requests /\ rest[c].d \in Offered(rest[c].r)
  BY RestFacts DEF Inv, TypeOK, Cas
<1>1. /\ UNCHANGED <<expired, standing, pc, verdict, senders, chan, watchdog, cancelled, grants,
                     told, up, crashes, drops>>
      /\ (Fault \/ NoFault)
  BY DEF Cas, calls
<1>2. /\ StatusOf(rest[c].d) \in Status /\ rest[c].d \in Decisions
  BY <1>0, DecisionFacts DEF Status
<1>3. rest' \in [Clients -> RestCall \cup {Idle}]
  <2>1. [rest[c] EXCEPT !.pc = "wake"] \in RestCall
    BY <1>0 DEF RestCall
  <2>. QED  BY <1>0, <2>1 DEF Cas
<1>4. \/ row' = row
      \/ /\ rest[c].r \in Pending
         /\ row' = [row EXCEPT ![rest[c].r] =
                        [status |-> StatusOf(rest[c].d), decision |-> rest[c].d]]
  BY DEF Cas
<1>5. row' \in [Requests -> Row]
  BY <1>0, <1>2, <1>4 DEF Row
<1>6. \A q \in Requests : RowStep(q)
  BY <1>0, <1>1, <1>4 DEF RowStep, Pending
<1>7. TypeOK' /\ Budget
  <2>1. faults' \in Nat /\ faults' >= faults
    BY <1>0, <1>1, FaultFacts
  <2>. QED  BY <1>0, <1>1, <1>3, <1>5, <2>1 DEF TypeOK, Budget
<1>. QED  BY <1>1, <1>6, <1>7 DEF Steps, CallStep

\* The winner tells what the row says.
LEMMA WakeStep == ASSUME Inv, NEW c \in Clients, Wake(c) PROVE TypeOK' /\ Steps
<1>0. /\ rest \in [Clients -> RestCall \cup {Idle}] /\ told \in [Requests -> Seq(Status)]
      /\ chan \in [Requests -> Decisions \cup {NULL}]
      /\ faults \in Nat /\ crashes \in Nat /\ drops \in Nat
      /\ TypeOK /\ Untold(c) /\ rest[c] \in RestCall
      /\ rest[c].r \in Requests /\ rest[c].d \in Decisions
      /\ row[rest[c].r].status = StatusOf(rest[c].d)
      /\ row[rest[c].r] \in Row
  BY RestFacts DEF Inv, TypeOK, Wake, Won, Untold
<1>1. /\ UNCHANGED <<row, expired, standing, pc, verdict, watchdog, cancelled, grants, up,
                     faults, crashes, drops>>
      /\ senders' \subseteq Requests
      /\ chan' \in [Requests -> Decisions \cup {NULL}]
  BY <1>0 DEF Wake, store, budget, TypeOK
<1>2. rest' \in [Clients -> RestCall \cup {Idle}]
  <2>1. [rest[c] EXCEPT !.pc = "resume"] \in RestCall
    BY <1>0 DEF RestCall
  <2>. QED  BY <1>0, <2>1 DEF Wake
<1>3. Announce({rest[c].r}, StatusOf(rest[c].d)) /\ StatusOf(rest[c].d) \in Status
  BY <1>0 DEF Wake, Row
<1>4. told' \in [Requests -> Seq(Status)]
  BY <1>0, <1>3, AnnounceType
<1>5. \A q \in Requests : RowStep(q)
  <2>1. ~Untold(c)'
    BY <1>0 DEF Wake, Untold, RestCall
  <2>. QED  BY <1>0, <1>1, <1>3, <2>1 DEF RowStep, Announce
<1>6. TypeOK' /\ Budget
  BY <1>0, <1>1, <1>2, <1>4 DEF TypeOK, Budget
<1>. QED  BY <1>1, <1>5, <1>6 DEF Steps, CallStep

\* A call resumed for a caller that is gone is answered as the row says, or not.
LEMMA ResumeStep == ASSUME Inv, NEW c \in Clients, Resume(c) PROVE TypeOK' /\ Steps
<1>0. /\ rest \in [Clients -> RestCall \cup {Idle}]
      /\ pc \in [Requests -> Places] /\ verdict \in [Requests -> Verdicts]
      /\ faults \in Nat /\ crashes \in Nat /\ drops \in Nat
      /\ TypeOK /\ TroubleInv
      /\ rest[c].r \in Requests /\ rest[c].d \in Offered(rest[c].r)
      /\ row[rest[c].r].status = StatusOf(rest[c].d)
  BY RestFacts DEF Inv, TypeOK, Resume, Won
<1>. DEFINE r == rest[c].r
            d == rest[c].d
<1>1. /\ UNCHANGED <<row, expired, senders, chan, watchdog, cancelled, told, up, crashes, drops>>
      /\ rest' \in [Clients -> RestCall \cup {Idle}]
  BY <1>0 DEF Resume
<1>2. Fault \/ NoFault
  BY DEF Resume, ApplyGrants
<1>3. \/ UNCHANGED <<pc, verdict>>
      \/ pc[r] \in {"gone", "dropped"} /\ (Return(r, StatusOf(d)) \/ Return(r, "aborted"))
  BY DEF Resume
<1>4. StatusOf(d) \in {"approved", "denied", "aborted"}
  BY <1>0, DecisionFacts
<1>. HIDE DEF d
<1>5. TypeOK' /\ Budget
  <2>1. pc' \in [Requests -> Places] /\ verdict' \in [Requests -> Verdicts]
    BY <1>0, <1>3, <1>4, CallType DEF Verdicts
  <2>2. faults' \in Nat /\ faults' >= faults
    BY <1>0, <1>2, FaultFacts
  <2>. QED  BY <1>0, <1>1, <2>1, <2>2 DEF TypeOK, Budget, Resume, ApplyGrants
<1>6. ASSUME NEW q \in Requests PROVE RowStep(q) /\ CallStep(q)
  <2>1. RowStep(q)
    BY <1>1 DEF RowStep
  <2>2. CASE UNCHANGED <<pc, verdict>> \/ q # r
    BY <1>0, <1>3, <2>1, <2>2, CallMoves DEF CallStep
  <2>3. CASE q = r /\ pc[r] \in {"gone", "dropped"}
             /\ (Return(r, StatusOf(d)) \/ Return(r, "aborted"))
    <3>1. crashes > 0 \/ drops > 0
      BY <1>0, <2>3 DEF TroubleInv
    <3>2. row[q].status = StatusOf(d) /\ row[q].status # "pending" /\ row'[q] = row[q]
      BY <1>0, <1>1, <1>4, <2>3 DEF d
    <3>3. pc[q] # "done" /\ pc'[q] = "done" /\ verdict'[q] \in {StatusOf(d), "aborted"}
      BY <1>0, <2>3, CallMoves
    <3>. QED  BY <1>4, <2>1, <3>1, <3>2, <3>3 DEF CallStep
  <2>. QED  BY <1>3, <2>2, <2>3
<1>. QED  BY <1>1, <1>5, <1>6 DEF Steps

\* The daemon dies: the callers are gone, the tables are not.
LEMMA CrashStep == ASSUME Inv, Crash PROVE TypeOK' /\ Steps
<1>0. /\ pc \in [Requests -> Places] /\ TypeOK
      /\ faults \in Nat /\ crashes \in Nat /\ drops \in Nat
  BY DEF Inv, TypeOK
<1>1. /\ UNCHANGED <<row, expired, standing, verdict, cancelled, told, faults, drops>>
      /\ senders' = {} /\ watchdog' = {} /\ crashes' = crashes + 1 /\ up' = FALSE
  BY DEF Crash, store
<1>2. pc' = [r \in Requests |-> IF pc[r] \in Ended \cup {"start"} THEN pc[r] ELSE "gone"]
  BY DEF Crash
<1>3. pc' \in [Requests -> Places]
  BY <1>0, <1>2 DEF Places, Ended
<1>4. chan' \in [Requests -> Decisions \cup {NULL}] /\ rest' \in [Clients -> RestCall \cup {Idle}]
  BY DEF Crash
<1>5. crashes' > 0 /\ crashes' >= crashes /\ crashes' \in Nat
  BY <1>0, <1>1
<1>6. Budget
  BY <1>0, <1>1, <1>5 DEF Budget
<1>7. TypeOK'
  BY <1>0, <1>1, <1>3, <1>4, <1>5 DEF TypeOK
<1>8. ASSUME NEW r \in Requests PROVE pc'[r] = pc[r] \/ (pc[r] # "done" /\ pc'[r] = "gone")
  <2>1. CASE pc[r] \in Ended \cup {"start"}
    BY <1>2, <2>1
  <2>2. CASE pc[r] \notin Ended \cup {"start"}
    <3>1. pc'[r] = "gone"
      BY <1>2, <2>2
    <3>2. pc[r] # "done"
      BY <2>2 DEF Ended
    <3>. QED  BY <3>1, <3>2
  <2>. QED  BY <2>1, <2>2
<1>. QED  BY <1>1, <1>5, <1>6, <1>7, <1>8 DEF Steps, RowStep, CallStep

\* Startup settles the rows nobody can answer any more.
LEMMA RestartStep == ASSUME Inv, Restart PROVE TypeOK' /\ Steps
<1>0. /\ row \in [Requests -> Row] /\ told \in [Requests -> Seq(Status)] /\ TypeOK
      /\ faults \in Nat /\ crashes \in Nat /\ drops \in Nat
  BY DEF Inv, TypeOK
<1>1. PICK lost \in SUBSET (Pending \ expired) :
        row' = [r \in Requests |->
                  IF r \in Pending \cap expired
                  THEN [status |-> "timed_out", decision |-> NULL]
                  ELSE IF r \in lost THEN [status |-> "aborted", decision |-> NULL]
                  ELSE row[r]]
  BY DEF Restart
<1>2. /\ Announce(Pending \cap expired, "timed_out") /\ up' = TRUE
      /\ UNCHANGED <<expired, standing, pc, verdict, senders, chan, watchdog, cancelled, grants,
                     rest, faults, crashes, drops>>
  BY DEF Restart, calls, budget
<1>3. told' \in [Requests -> Seq(Status)]
  BY <1>0, <1>2, AnnounceType DEF Status
<1>4. row' \in [Requests -> Row]
  <2>1. \A s \in {"timed_out", "aborted"} : [status |-> s, decision |-> NULL] \in Row
    BY DEF Row, Status
  <2>. QED  BY <1>0, <1>1, <2>1
<1>5. TypeOK' /\ Budget
  BY <1>0, <1>2, <1>3, <1>4 DEF TypeOK, Budget
<1>6. \A q \in Requests : RowStep(q)
  BY <1>1, <1>2 DEF RowStep, Announce, Pending
<1>. QED  BY <1>2, <1>5, <1>6 DEF Steps, CallStep

\* Every step of the broker is one step of each call and each row.
LEMMA NextSteps == ASSUME Inv, [Next]_vars PROVE TypeOK' /\ Steps
BY EntryStep, PersistStep, DecisionStep, CallerEndsStep, TaskStep, QuietStep, DropStep, CasStep,
   WakeStep, ResumeStep, CrashStep, RestartStep
DEF Next, Caller

-----------------------------------------------------------------------------
(* The invariant.                                                          *)

\* A settled row stays as it is.
LEMMA SettledStays ==
    ASSUME Inv, Steps, NEW r \in Requests, row[r].status \notin {"none", "pending"}
    PROVE  row'[r] = row[r]
BY DEF Inv, Steps, RowStep, CallInv, Unasked

\* A row, once asked for, is never gone.
LEMMA RowStays ==
    ASSUME Steps, NEW r \in Requests, row'[r].status = "none"
    PROVE  row[r].status = "none"
<1>1. RowStep(r)
  BY DEF Steps
<1>2. ASSUME NEW d \in Offered(r), row'[r] = [status |-> StatusOf(d), decision |-> d]
      PROVE  row'[r].status # "none"
  BY <1>2, DecisionFacts
<1>3. ASSUME NEW s \in {"pending", "timed_out", "aborted"},
             row'[r] = [status |-> s, decision |-> NULL]
      PROVE  row'[r].status # "none"
  BY <1>3
<1>. QED  BY <1>1, <1>2, <1>3 DEF RowStep

LEMMA CallInvNext == ASSUME Inv, [Next]_vars PROVE CallInv'
<1>1. Steps /\ TypeOK /\ CallInv /\ RowInv
  BY NextSteps DEF Inv
<1>. SUFFICES ASSUME NEW r \in Requests
              PROVE  /\ pc'[r] \in Unasked => row'[r].status = "none"
                     /\ pc'[r] = "waiting" => row'[r].status # "none"
                     /\ pc'[r] = "from_row" => row'[r].status \notin {"none", "pending"}
                     /\ verdict'[r] = "none" <=> pc'[r] # "done"
                     /\ Req[r].plan => pc'[r] \notin {"standing", "session", "guardian"}
  BY DEF CallInv
<1>2. RowStep(r) /\ CallStep(r)
  BY <1>1 DEF Steps
<1>3. row[r].status \notin {"none", "pending"} => row'[r] = row[r]
  BY <1>1, SettledStays DEF Inv
<1>4. row'[r].status = "none" => row[r].status = "none"
  BY <1>1, RowStays
<1>5. row[r].status = "none" => row'[r].status = "none" \/ pc'[r] = "waiting"
  BY <1>1, <1>2, DecisionFacts DEF RowStep
<1>. QED  BY <1>1, <1>2, <1>3, <1>4, <1>5 DEF CallStep, CallInv, Unasked

LEMMA RowInvNext == ASSUME Inv, [Next]_vars PROVE RowInv'
<1>1. Steps /\ TypeOK /\ CallInv /\ RowInv /\ CarryInv
  BY NextSteps DEF Inv
<1>. SUFFICES ASSUME NEW r \in Requests
              PROVE  /\ row'[r].status \in {"none", "pending"} =>
                           row'[r].decision = NULL /\ told'[r] = <<>>
                     /\ told'[r] # <<>> => told'[r] = <<row'[r].status>>
                     /\ row'[r].decision # NULL =>
                           /\ row'[r].decision \in Offered(r)
                           /\ row'[r].status = StatusOf(row'[r].decision)
                     /\ row'[r].status = "approved" => row'[r].decision # NULL
  BY DEF RowInv
<1>2. RowStep(r)
  BY <1>1 DEF Steps
<1>3. CASE row'[r] = row[r] /\ told'[r] = told[r]
  BY <1>1, <1>3 DEF RowInv
<1>4. CASE /\ pc[r] = "persist" /\ told'[r] = told[r]
           /\ row'[r] = [status |-> "pending", decision |-> NULL]
  BY <1>1, <1>4 DEF RowInv, CallInv, Unasked
<1>5. ASSUME row[r].status = "pending", NEW s \in {"timed_out", "aborted"},
             row'[r] = [status |-> s, decision |-> NULL],
             told'[r] \in {told[r], Append(told[r], s)}
      PROVE  /\ row'[r].status = s /\ row'[r].decision = NULL
             /\ told'[r] # <<>> => told'[r] = <<s>>
  <2>1. told[r] = <<>>
    BY <1>1, <1>5 DEF RowInv
  <2>. QED  BY <1>5, <2>1
<1>6. ASSUME row[r].status = "pending", told'[r] = told[r], NEW d \in Offered(r),
             row'[r] = [status |-> StatusOf(d), decision |-> d]
      PROVE  /\ row'[r].status = StatusOf(d) /\ row'[r].decision = d /\ d # NULL
             /\ told'[r] = <<>> /\ StatusOf(d) \notin {"none", "pending"}
  BY <1>1, <1>6, DecisionFacts DEF RowInv
<1>7. ASSUME NEW c \in Clients, Untold(c), rest[c].r = r, row'[r] = row[r],
             told'[r] = Append(told[r], row[r].status)
      PROVE  /\ row[r].status \notin {"none", "pending"}
             /\ told'[r] = <<row[r].status>>
  <2>1. Won(c) /\ rest[c].pc # "idle"
    BY <1>7 DEF Won, Untold
  <2>2. row[r].status = StatusOf(rest[c].d) /\ rest[c].d \in Offered(r)
    BY <1>1, <1>7, <2>1, RestFacts
  <2>3. told[r] = <<>>
    BY <1>1, <1>7 DEF CarryInv
  <2>. QED  BY <1>7, <2>2, <2>3, DecisionFacts
<1>. QED  BY <1>1, <1>2, <1>3, <1>4, <1>5, <1>6, <1>7 DEF RowStep, RowInv

LEMMA TroubleInvNext == ASSUME Inv, [Next]_vars PROVE TroubleInv'
<1>1. Steps /\ TypeOK /\ TroubleInv /\ RowInv
  BY NextSteps DEF Inv
<1>2. Budget /\ faults \in Nat /\ crashes \in Nat /\ drops \in Nat
  BY <1>1 DEF Steps, TypeOK
<1>. SUFFICES ASSUME NEW r \in Requests
              PROVE  /\ pc'[r] = "gone" => crashes' > 0
                     /\ pc'[r] = "dropped" => drops' > 0
                     /\ pc'[r] = "done" /\ row'[r].status = "pending" => faults' > 0
  BY DEF TroubleInv
<1>3. RowStep(r) /\ CallStep(r)
  BY <1>1 DEF Steps
<1>4. row'[r].status = "pending" => row[r].status = "pending" \/ pc'[r] = "waiting"
  BY <1>3, DecisionFacts DEF RowStep
<1>. QED  BY <1>1, <1>2, <1>3, <1>4 DEF TroubleInv, CallStep, Budget, Unasked

\* What a step does to a client's call and to a caller's channel.
RestStep(c) ==
    \/ rest'[c] = rest[c]
    \/ rest'[c].pc = "idle"
    \/ /\ rest'[c].pc = "decide" /\ rest'[c].r \in Requests
       /\ row[rest'[c].r].status = "pending" /\ rest'[c].d \in Offered(rest'[c].r)
    \/ /\ rest[c].pc = "decide" /\ rest'[c].pc = "wake"
       /\ rest'[c].r = rest[c].r /\ rest'[c].d = rest[c].d
       /\ row[rest[c].r].status = "pending" /\ told'[rest[c].r] = told[rest[c].r]
       /\ row'[rest[c].r] = [status |-> StatusOf(rest[c].d), decision |-> rest[c].d]
       /\ \A b \in Clients : b # c => rest'[b] = rest[b]
    \/ /\ rest[c].pc = "wake" /\ rest'[c].pc = "resume"
       /\ rest'[c].r = rest[c].r /\ rest'[c].d = rest[c].d

ChanStep(r) ==
    \/ chan'[r] \in {chan[r], NULL}
    \/ \E c \in Clients : Untold(c) /\ rest[c].r = r /\ chan'[r] = rest[c].d

LEMMA CarrySteps ==
    ASSUME Inv, [Next]_vars
    PROVE  (\A c \in Clients : RestStep(c)) /\ (\A r \in Requests : ChanStep(r))
<1>0. /\ rest \in [Clients -> RestCall \cup {Idle}] /\ chan \in [Requests -> Decisions \cup {NULL}]
      /\ row \in [Requests -> Row] /\ TypeOK /\ CarryInv
  BY DEF Inv, TypeOK
<1>1. ASSUME NEW c \in Clients, NEW r \in Requests, NEW d \in Decisions, Submit(c, r, d)
      PROVE  \A b \in Clients : RestStep(b)
  BY <1>0, <1>1 DEF Submit, RestStep, Pending
<1>2. ASSUME NEW c \in Clients, Cas(c) PROVE \A b \in Clients : RestStep(b)
  <2>1. rest[c] \in RestCall /\ rest[c].r \in Requests /\ rest[c].pc = "decide"
    BY <1>0, <1>2, RestFacts DEF Cas
  <2>2. CASE rest' = [rest EXCEPT ![c] = Idle]
    BY <1>0, <2>2 DEF RestStep, Idle
  <2>3. CASE /\ rest[c].r \in Pending /\ rest' = [rest EXCEPT ![c].pc = "wake"]
             /\ row' = [row EXCEPT ![rest[c].r] =
                            [status |-> StatusOf(rest[c].d), decision |-> rest[c].d]]
    <3>1. rest'[c] = [pc |-> "wake", r |-> rest[c].r, d |-> rest[c].d]
      BY <1>0, <2>1, <2>3 DEF RestCall
    <3>2. /\ row[rest[c].r].status = "pending" /\ told' = told
          /\ row'[rest[c].r] = [status |-> StatusOf(rest[c].d), decision |-> rest[c].d]
      BY <1>0, <1>2, <2>1, <2>3 DEF Cas, Pending
    <3>. QED  BY <1>0, <2>1, <2>3, <3>1, <3>2 DEF RestStep
  <2>. QED  BY <1>2, <2>2, <2>3 DEF Cas
<1>3. ASSUME NEW c \in Clients, Wake(c)
      PROVE  (\A b \in Clients : RestStep(b)) /\ (\A r \in Requests : ChanStep(r))
  <2>1. rest[c] \in RestCall /\ rest[c].pc = "wake" /\ rest[c].r \in Requests
    BY <1>0, <1>3, RestFacts DEF Wake
  <2>2. rest'[c] = [pc |-> "resume", r |-> rest[c].r, d |-> rest[c].d]
    BY <1>0, <1>3, <2>1 DEF Wake, RestCall
  <2>3. \A b \in Clients : RestStep(b)
    BY <1>0, <1>3, <2>1, <2>2 DEF Wake, RestStep
  <2>4. \A r \in Requests : ChanStep(r)
    BY <1>0, <1>3, <2>1 DEF Wake, ChanStep, Untold
  <2>. QED  BY <2>3, <2>4
<1>4. ASSUME NEW c \in Clients, Resume(c) PROVE \A b \in Clients : RestStep(b)
  BY <1>0, <1>4 DEF Resume, RestStep, Idle
<1>5. CASE Crash
  BY <1>5 DEF Crash, RestStep, ChanStep, Idle
<1>6. ASSUME ~\E c \in Clients : Wake(c), ~Crash PROVE UNCHANGED chan
  BY <1>6 DEF Next, Caller, vars, calls, Enter, LookupStanding, LookupSession, GuardianAnswers,
              Register, Persist, TakeDecision, VerdictFromRow, TimerFires, CancelFires, CancelRun,
              DropCaller, WatchdogFires, Expire, Submit, Cas, Resume, Revoke, TimeoutExpired,
              Restart, Quiescent
<1>7. ASSUME ~\E c \in Clients : Cas(c) \/ Wake(c) \/ Resume(c),
             ~\E c \in Clients, r \in Requests, d \in Decisions : Submit(c, r, d), ~Crash
      PROVE  UNCHANGED rest
  BY <1>7 DEF Next, Caller, vars, Enter, LookupStanding, LookupSession, GuardianAnswers,
              Register, Persist, TakeDecision, VerdictFromRow, TimerFires, CancelFires, CancelRun,
              DropCaller, WatchdogFires, Expire, Revoke, TimeoutExpired, Restart, Quiescent
<1>. QED  BY <1>1, <1>2, <1>3, <1>4, <1>5, <1>6, <1>7 DEF RestStep, ChanStep

LEMMA CarryInvNext == ASSUME Inv, [Next]_vars PROVE CarryInv'
<1>1. Steps /\ TypeOK /\ CallInv /\ RowInv /\ CarryInv
  BY NextSteps DEF Inv
<1>2. (\A c \in Clients : RestStep(c)) /\ (\A r \in Requests : ChanStep(r))
  BY CarrySteps
<1>3. \A r \in Requests : row[r].status \notin {"none", "pending"} => row'[r] = row[r]
  BY <1>1, SettledStays
<1>4. ASSUME NEW r \in Requests, row[r].status # "none" PROVE row'[r].status # "none"
  BY <1>1, <1>4, RowStays
<1>5. ASSUME NEW c \in Clients, Won(c)
      PROVE  /\ rest[c].r \in Requests /\ row'[rest[c].r] = row[rest[c].r]
             /\ row[rest[c].r].status \notin {"none", "pending"}
             /\ row[rest[c].r] = [status |-> StatusOf(rest[c].d), decision |-> rest[c].d]
  <2>1. rest[c].pc # "idle"
    BY <1>5 DEF Won
  <2>2. /\ rest[c].r \in Requests /\ rest[c].d \in Offered(rest[c].r)
        /\ row[rest[c].r].status = StatusOf(rest[c].d)
    BY <1>1, <1>5, <2>1, RestFacts
  <2>3. row[rest[c].r].status \notin {"none", "pending"}
    BY <2>2, DecisionFacts
  <2>4. row[rest[c].r] = [status |-> StatusOf(rest[c].d), decision |-> rest[c].d]
    BY <1>1, <1>5 DEF CarryInv
  <2>. QED  BY <1>3, <2>2, <2>3, <2>4
<1>6. ASSUME NEW c \in Clients, rest'[c].pc # "idle"
      PROVE  rest'[c].d \in Offered(rest'[c].r) /\ row'[rest'[c].r].status # "none"
  <2>1. RestStep(c)
    BY <1>2
  <2>2. rest[c].pc # "idle" => /\ rest[c].r \in Requests /\ rest[c].d \in Offered(rest[c].r)
                              /\ row[rest[c].r].status # "none"
    BY <1>1, RestFacts DEF CarryInv
  <2>. QED  BY <1>4, <1>6, <2>1, <2>2 DEF RestStep
<1>7. ASSUME NEW c \in Clients, Won(c)'
      PROVE  row'[rest'[c].r] = [status |-> StatusOf(rest'[c].d), decision |-> rest'[c].d]
  <2>1. RestStep(c)
    BY <1>2
  <2>. QED  BY <1>5, <1>7, <2>1 DEF RestStep, Won
<1>8. ASSUME NEW c \in Clients, Untold(c)'
      PROVE  \/ Untold(c) /\ rest'[c] = rest[c]
             \/ /\ rest[c].pc = "decide" /\ rest'[c].r = rest[c].r
                /\ row[rest[c].r].status = "pending" /\ told'[rest[c].r] = told[rest[c].r]
                /\ \A b \in Clients : b # c => rest'[b] = rest[b]
  <2>1. RestStep(c)
    BY <1>2
  <2>. QED  BY <1>8, <2>1 DEF RestStep, Untold
<1>9. ASSUME NEW c \in Clients, Untold(c)' PROVE told'[rest'[c].r] = <<>>
  <2>1. CASE Untold(c) /\ rest'[c] = rest[c]
    <3>1. /\ rest[c].r \in Requests /\ told[rest[c].r] = <<>>
          /\ row[rest[c].r].status # "pending" /\ row[rest[c].r].status # "none"
      BY <1>1, <1>5, <2>1 DEF CarryInv, Won, Untold
    <3>2. RowStep(rest[c].r)
      BY <1>1, <3>1 DEF Steps
    <3>3. ~\E b \in Clients : Untold(b) /\ ~Untold(b)' /\ rest[b].r = rest[c].r
      BY <1>1, <1>9, <2>1 DEF CarryInv
    <3>4. pc[rest[c].r] # "persist"
      BY <1>1, <3>1 DEF CallInv, Unasked
    <3>. QED  BY <2>1, <3>1, <3>2, <3>3, <3>4 DEF RowStep
  <2>2. CASE ~(Untold(c) /\ rest'[c] = rest[c])
    <3>1. /\ rest[c].pc = "decide" /\ rest'[c].r = rest[c].r
          /\ row[rest[c].r].status = "pending" /\ told'[rest[c].r] = told[rest[c].r]
      BY <1>8, <1>9, <2>2
    <3>2. rest[c].r \in Requests
      BY <1>1, <3>1, RestFacts
    <3>. QED  BY <1>1, <3>1, <3>2 DEF RowInv
  <2>. QED  BY <2>1, <2>2
<1>10. ASSUME NEW b \in Clients, NEW c \in Clients, Untold(b)', Untold(c)',
              rest'[b].r = rest'[c].r, b # c
       PROVE  FALSE
  <2>1. ASSUME NEW e \in Clients, NEW f \in Clients, e # f, Untold(e)', Untold(f)',
               rest'[e].r = rest'[f].r, ~(Untold(e) /\ rest'[e] = rest[e])
        PROVE  FALSE
    <3>1. /\ rest[e].pc = "decide" /\ rest'[e].r = rest[e].r
          /\ row[rest[e].r].status = "pending" /\ rest'[f] = rest[f]
      BY <1>8, <2>1
    <3>2. Untold(f) /\ Won(f)
      BY <2>1, <3>1 DEF Untold, Won
    <3>. QED  BY <1>5, <2>1, <3>1, <3>2
  <2>2. /\ Untold(b) /\ rest'[b] = rest[b]
        /\ Untold(c) /\ rest'[c] = rest[c]
    BY <1>10, <2>1
  <2>. QED  BY <1>1, <1>10, <2>2 DEF CarryInv
<1>11. ASSUME NEW r \in Requests, chan'[r] # NULL
       PROVE  row'[r] = [status |-> StatusOf(chan'[r]), decision |-> chan'[r]]
  <2>1. CASE chan'[r] = chan[r]
    <3>1. row[r] = [status |-> StatusOf(chan[r]), decision |-> chan[r]]
      BY <1>1, <1>11, <2>1 DEF CarryInv
    <3>2. row[r].status \notin {"none", "pending"}
      BY <1>1, <1>11, <2>1, <3>1, DecisionFacts DEF RowInv
    <3>. QED  BY <1>3, <2>1, <3>1, <3>2
  <2>2. ASSUME NEW c \in Clients, Untold(c), rest[c].r = r, chan'[r] = rest[c].d
        PROVE  row'[r] = [status |-> StatusOf(chan'[r]), decision |-> chan'[r]]
    BY <1>5, <2>2 DEF Untold, Won
  <2>. QED  BY <1>2, <1>11, <2>1, <2>2 DEF ChanStep
<1>. QED  BY <1>6, <1>7, <1>9, <1>10, <1>11 DEF CarryInv

\* An approved answer is given on an approved row, or needs none.
LEMMA HumanDecidesNext == ASSUME Inv, [Next]_vars PROVE HumanDecides'
<1>1. Steps /\ TypeOK /\ CallInv /\ RowInv /\ HumanDecides
  BY NextSteps DEF Inv
<1>. SUFFICES ASSUME NEW r \in Requests, NeedsHuman(r), verdict'[r] = "approved"
              PROVE  row'[r] = [status |-> "approved", decision |-> "approve"]
  BY DEF HumanDecides, NeedsHuman, PerCall
<1>2. CASE verdict[r] = "approved"
  <2>1. row[r] = [status |-> "approved", decision |-> "approve"]
    BY <1>1, <1>2 DEF HumanDecides
  <2>. QED  BY <1>1, <2>1, SettledStays
<1>3. CASE verdict[r] # "approved"
  <2>1. row'[r] = row[r] /\ row[r].status = "approved"
    BY <1>1, <1>3 DEF Steps, CallStep
  <2>2. /\ row[r].decision \in Offered(r) /\ StatusOf(row[r].decision) = "approved"
        /\ row[r] \in Row
    BY <1>1, <2>1 DEF RowInv, TypeOK
  <2>3. row[r].decision = "approve"
    BY <2>2, OfferedToHumans
  <2>. QED  BY <2>1, <2>2, <2>3 DEF Row
<1>. QED  BY <1>2, <1>3

LEMMA AnswerHonouredNext == ASSUME Inv, [Next]_vars PROVE AnswerHonoured'
<1>1. Steps /\ TypeOK /\ CallInv /\ RowInv /\ TroubleInv /\ AnswerHonoured
  BY NextSteps DEF Inv
<1>2. Budget /\ faults \in Nat /\ crashes \in Nat /\ drops \in Nat
  BY <1>1 DEF Steps, TypeOK
<1>. SUFFICES ASSUME NEW r \in Requests, faults' = 0, crashes' = 0, drops' = 0,
                     pc'[r] = "done", r \notin cancelled', row'[r].status = "approved"
              PROVE  verdict'[r] = "approved"
  BY DEF AnswerHonoured
<1>3. faults = 0 /\ crashes = 0 /\ drops = 0 /\ r \notin cancelled
  BY <1>1, <1>2 DEF Budget, Steps
<1>4. RowStep(r) /\ CallStep(r)
  BY <1>1 DEF Steps
<1>5. CASE pc[r] = "done"
  <2>1. verdict'[r] = verdict[r]
    BY <1>4, <1>5 DEF CallStep
  <2>2. row[r].status # "pending" /\ row[r].status # "none" => row'[r] = row[r]
    BY <1>1, SettledStays
  <2>3. row[r].status # "pending"
    BY <1>1, <1>3, <1>5 DEF TroubleInv
  <2>4. row'[r] = row[r]
    BY <1>4, <1>5, <2>3 DEF RowStep
  <2>. QED  BY <1>1, <1>3, <1>5, <2>1, <2>4 DEF AnswerHonoured
<1>6. CASE pc[r] # "done"
  BY <1>2, <1>3, <1>4, <1>6 DEF CallStep, Unasked
<1>. QED  BY <1>5, <1>6

\* A grant was earned by a row, or is the one the decision of a row carries.
Grants(r, d) ==
    /\ \A g \in standing' : g \in standing \/ (d = "approve_for_target" /\ g = StandingGrant(r))
    /\ \A g \in grants' : g \in grants \/ (d = "approve_for_session" /\ g = SessionGrant(r))

LEMMA ApplyGrantsFacts == ASSUME NEW r, NEW d, ApplyGrants(r, d) PROVE Grants(r, d)
BY DEF ApplyGrants, Grants, Granted

LEMMA GrantSteps ==
    ASSUME Inv, [Next]_vars
    PROVE  \/ standing' \subseteq standing /\ grants' \subseteq grants
           \/ \E r \in Requests : /\ row[r].status = "approved" /\ Grants(r, row[r].decision)
<1>0. TypeOK /\ CarryInv /\ RowInv
  BY DEF Inv
<1>1. ASSUME NEW r \in Requests, TakeDecision(r)
      PROVE  \/ standing' \subseteq standing /\ grants' \subseteq grants
             \/ row[r].status = "approved" /\ Grants(r, row[r].decision)
  <2>1. /\ row[r] = [status |-> StatusOf(chan[r]), decision |-> chan[r]]
        /\ ApplyGrants(r, chan[r])
    BY <1>0, <1>1 DEF CarryInv, TakeDecision, ApplyDecision
  <2>2. Grants(r, row[r].decision)
    BY <2>1, ApplyGrantsFacts
  <2>3. chan[r] \in {"approve_for_session", "approve_for_target"} => StatusOf(chan[r]) = "approved"
    BY DEF StatusOf
  <2>. QED  BY <2>1, <2>2, <2>3 DEF Grants
<1>2. ASSUME NEW r \in Requests, VerdictFromRow(r)
      PROVE  \/ standing' \subseteq standing /\ grants' \subseteq grants
             \/ row[r].status = "approved" /\ Grants(r, row[r].decision)
  BY <1>2, ApplyGrantsFacts DEF VerdictFromRow, ApplyDecision
<1>3. ASSUME NEW c \in Clients, Resume(c)
      PROVE  \/ standing' \subseteq standing /\ grants' \subseteq grants
             \/ \E r \in Requests : row[r].status = "approved" /\ Grants(r, row[r].decision)
  <2>1. /\ rest[c].r \in Requests /\ row[rest[c].r].status = StatusOf(rest[c].d)
        /\ row[rest[c].r].decision = rest[c].d
    BY <1>0, <1>3, RestFacts DEF Resume, Won
  <2>2. \/ UNCHANGED <<standing, grants>>
        \/ /\ SettleEligible(rest[c].r, rest[c].d)
           /\ Grants(rest[c].r, rest[c].d)
    BY <1>3, ApplyGrantsFacts DEF Resume
  <2>3. SettleEligible(rest[c].r, rest[c].d) => StatusOf(rest[c].d) = "approved"
    BY DEF SettleEligible, StatusOf
  <2>. QED  BY <2>1, <2>2, <2>3
<1>4. ASSUME ~\E r \in Requests : TakeDecision(r) \/ VerdictFromRow(r),
             ~\E c \in Clients : Resume(c)
      PROVE  standing' \subseteq standing /\ grants' \subseteq grants
  BY <1>4 DEF Next, Caller, vars, store, calls, Enter, LookupStanding, LookupSession,
              GuardianAnswers, Register, Persist, TimerFires, CancelFires, CancelRun, DropCaller,
              WatchdogFires, Expire, Submit, Cas, Wake, Revoke, TimeoutExpired, Crash, Restart,
              Quiescent
<1>. QED  BY <1>1, <1>2, <1>3, <1>4

LEMMA GrantsEarnedNext == ASSUME Inv, [Next]_vars PROVE GrantsEarned'
<1>1. Steps /\ TypeOK /\ CallInv /\ RowInv /\ GrantsEarned
  BY NextSteps DEF Inv
<1>2. \A r \in Requests : row[r].status = "approved" => row'[r] = row[r]
  BY <1>1, SettledStays
<1>3. ASSUME NEW r \in Requests, row[r].status = "approved"
      PROVE  /\ row[r].decision = "approve_for_target" =>
                   /\ OfferTarget(r) # NULL /\ ~PerCall(r)
                   /\ row[r] = [status |-> "approved", decision |-> "approve_for_target"]
             /\ row[r].decision = "approve_for_session" =>
                   /\ ~PerCall(r)
                   /\ row[r] = [status |-> "approved", decision |-> "approve_for_session"]
  <2>1. row[r].decision \in Offered(r) /\ row[r] \in Row
    BY <1>1, <1>3 DEF RowInv, TypeOK
  <2>. QED  BY <1>3, <2>1, OfferedGrants DEF Row
<1>4. ASSUME NEW g \in standing'
      PROVE  \E r \in Requests :
                /\ g = StandingGrant(r) /\ OfferTarget(r) # NULL /\ ~PerCall(r)
                /\ row'[r] = [status |-> "approved", decision |-> "approve_for_target"]
  <2>1. g \in standing \/ \E r \in Requests : /\ row[r].status = "approved"
                                             /\ row[r].decision = "approve_for_target"
                                             /\ g = StandingGrant(r)
    BY GrantSteps DEF Grants
  <2>2. ASSUME g \in standing
        PROVE  \E r \in Requests :
                  /\ g = StandingGrant(r) /\ OfferTarget(r) # NULL /\ ~PerCall(r)
                  /\ row[r] = [status |-> "approved", decision |-> "approve_for_target"]
    BY <1>1, <2>2 DEF GrantsEarned
  <2>. QED  BY <1>2, <1>3, <2>1, <2>2
<1>5. ASSUME NEW g \in grants'
      PROVE  \E r \in Requests :
                /\ g = SessionGrant(r) /\ ~PerCall(r)
                /\ row'[r] = [status |-> "approved", decision |-> "approve_for_session"]
  <2>1. g \in grants \/ \E r \in Requests : /\ row[r].status = "approved"
                                           /\ row[r].decision = "approve_for_session"
                                           /\ g = SessionGrant(r)
    BY GrantSteps DEF Grants
  <2>2. ASSUME g \in grants
        PROVE  \E r \in Requests :
                  /\ g = SessionGrant(r) /\ ~PerCall(r)
                  /\ row[r] = [status |-> "approved", decision |-> "approve_for_session"]
    BY <1>1, <2>2 DEF GrantsEarned
  <2>. QED  BY <1>2, <1>3, <2>1, <2>2
<1>. QED  BY <1>4, <1>5 DEF GrantsEarned, StandingGrant, SessionGrant, OfferTarget, PerCall

LEMMA InitInv == Init => Inv
<1>. SUFFICES ASSUME Init PROVE Inv
  OBVIOUS
<1>1. pc \in [Requests -> {"start", "unasked"}]
  BY DEF Init
<1>2. TypeOK
  <2>1. row \in [Requests -> Row]
    BY DEF Init, NoRow, Row, Status
  <2>2. told \in [Requests -> Seq(Status)] /\ rest \in [Clients -> RestCall \cup {Idle}]
    BY DEF Init
  <2>3. pc \in [Requests -> Places] /\ verdict \in [Requests -> Verdicts]
    BY <1>1 DEF Init, Places, Ended, Verdicts
  <2>. QED  BY <2>1, <2>2, <2>3 DEF Init, TypeOK
<1>3. CallInv /\ RowInv /\ TroubleInv
  BY <1>1 DEF Init, CallInv, RowInv, TroubleInv, NoRow, Unasked
<1>4. CarryInv
  BY DEF Init, CarryInv, Won, Untold, Idle
<1>5. HumanDecides /\ GrantsEarned /\ AnswerHonoured
  BY <1>1 DEF Init, HumanDecides, GrantsEarned, AnswerHonoured, NoRow
<1>. QED  BY <1>2, <1>3, <1>4, <1>5 DEF Inv

-----------------------------------------------------------------------------
(* The theorems.                                                           *)

\* In every behaviour of the broker, whoever settles a row and whatever fails.
THEOREM BrokerInvariant == Spec => []Inv
<1>1. Inv /\ [Next]_vars => Inv'
  BY NextSteps, CallInvNext, RowInvNext, CarryInvNext, TroubleInvNext, HumanDecidesNext,
     AnswerHonouredNext, GrantsEarnedNext DEF Inv
<1>. QED  BY <1>1, InitInv, PTL DEF Spec

\* Every variable of the broker keeps its type.
THEOREM BrokerTypeCorrect == Spec => []TypeOK
<1>1. Inv => TypeOK
  BY DEF Inv
<1>. QED  BY <1>1, BrokerInvariant, PTL

\* No grant and no Guardian lets a plan or a module's call through: an approved
\* answer to one has its own row, approved for this call alone (request_plan,
\* and BrokerGate::check with per_call_approval).
THEOREM HumansDecide == Spec => []HumanDecides
<1>1. Inv => HumanDecides
  BY DEF Inv
<1>. QED  BY <1>1, BrokerInvariant, PTL

\* Every standing or session grant in force was chosen by a human, on a call
\* that could offer it (apply_decision, record_standing_grant, settle_resumed).
THEOREM EveryGrantEarned == Spec => []GrantsEarned
<1>1. Inv => GrantsEarned
  BY DEF Inv
<1>. QED  BY <1>1, BrokerInvariant, PTL

\* Without an error, a crash or a dropped caller, a call whose row was approved
\* goes ahead unless its run was cancelled, however the timer, the watchdog, the
\* sweep and the answer are ordered (run_pending_approval, verdict_from_row).
THEOREM EveryAnswerHonoured == Spec => []AnswerHonoured
<1>1. Inv => AnswerHonoured
  BY DEF Inv
<1>. QED  BY <1>1, BrokerInvariant, PTL

\* A step of the broker is a step of the approval system it promises.
LEMMA OutcomeStep ==
    ASSUME Inv, [Next]_vars
    PROVE  [Outcome!Next]_(Outcome!outcome)
<1>1. Steps /\ TypeOK /\ CallInv /\ RowInv /\ CarryInv
  BY NextSteps DEF Inv
<1>2. ASSUME NEW r \in Requests
      PROVE  \/ row'[r].status = row[r].status
             \/ row[r].status = "none" /\ verdict'[r] = "none" /\ row'[r].status = "pending"
             \/ row[r].status = "pending" /\ row'[r].status \in Outcome!Decided
  <2>1. RowStep(r) /\ (pc[r] = "persist" => row[r].status = "none")
    BY <1>1 DEF Steps, CallInv, Unasked
  <2>2. ASSUME NEW d \in Offered(r), row'[r] = [status |-> StatusOf(d), decision |-> d]
        PROVE  row'[r].status \in Outcome!Decided
    BY <2>2, DecisionFacts DEF Outcome!Decided
  <2>3. ASSUME NEW s \in {"timed_out", "aborted"}, row'[r] = [status |-> s, decision |-> NULL]
        PROVE  row'[r].status \in Outcome!Decided
    BY <2>3 DEF Outcome!Decided
  <2>4. \/ row'[r] = row[r]
        \/ /\ pc[r] = "persist" /\ verdict'[r] = "none"
           /\ row'[r] = [status |-> "pending", decision |-> NULL]
        \/ /\ row[r].status = "pending"
           /\ \E s \in {"timed_out", "aborted"} : row'[r] = [status |-> s, decision |-> NULL]
        \/ /\ row[r].status = "pending"
           /\ \E d \in Offered(r) : row'[r] = [status |-> StatusOf(d), decision |-> d]
    BY <2>1 DEF RowStep
  <2>5. CASE pc[r] = "persist" /\ verdict'[r] = "none"
             /\ row'[r] = [status |-> "pending", decision |-> NULL]
    BY <2>1, <2>5
  <2>. QED  BY <2>2, <2>3, <2>4, <2>5
<1>3. ASSUME NEW r \in Requests
      PROVE  \/ told'[r] = told[r]
             \/ /\ told[r] = <<>> /\ row'[r].status \in Outcome!Decided
                /\ told'[r] = <<row'[r].status>>
  <2>1. RowStep(r)
    BY <1>1 DEF Steps
  <2>2. ASSUME row[r].status = "pending", NEW s \in {"timed_out", "aborted"},
               row'[r] = [status |-> s, decision |-> NULL], told'[r] = Append(told[r], s)
        PROVE  /\ told[r] = <<>> /\ row'[r].status \in Outcome!Decided
               /\ told'[r] = <<row'[r].status>>
    <3>1. told[r] = <<>>
      BY <1>1, <2>2 DEF RowInv
    <3>. QED  BY <2>2, <3>1 DEF Outcome!Decided
  <2>3. ASSUME NEW c \in Clients, Untold(c), rest[c].r = r, row'[r] = row[r],
               told'[r] = Append(told[r], row[r].status)
        PROVE  /\ told[r] = <<>> /\ row'[r].status \in Outcome!Decided
               /\ told'[r] = <<row'[r].status>>
    <3>1. told[r] = <<>> /\ rest[c].pc # "idle" /\ Won(c)
      BY <1>1, <2>3 DEF CarryInv, Untold, Won
    <3>2. row[r].status = StatusOf(rest[c].d) /\ rest[c].d \in Offered(r)
      BY <1>1, <2>3, <3>1, RestFacts
    <3>3. row[r].status \in Outcome!Decided
      BY <3>2, DecisionFacts DEF Outcome!Decided
    <3>. QED  BY <2>3, <3>1, <3>3
  <2>. QED  BY <2>1, <2>2, <2>3 DEF RowStep
<1>4. ASSUME NEW r \in Requests
      PROVE  \/ verdict'[r] = verdict[r]
             \/ /\ verdict[r] = "none" /\ verdict'[r] \in Outcome!Verdicts
                /\ verdict'[r] = "approved" =>
                      IF row'[r].status = "none" THEN ~NeedsHuman(r)
                      ELSE row'[r].status = "approved"
  <2>1. CallStep(r) /\ (pc[r] # "done" => verdict[r] = "none")
    BY <1>1 DEF Steps, CallInv
  <2>. QED  BY <2>1 DEF CallStep, Outcome!Verdicts
<1>5. ASSUME NEW r \in Requests
      PROVE  Outcome!StatusStep(r) /\ Outcome!ToldStep(r) /\ Outcome!VerdictStep(r)
  BY <1>2, <1>3, <1>4 DEF Outcome!StatusStep, Outcome!ToldStep, Outcome!VerdictStep
<1>. QED  BY <1>5 DEF Outcome!Next

\* The broker implements ApprovalOutcome: with its channels, timers, sweeps,
\* clients, crashes and restarts, each approval is decided once and announced at
\* most once, and no call goes ahead without one unless it need not be asked.
THEOREM BrokerRefines == Spec => OutcomeSpec
<1>1. Init => Outcome!Init
  BY DEF Init, NoRow, Outcome!Init
<1>2. Inv /\ [Next]_vars => [Outcome!Next]_(Outcome!outcome)
  BY OutcomeStep
<1>. QED  BY <1>1, <1>2, BrokerInvariant, PTL DEF Spec, OutcomeSpec, Outcome!Spec
=============================================================================
