----------------------- MODULE AttachedModules_proofs -----------------------
(* Proofs about AttachedModules for any number of connections, requests and  *)
(* manifests.                                                                *)
(*                                                                           *)
(* The invariant has two halves. The registry's: which token an entry can    *)
(* hold, who can be inside its lock, and what a running generation implies   *)
(* of its entry. The calls': where a frame can have come from, and which     *)
(* requests hold a slot. A step of a request or of a wire leaves the first   *)
(* half alone; the second half is proved from a summary of each step, Moves, *)
(* never from the actions themselves.                                        *)
EXTENDS AttachedModules, FiniteSetTheorems, TLAPS

\* The name is known to the host exactly while a record or a tombstone is there.
RelaxInv ==
    /\ agreed.known <=> disk.rec # NONE \/ disk.tomb # NONE
    /\ disk.tomb # NONE => Facts[disk.tomb] \subseteq agreed.facts

\* The token of a registration in progress has been told to nobody.
TokInv ==
    /\ disk.rec # NONE => disk.rec.tok <= minted
    /\ change # NONE =>
          /\ change.rec.tok <= minted
          /\ change.op = "registered" => change.rec.tok \notin told
    /\ \A c \in Conns : conn[c].tok \in told \cup {0}

\* Between the two steps of a revocation the entry is there, with no slot.
LockInv ==
    /\ lock \in {"change", "shutdown"} => entry # NONE /\ entry.slot = NONE
    /\ lock = "change" => change # NONE /\ ~closed /\ MustRevoke

\* A claim that still holds the entry's token holds its manifest.
ClaimInv ==
    \A c \in Conns :
        conn[c].pc = "claimed" /\ entry # NONE /\ entry.tok = conn[c].tok =>
            entry.man = conn[c].man

\* A running generation is its entry's last, and its handle's from the attach on.
GenInv ==
    \A c \in Conns :
        /\ gen[c] = "running" =>
              /\ conn[c].pc \in {"committed", "serving", "ended"}
              /\ entry.last = c
              /\ conn[c].pc # "committed" => entry.live = c
        /\ entry # NONE /\ entry.live = c => conn[c].pc \in {"serving", "ended"}

\* Whoever came second closed the registry.
StopInv ==
    daemon.checked => daemon.stop /\ (daemon.boot = "up" => closed)

\* A connection past its attach, and a request that holds one of its slots.
Attached(c) == conn[c].pc \in {"serving", "ended", "done"}
Holds(k) == cmd[k].pc \in {"reserved", "waiting", "cancelling"}
Sent(k) == cmd[k].pc \in {"waiting", "cancelling", "done"}

\* Frames exist from the attach on; a request's, only on the connection it was
\* sent to, and never behind a refusal.
WireInv ==
    \A c \in Conns, f \in Frames : Carried(c, f) =>
        /\ Attached(c)
        /\ \A k \in Cmds : f = Req(k) =>
              Sent(k) /\ cmd[k].conn = c /\ cmd[k].ans \notin NoFrameSent

\* A result was read from the module that got the frame.
ResultInv ==
    \A k \in Cmds :
        /\ cmd[k].pc # "done" => cmd[k].ans = "none"
        /\ cmd[k].res = "answer" \/ cmd[k].ans = "ok" =>
              /\ Sent(k) /\ cmd[k].conn \in Conns
              /\ Req(k) \in wire[cmd[k].conn].got

\* The requests that hold a slot of a connection are the ones it counts.
Holders(c) == {k \in Cmds : Holds(k) /\ cmd[k].conn = c}
SlotInv ==
    /\ \A k \in Cmds : Holds(k) => cmd[k].conn \in Conns /\ Attached(cmd[k].conn)
    /\ \A c \in Conns : inFlight[c] = Cardinality(Holders(c))

\* A module is never asked for more than MAX_KERNEL_CALLS_IN_FLIGHT at once
\* (attach_mux.rs, LiveCalls::try_reserve).
SlotsBounded == \A c \in Conns : Cardinality(Holders(c)) <= MaxCalls

RegistryInv ==
    /\ RelaxInv /\ RelaxAgreed /\ TokInv /\ LockInv /\ ClaimInv /\ GenInv
    /\ RunningIsCurrent /\ StopInv
CallInv == WireInv /\ ResultInv /\ SlotInv /\ SlotsBounded
Inv == TypeOK /\ RegistryInv /\ CallInv

-----------------------------------------------------------------------------
(* Queues, wires and types.                                                  *)

In(f, q) == \E i \in 1..Len(q) : q[i] = f

\* What an append and a write leave in the queue.
LEMMA QueueFacts ==
    ASSUME NEW q \in Seq(Frames), NEW f \in Frames
    PROVE  /\ Append(q, f) \in Seq(Frames) /\ Len(Append(q, f)) = Len(q) + 1
           /\ \A g : In(g, Append(q, f)) => In(g, q) \/ g = f
           /\ q # <<>> =>
                 /\ Head(q) \in Frames /\ In(Head(q), q)
                 /\ Tail(q) \in Seq(Frames) /\ Len(Tail(q)) = Len(q) - 1
                 /\ \A g : In(g, Tail(q)) => In(g, q)
<1>1. \A g : In(g, Append(q, f)) => In(g, q) \/ g = f
  BY DEF In
<1>2. ASSUME q # <<>> PROVE In(Head(q), q) /\ Head(q) \in Frames
  <2>1. 1 \in 1..Len(q) /\ Head(q) = q[1]
    BY <1>2
  <2>. QED  BY <2>1 DEF In
<1>3. ASSUME q # <<>>, NEW g, In(g, Tail(q)) PROVE In(g, q)
  <2>1. PICK i \in 1..Len(Tail(q)) : Tail(q)[i] = g
    BY <1>3 DEF In
  <2>2. i + 1 \in 1..Len(q) /\ q[i + 1] = g
    BY <1>3, <2>1
  <2>. QED  BY <2>2 DEF In
<1>. QED  BY <1>1, <1>2, <1>3

LEMMA FrameFacts ==
    ASSUME NEW k \in Cmds
    PROVE  /\ Req(k) \in Frames /\ Cancel(k) \in Frames /\ Success \in Frames
           /\ \A j : Req(j) # Cancel(k) /\ Req(j) # Success
           /\ \A j : Req(j) = Req(k) <=> j = k
<1>1. \A j : Req(j).kind = "request" /\ Req(j).cmd = j
  BY DEF Req
<1>2. Cancel(k).kind = "cancel" /\ Success.kind = "success"
  BY DEF Cancel, Success
<1>3. Req(k) \in Frames /\ Cancel(k) \in Frames /\ Success \in Frames
  BY DEF Req, Cancel, Frames
<1>. QED  BY <1>1, <1>2, <1>3

LEMMA NothingCarried ==
    ASSUME TypeOK, WireInv, NEW c \in Conns, ~Attached(c)
    PROVE  wire[c].queue = <<>>
<1>1. wire[c] \in Wires
  BY DEF TypeOK
<1>2. wire[c].queue \in Seq(Frames)
  BY <1>1 DEF Wires
<1>3. ASSUME wire[c].queue # <<>> PROVE FALSE
  <2>1. 1 \in 1..Len(wire[c].queue) /\ wire[c].queue[1] \in Frames
    BY <1>2, <1>3
  <2>2. Carried(c, wire[c].queue[1])
    BY <2>1 DEF Carried
  <2>. QED  BY <2>1, <2>2 DEF WireInv
<1>. QED  BY <1>3

-----------------------------------------------------------------------------
(* What a step may do to the connections, the wires and the requests.        *)

Sends(k) == cmd[k].pc = "reserved" /\ cmd'[k].pc = "waiting"

\* Frames go to attached connections, a request's only when it is sent.
WireMove(c) ==
    /\ Attached(c) => Attached(c)'
    /\ wire[c].got \subseteq wire'[c].got
    /\ \A f \in Frames : Carried(c, f)' =>
          \/ Carried(c, f)
          \/ Attached(c)' /\ \A k \in Cmds : f = Req(k) => Sends(k) /\ cmd[k].conn = c

Kept(k) == cmd'[k].conn = cmd[k].conn /\ cmd'[k].ans = cmd[k].ans

\* A request advances, waits, or ends with an answer its result justifies.
CmdMove(k) ==
    \/ /\ Kept(k) /\ cmd'[k].pc = cmd[k].pc
       /\ \/ cmd'[k].res \in {cmd[k].res, "lost"}
          \/ cmd'[k].res = "answer" /\ \E c \in Conns : Req(k) \in wire[c].got
    \/ /\ Kept(k) /\ cmd'[k].res = cmd[k].res
       /\ <<cmd[k].pc, cmd'[k].pc>> \in {<<"new", "body">>, <<"reserved", "waiting">>,
                                          <<"waiting", "cancelling">>}
    \/ /\ cmd[k].pc = "body" /\ cmd'[k].pc = "reserved"
       /\ cmd'[k].res = cmd[k].res /\ cmd'[k].ans = cmd[k].ans
       /\ cmd'[k].conn \in Conns /\ Attached(cmd'[k].conn)
    \/ /\ cmd[k].pc # "done" /\ cmd'[k].pc = "done"
       /\ cmd'[k].conn = cmd[k].conn /\ cmd'[k].res = cmd[k].res
       /\ \/ cmd'[k].ans \in NoFrameSent /\ ~Sent(k)
          \/ cmd'[k].ans \in {"lost", "timeout", "gone"}
          \/ cmd'[k].ans = "ok" /\ cmd[k].res = "answer"

SameHolder(k) ==
    /\ Holds(k)' <=> Holds(k)
    /\ Holds(k) => cmd'[k].conn = cmd[k].conn

\* A slot is taken by a request that holds none, and given back once.
SlotMove ==
    \/ inFlight' = inFlight /\ \A k \in Cmds : SameHolder(k)
    \/ \E k \in Cmds, c \in Conns :
          /\ ~Holds(k) /\ Holds(k)' /\ cmd'[k].conn = c
          /\ inFlight[c] < MaxCalls
          /\ inFlight' = [inFlight EXCEPT ![c] = @ + 1]
          /\ \A j \in Cmds \ {k} : SameHolder(j)
    \/ \E k \in Cmds :
          /\ Holds(k) /\ ~Holds(k)'
          /\ inFlight' = [inFlight EXCEPT ![cmd[k].conn] = @ - 1]
          /\ \A j \in Cmds \ {k} : SameHolder(j)
    \/ \E c \in Conns :
          /\ ~Attached(c) /\ inFlight' = [inFlight EXCEPT ![c] = 0]
          /\ \A k \in Cmds : SameHolder(k)
    \/ inFlight' = [c \in Conns |-> 0] /\ \A k \in Cmds : ~Holds(k)'

Moves ==
    /\ \A c \in Conns : WireMove(c)
    /\ \A k \in Cmds : CmdMove(k)
    /\ SlotMove

-----------------------------------------------------------------------------
(* The calls' half of the invariant, from the summary.                       *)

LEMMA HoldersFinite ==
    ASSUME TypeOK, NEW c \in Conns
    PROVE  /\ IsFiniteSet(Holders(c)) /\ Cardinality(Holders(c)) \in Nat
           /\ \A k \in Holders(c) : Cardinality(Holders(c)) > 0
<1>1. IsFiniteSet(Holders(c))
  BY AttachAssumption, FS_Subset DEF Holders
<1>2. Cardinality(Holders(c)) \in Nat
  BY <1>1, FS_CardinalityType
<1>3. ASSUME NEW k \in Holders(c) PROVE Cardinality(Holders(c)) > 0
  <2>1. Holders(c) # {}
    BY <1>3
  <2>. QED  BY <1>1, <1>2, <2>1, FS_EmptySet
<1>. QED  BY <1>1, <1>2, <1>3

\* The slot a request holds is counted.
LEMMA HolderCounted ==
    ASSUME TypeOK, SlotInv, NEW k \in Cmds, Holds(k)
    PROVE  cmd[k].conn \in Conns /\ inFlight[cmd[k].conn] \in Nat \ {0}
<1>1. cmd[k].conn \in Conns
  BY DEF SlotInv
<1>2. k \in Holders(cmd[k].conn)
  BY DEF Holders
<1>3. inFlight[cmd[k].conn] = Cardinality(Holders(cmd[k].conn))
  BY <1>1 DEF SlotInv
<1>. QED  BY <1>1, <1>2, <1>3, HoldersFinite

LEMMA SlotStep ==
    ASSUME TypeOK, TypeOK', SlotInv, SlotsBounded, Moves
    PROVE  SlotInv' /\ SlotsBounded'
<1>0. inFlight \in [Conns -> Nat]
  BY DEF TypeOK
<1>1. ASSUME NEW k \in Cmds, Holds(k)'
      PROVE  cmd'[k].conn \in Conns /\ (Attached(cmd[k].conn))'
  <2>1. CmdMove(k)
    BY DEF Moves
  <2>2. \E c \in Conns : cmd'[k].conn = c /\ Attached(c)
    BY <1>1, <2>1 DEF CmdMove, Kept, Holds, SlotInv
  <2>3. PICK c \in Conns : cmd'[k].conn = c /\ Attached(c)
    BY <2>2
  <2>4. Attached(c)'
    BY <2>3 DEF Moves, WireMove
  <2>. QED  BY <2>3, <2>4 DEF Attached
<1>2. ASSUME NEW c \in Conns
      PROVE  inFlight'[c] = Cardinality(Holders(c)') /\ Cardinality(Holders(c)') <= MaxCalls
  <2>0. /\ inFlight[c] = Cardinality(Holders(c)) /\ Cardinality(Holders(c)) <= MaxCalls
        /\ MaxCalls \in Nat /\ IsFiniteSet(Holders(c)) /\ Cardinality(Holders(c)) \in Nat
    BY HoldersFinite, AttachAssumption DEF SlotInv, SlotsBounded
  <2>1. CASE inFlight' = inFlight /\ \A k \in Cmds : SameHolder(k)
    <3>1. Holders(c)' = Holders(c)
      BY <2>1 DEF Holders, SameHolder
    <3>. QED  BY <2>0, <2>1, <3>1
  <2>2. ASSUME NEW k \in Cmds, NEW d \in Conns,
               ~Holds(k), Holds(k)', cmd'[k].conn = d, inFlight[d] < MaxCalls,
               inFlight' = [inFlight EXCEPT ![d] = @ + 1],
               \A j \in Cmds \ {k} : SameHolder(j)
        PROVE  inFlight'[c] = Cardinality(Holders(c)') /\ Cardinality(Holders(c)') <= MaxCalls
    <3>1. CASE c = d
      <4>1. Holders(c)' = Holders(c) \cup {k} /\ k \notin Holders(c)
        BY <2>2, <3>1 DEF Holders, SameHolder
      <4>2. Cardinality(Holders(c)') = Cardinality(Holders(c)) + 1
        BY <2>0, <4>1, FS_AddElement
      <4>. QED  BY <1>0, <2>0, <2>2, <3>1, <4>2
    <3>2. CASE c # d
      <4>1. Holders(c)' = Holders(c)
        BY <2>2, <3>2 DEF Holders, SameHolder
      <4>. QED  BY <1>0, <2>0, <2>2, <3>2, <4>1
    <3>. QED  BY <3>1, <3>2
  <2>3. ASSUME NEW k \in Cmds, Holds(k), ~Holds(k)',
               inFlight' = [inFlight EXCEPT ![cmd[k].conn] = @ - 1],
               \A j \in Cmds \ {k} : SameHolder(j)
        PROVE  inFlight'[c] = Cardinality(Holders(c)') /\ Cardinality(Holders(c)') <= MaxCalls
    <3>1. CASE c = cmd[k].conn
      <4>1. Holders(c)' = Holders(c) \ {k} /\ k \in Holders(c)
        BY <2>3, <3>1 DEF Holders, SameHolder
      <4>2. Cardinality(Holders(c)') = Cardinality(Holders(c)) - 1
        BY <2>0, <4>1, FS_RemoveElement
      <4>. QED  BY <1>0, <2>0, <2>3, <3>1, <4>2
    <3>2. CASE c # cmd[k].conn
      <4>1. Holders(c)' = Holders(c)
        BY <2>3, <3>2 DEF Holders, SameHolder
      <4>. QED  BY <1>0, <2>0, <2>3, <3>2, <4>1
    <3>. QED  BY <3>1, <3>2
  <2>4. ASSUME NEW d \in Conns, ~Attached(d), inFlight' = [inFlight EXCEPT ![d] = 0],
               \A k \in Cmds : SameHolder(k)
        PROVE  inFlight'[c] = Cardinality(Holders(c)') /\ Cardinality(Holders(c)') <= MaxCalls
    <3>1. Holders(c)' = Holders(c)
      BY <2>4 DEF Holders, SameHolder
    <3>2. c = d => Holders(c) = {}
      BY <2>4 DEF Holders, SlotInv
    <3>. QED  BY <1>0, <2>0, <2>4, <3>1, <3>2, FS_EmptySet
  <2>5. CASE inFlight' = [e \in Conns |-> 0] /\ \A k \in Cmds : ~Holds(k)'
    <3>1. Holders(c)' = {}
      BY <2>5 DEF Holders
    <3>. QED  BY <2>0, <2>5, <3>1, FS_EmptySet
  <2>. QED  BY <2>1, <2>2, <2>3, <2>4, <2>5 DEF Moves, SlotMove
<1>3. SlotInv'
  BY <1>1, <1>2 DEF SlotInv
<1>. QED  BY <1>2, <1>3 DEF SlotsBounded

LEMMA CallStep ==
    ASSUME TypeOK, TypeOK', CallInv, Moves
    PROVE  CallInv'
<1>1. WireInv'
  <2>. SUFFICES ASSUME NEW c \in Conns, NEW f \in Frames, Carried(c, f)'
                PROVE  /\ Attached(c)'
                       /\ \A k \in Cmds : f = Req(k) =>
                             Sent(k)' /\ cmd'[k].conn = c /\ cmd'[k].ans \notin NoFrameSent
    BY DEF WireInv
  <2>1. WireMove(c) /\ \A k \in Cmds : CmdMove(k)
    BY DEF Moves
  <2>2. CASE Carried(c, f)
    <3>1. Attached(c)'
      BY <2>1, <2>2 DEF WireMove, CallInv, WireInv
    <3>2. ASSUME NEW k \in Cmds, f = Req(k)
          PROVE  Sent(k)' /\ cmd'[k].conn = c /\ cmd'[k].ans \notin NoFrameSent
      <4>1. Sent(k) /\ cmd[k].conn = c /\ cmd[k].ans \notin NoFrameSent
        BY <2>2, <3>2 DEF CallInv, WireInv
      <4>. QED  BY <2>1, <4>1 DEF CmdMove, Kept, Sent, NoFrameSent
    <3>. QED  BY <3>1, <3>2
  <2>3. CASE Attached(c)' /\ \A k \in Cmds : f = Req(k) => Sends(k) /\ cmd[k].conn = c
    <3>1. ASSUME NEW k \in Cmds, f = Req(k)
          PROVE  Sent(k)' /\ cmd'[k].conn = c /\ cmd'[k].ans \notin NoFrameSent
      <4>1. Sends(k) /\ cmd[k].conn = c
        BY <2>3, <3>1
      <4>2. Kept(k)
        BY <2>1, <4>1 DEF CmdMove, Sends
      <4>3. cmd[k].ans \notin NoFrameSent
        BY <4>1 DEF CallInv, ResultInv, Sends, NoFrameSent
      <4>. QED  BY <4>1, <4>2, <4>3 DEF Sends, Sent, Kept
    <3>. QED  BY <2>3, <3>1
  <2>. QED  BY <2>1, <2>2, <2>3 DEF WireMove
<1>2. ResultInv'
  <2>0. ASSUME NEW k \in Cmds, cmd'[k].pc # "done" PROVE cmd'[k].ans = "none"
    <3>1. CmdMove(k)
      BY DEF Moves
    <3>. QED  BY <2>0, <3>1 DEF CmdMove, Kept, CallInv, ResultInv
  <2>. SUFFICES ASSUME NEW k \in Cmds, cmd'[k].res = "answer" \/ cmd'[k].ans = "ok"
                PROVE  /\ Sent(k)' /\ cmd'[k].conn \in Conns
                       /\ Req(k) \in wire'[cmd'[k].conn].got
    BY <2>0 DEF ResultInv
  <2>1. CmdMove(k) /\ \A c \in Conns : WireMove(c)
    BY DEF Moves
  <2>2. CASE cmd[k].res = "answer" \/ cmd[k].ans = "ok"
    <3>1. Sent(k) /\ cmd[k].conn \in Conns /\ Req(k) \in wire[cmd[k].conn].got
      BY <2>2 DEF CallInv, ResultInv
    <3>2. Sent(k)' /\ cmd'[k].conn = cmd[k].conn
      BY <2>1, <3>1 DEF CmdMove, Kept, Sent
    <3>. QED  BY <2>1, <3>1, <3>2 DEF WireMove
  <2>3. CASE ~(cmd[k].res = "answer" \/ cmd[k].ans = "ok")
    <3>1. Kept(k) /\ cmd'[k].pc = cmd[k].pc /\ \E c \in Conns : Req(k) \in wire[c].got
      BY <2>1, <2>3 DEF CmdMove, Kept, NoFrameSent
    <3>2. PICK c \in Conns : Req(k) \in wire[c].got
      BY <3>1
    <3>3. Carried(c, Req(k)) /\ Req(k) \in Frames
      BY <3>2, FrameFacts DEF Carried
    <3>4. Sent(k) /\ cmd[k].conn = c
      BY <3>3 DEF CallInv, WireInv
    <3>. QED  BY <2>1, <3>1, <3>2, <3>4 DEF WireMove, Kept, Sent
  <2>. QED  BY <2>2, <2>3
<1>. QED  BY <1>1, <1>2, SlotStep DEF CallInv

-----------------------------------------------------------------------------
(* The types of the calls' variables, and the summary, action by action.     *)

CallTypes ==
    /\ wire \in [Conns -> Wires] /\ \A c \in Conns : Len(wire[c].queue) <= QueueCap
    /\ cmd \in [Cmds -> Commands] /\ inFlight \in [Conns -> Nat]

\* Most steps touch no wire and no request.
LEMMA QuietCalls ==
    ASSUME TypeOK, UNCHANGED <<wire, cmdVars>>,
           \A c \in Conns : Attached(c) => Attached(c)'
    PROVE  CallTypes' /\ Moves
<1>1. \A c \in Conns : WireMove(c)
  BY DEF WireMove, Carried, cmdVars
<1>2. \A k \in Cmds : CmdMove(k)
  BY DEF CmdMove, Kept, cmdVars
<1>3. SlotMove
  BY DEF SlotMove, SameHolder, Holds, cmdVars
<1>4. CallTypes'
  BY DEF CallTypes, TypeOK, cmdVars
<1>. QED  BY <1>1, <1>2, <1>3, <1>4 DEF Moves

\* A wire whose queue and readings stay, or lose frames.
LEMMA LostFrames ==
    ASSUME TypeOK, NEW c \in Conns, Attached(c) => Attached(c)',
           wire'[c].got = wire[c].got,
           wire'[c].queue = wire[c].queue \/ wire'[c].queue = <<>>
    PROVE  WireMove(c)
BY DEF WireMove, Carried

LEMMA DroppedMoves ==
    ASSUME TypeOK, NEW c, cmd' = Dropped(c), UNCHANGED inFlight
    PROVE  /\ cmd' \in [Cmds -> Commands]
           /\ SlotMove /\ \A k \in Cmds : CmdMove(k)
<1>1. ASSUME NEW k \in Cmds
      PROVE  cmd'[k] \in Commands /\ CmdMove(k) /\ SameHolder(k)
  <2>1. cmd[k] \in Commands
    BY DEF TypeOK
  <2>2. cmd'[k] = cmd[k] \/ cmd'[k] = [cmd[k] EXCEPT !.res = "lost"]
    BY DEF Dropped
  <2>3. /\ cmd'[k] \in Commands
        /\ Kept(k) /\ cmd'[k].pc = cmd[k].pc /\ cmd'[k].res \in {cmd[k].res, "lost"}
    BY <2>1, <2>2 DEF Commands, Kept
  <2>. QED  BY <2>3 DEF CmdMove, SameHolder, Kept, Holds
<1>2. cmd' \in [Cmds -> Commands]
  BY <1>1 DEF Dropped
<1>. QED  BY <1>1, <1>2 DEF SlotMove

LEMMA CloseCalls ==
    ASSUME TypeOK, NEW c \in Conns \cup {NONE}, CloseLive(c), UNCHANGED <<conn, inFlight>>
    PROVE  CallTypes' /\ Moves
<1>1. ASSUME NEW d \in Conns
      PROVE  /\ wire'[d] \in Wires /\ wire'[d].got = wire[d].got
             /\ wire'[d].queue = wire[d].queue
  <2>1. wire[d] \in Wires
    BY DEF TypeOK
  <2>2. wire'[d] = wire[d] \/ wire'[d] = [wire[d] EXCEPT !.closed = TRUE, !.pending = {}]
    BY DEF CloseLive, Closed, TypeOK
  <2>. QED  BY <2>1, <2>2 DEF Wires
<1>2. wire' \in [Conns -> Wires]
  BY <1>1 DEF CloseLive, Closed, TypeOK
<1>3. \A d \in Conns : WireMove(d)
  BY <1>1, LostFrames DEF Attached
<1>. QED  BY <1>1, <1>2, <1>3, DroppedMoves DEF CallTypes, Moves, CloseLive, TypeOK

LEMMA TornCalls ==
    ASSUME TypeOK, NEW c \in Conns, Torn(c)
    PROVE  CallTypes' /\ Moves
<1>0. wire \in [Conns -> Wires] /\ conn \in [Conns -> Handshakes]
  BY DEF TypeOK
<1>1. PICK arrived \in BOOLEAN : wire' = [Closed(c) EXCEPT
              ![c].queue = <<>>,
              ![c].got = IF arrived /\ wire[c].queue # <<>>
                         THEN @ \cup {Head(wire[c].queue)} ELSE @]
  BY DEF Torn
<1>. DEFINE G == IF arrived /\ wire[c].queue # <<>>
                 THEN wire[c].got \cup {Head(wire[c].queue)} ELSE wire[c].got
<1>2. wire' = [wire EXCEPT ![c] = [wire[c] EXCEPT !.closed = TRUE, !.pending = {},
                                                  !.queue = <<>>, !.got = G]]
  BY <1>0, <1>1 DEF Closed, Wires
<1>3. wire[c] \in Wires /\ wire[c].queue \in Seq(Frames)
  BY <1>0 DEF Wires
<1>4. /\ G \subseteq Frames /\ wire[c].got \subseteq G
      /\ \A f \in G : Carried(c, f)
  <2>1. CASE wire[c].queue # <<>>
    <3>1. Head(wire[c].queue) \in Frames /\ In(Head(wire[c].queue), wire[c].queue)
      BY <1>3, <2>1, QueueFacts, FrameFacts DEF Frames
    <3>. QED  BY <1>3, <3>1 DEF Wires, Carried, In
  <2>2. CASE wire[c].queue = <<>>
    BY <1>3, <2>2 DEF Wires, Carried
  <2>. QED  BY <2>1, <2>2
<1>. HIDE DEF G
<1>5. wire'[c] \in Wires /\ wire'[c].queue = <<>> /\ wire'[c].got = G
  <2>1. wire'[c] = [wire[c] EXCEPT !.closed = TRUE, !.pending = {}, !.queue = <<>>, !.got = G]
    BY <1>0, <1>2
  <2>2. wire'[c] = [closed |-> TRUE, pending |-> {}, queue |-> <<>>, got |-> G]
    BY <1>3, <2>1 DEF Wires
  <2>3. <<>> \in Seq(Frames) /\ G \in SUBSET Frames /\ {} \in SUBSET Cmds
    BY <1>4
  <2>. QED  BY <2>2, <2>3 DEF Wires
<1>6. \A d \in Conns \ {c} : wire'[d] = wire[d]
  BY <1>0, <1>2
<1>7. wire' \in [Conns -> Wires]
  BY <1>0, <1>2, <1>5, <1>6
<1>8. \A d \in Conns : Attached(d) => Attached(d)'
  BY <1>0 DEF Torn, To, Attached, Handshakes
<1>9. WireMove(c)
  <2>1. \A f : Carried(c, f)' => f \in G
    BY <1>5 DEF Carried
  <2>. QED  BY <1>4, <1>5, <1>8, <2>1 DEF WireMove
<1>10. \A d \in Conns : WireMove(d) /\ Len(wire'[d].queue) <= QueueCap
  <2>1. \A d \in Conns \ {c} : WireMove(d) /\ Len(wire'[d].queue) <= QueueCap
    BY <1>6, <1>8, LostFrames DEF TypeOK
  <2>. QED  BY <1>5, <1>9, <2>1, AttachAssumption
<1>. QED  BY <1>7, <1>10, DroppedMoves DEF CallTypes, Moves, Torn, TypeOK

LEMMA WriteCalls ==
    ASSUME TypeOK, NEW c \in Conns, Write(c)
    PROVE  CallTypes' /\ Moves
<1>0. wire \in [Conns -> Wires] /\ wire[c] \in Wires /\ wire[c].queue \in Seq(Frames)
  BY DEF TypeOK, Wires
<1>1. /\ Head(wire[c].queue) \in Frames /\ In(Head(wire[c].queue), wire[c].queue)
      /\ Tail(wire[c].queue) \in Seq(Frames)
      /\ Len(Tail(wire[c].queue)) = Len(wire[c].queue) - 1
      /\ \A g : In(g, Tail(wire[c].queue)) => In(g, wire[c].queue)
  BY <1>0, QueueFacts, FrameFacts DEF Write, Frames
<1>2. /\ wire'[c] \in Wires /\ wire'[c].queue = Tail(wire[c].queue)
      /\ wire'[c].got = wire[c].got \cup {Head(wire[c].queue)}
  BY <1>0, <1>1 DEF Write, Wires
<1>3. \A d \in Conns \ {c} : wire'[d] = wire[d]
  BY <1>0 DEF Write
<1>4. wire' \in [Conns -> Wires]
  BY <1>0, <1>2, <1>3 DEF Write
<1>5. \A d \in Conns : Attached(d) => Attached(d)'
  BY DEF Write, Attached
<1>6. WireMove(c) /\ Len(wire'[c].queue) <= QueueCap
  <2>1. \A f : Carried(c, f)' => Carried(c, f)
    BY <1>1, <1>2 DEF Carried, In
  <2>2. Len(wire[c].queue) <= QueueCap /\ Len(wire[c].queue) \in Nat
    BY <1>0 DEF TypeOK
  <2>. QED  BY <1>1, <1>2, <1>5, <2>1, <2>2, AttachAssumption DEF WireMove
<1>7. \A d \in Conns : WireMove(d) /\ Len(wire'[d].queue) <= QueueCap
  <2>1. \A d \in Conns \ {c} : WireMove(d) /\ Len(wire'[d].queue) <= QueueCap
    BY <1>3, <1>5, LostFrames DEF TypeOK
  <2>. QED  BY <1>6, <2>1
<1>8. SlotMove /\ \A k \in Cmds : CmdMove(k)
  BY DEF Write, cmdVars, SlotMove, SameHolder, Holds, CmdMove, Kept
<1>. QED  BY <1>4, <1>7, <1>8 DEF CallTypes, Moves, Write, cmdVars, TypeOK

\* One request changes; the others stay.
LEMMA OneRequest ==
    ASSUME TypeOK, NEW k \in Cmds, NEW r \in Commands, cmd' = [cmd EXCEPT ![k] = r]
    PROVE  /\ cmd' \in [Cmds -> Commands] /\ cmd'[k] = r
           /\ \A j \in Cmds \ {k} : CmdMove(j) /\ SameHolder(j)
<1>1. cmd' \in [Cmds -> Commands] /\ cmd'[k] = r /\ \A j \in Cmds \ {k} : cmd'[j] = cmd[j]
  BY DEF TypeOK
<1>. QED  BY <1>1 DEF CmdMove, Kept, SameHolder, Holds

\* What the step of one request leaves of them all.
RequestsMove ==
    /\ cmd' \in [Cmds -> Commands] /\ inFlight' \in [Conns -> Nat]
    /\ SlotMove /\ \A j \in Cmds : CmdMove(j)

\* A request ends: what it becomes, and what happens to its slot.
LEMMA EndsRequest ==
    ASSUME TypeOK, SlotInv, NEW k \in Cmds, NEW a \in NoFrameSent \cup {"ok", "lost", "timeout", "gone"},
           Ended(k, a), cmd[k].pc # "done",
           IF Holds(k) THEN FreeSlot(k) ELSE UNCHANGED inFlight,
           a \in NoFrameSent => ~Sent(k),
           a = "ok" => cmd[k].res = "answer"
    PROVE  RequestsMove
<1>. DEFINE r == [cmd[k] EXCEPT !.pc = "done", !.ans = a]
<1>1. cmd \in [Cmds -> Commands] /\ cmd[k] \in Commands /\ inFlight \in [Conns -> Nat]
  BY DEF TypeOK
<1>2. /\ r \in Commands /\ r.pc = "done" /\ r.ans = a
      /\ r.conn = cmd[k].conn /\ r.res = cmd[k].res
  BY <1>1 DEF Commands
<1>3. cmd' = [cmd EXCEPT ![k] = r]
  BY <1>1 DEF Ended
<1>. HIDE DEF r
<1>4. /\ cmd' \in [Cmds -> Commands] /\ cmd'[k] = r
      /\ \A j \in Cmds \ {k} : CmdMove(j) /\ SameHolder(j)
  BY <1>2, <1>3, OneRequest
<1>5. CmdMove(k)
  BY <1>2, <1>4 DEF CmdMove, NoFrameSent
<1>6. ~Holds(k)'
  BY <1>2, <1>4 DEF Holds
<1>7. CASE Holds(k)
  <2>1. cmd[k].conn \in Conns /\ inFlight[cmd[k].conn] - 1 \in Nat
    BY <1>7, HolderCounted
  <2>2. inFlight' = [inFlight EXCEPT ![cmd[k].conn] = @ - 1]
    BY <1>7 DEF FreeSlot
  <2>3. inFlight' \in [Conns -> Nat]
    BY <1>1, <2>1, <2>2
  <2>. QED  BY <1>4, <1>5, <1>6, <1>7, <2>2, <2>3 DEF SlotMove, RequestsMove
<1>8. CASE ~Holds(k)
  BY <1>1, <1>4, <1>5, <1>6, <1>8 DEF SlotMove, SameHolder, RequestsMove
<1>. QED  BY <1>4, <1>5, <1>7, <1>8

\* A request advances and its slot, if it holds one, stays.
LEMMA AdvancesRequest ==
    ASSUME TypeOK, NEW k \in Cmds, NEW p \in {"body", "waiting", "cancelling"},
           cmd' = [cmd EXCEPT ![k].pc = p], UNCHANGED inFlight,
           <<cmd[k].pc, p>> \in {<<"new", "body">>, <<"reserved", "waiting">>,
                                  <<"waiting", "cancelling">>}
    PROVE  RequestsMove
<1>. DEFINE r == [cmd[k] EXCEPT !.pc = p]
<1>1. cmd \in [Cmds -> Commands] /\ cmd[k] \in Commands /\ inFlight \in [Conns -> Nat]
  BY DEF TypeOK
<1>2. /\ r \in Commands /\ r.pc = p /\ r.ans = cmd[k].ans
      /\ r.conn = cmd[k].conn /\ r.res = cmd[k].res
  BY <1>1 DEF Commands
<1>3. cmd' = [cmd EXCEPT ![k] = r]
  BY <1>1
<1>. HIDE DEF r
<1>4. /\ cmd' \in [Cmds -> Commands] /\ cmd'[k] = r
      /\ \A j \in Cmds \ {k} : CmdMove(j) /\ SameHolder(j)
  BY <1>2, <1>3, OneRequest
<1>5. CmdMove(k) /\ SameHolder(k)
  BY <1>2, <1>4 DEF CmdMove, Kept, SameHolder, Holds
<1>. QED  BY <1>1, <1>4, <1>5 DEF SlotMove, RequestsMove

\* The wires of a step that touches none of them, and that keeps conn.
LEMMA SameWires ==
    ASSUME TypeOK, UNCHANGED <<conn, wire>>
    PROVE  /\ wire' \in [Conns -> Wires] /\ \A c \in Conns : Len(wire'[c].queue) <= QueueCap
           /\ \A c \in Conns : WireMove(c)
BY DEF TypeOK, WireMove, Carried, Attached

LEMMA DeclaredCalls ==
    ASSUME TypeOK, CallInv, NEW k \in Cmds, Declared(k)
    PROVE  CallTypes' /\ Moves
<1>1. UNCHANGED <<conn, wire, inFlight>> /\ cmd[k].pc = "new"
  BY DEF Declared, cmdOthers
<1>2. ASSUME NEW a \in {"not_found", "forbidden"}, Ended(k, a) PROVE RequestsMove
  BY <1>1, <1>2, EndsRequest DEF Holds, Sent, NoFrameSent, CallInv
<1>3. ASSUME cmd' = [cmd EXCEPT ![k].pc = "body"] PROVE RequestsMove
  BY <1>1, <1>3, AdvancesRequest
<1>4. RequestsMove
  BY <1>2, <1>3 DEF Declared
<1>. QED  BY <1>1, <1>4, SameWires DEF CallTypes, Moves, RequestsMove

LEMMA ReserveCalls ==
    ASSUME TypeOK, CallInv, GenInv, NEW k \in Cmds, Reserve(k)
    PROVE  CallTypes' /\ Moves
<1>1. UNCHANGED <<conn, wire>> /\ cmd[k].pc = "body" /\ ~Holds(k) /\ ~Sent(k)
  BY DEF Reserve, cmdOthers, Holds, Sent
<1>2. ASSUME NEW a \in {"forbidden", "not_ready", "busy"}, Ended(k, a), UNCHANGED inFlight
      PROVE  RequestsMove
  BY <1>1, <1>2, EndsRequest DEF NoFrameSent, CallInv
<1>3. ASSUME Running(entry.live), inFlight[entry.live] < MaxCalls, entry # NONE,
             cmd' = [cmd EXCEPT ![k].pc = "reserved", ![k].conn = entry.live],
             inFlight' = [inFlight EXCEPT ![entry.live] = @ + 1]
      PROVE  RequestsMove
  <2>. DEFINE c == entry.live
              r == [cmd[k] EXCEPT !.pc = "reserved", !.conn = c]
  <2>0. cmd \in [Cmds -> Commands] /\ cmd[k] \in Commands /\ inFlight \in [Conns -> Nat]
    BY DEF TypeOK
  <2>1. c \in Conns /\ Attached(c)
    BY <1>3 DEF TypeOK, Entry, Running, GenInv, Attached
  <2>. HIDE DEF c
  <2>2. r \in Commands /\ r.pc = "reserved" /\ r.conn = c /\ r.ans = cmd[k].ans /\ r.res = cmd[k].res
    BY <2>0, <2>1 DEF Commands
  <2>3. cmd' = [cmd EXCEPT ![k] = r] /\ inFlight' = [inFlight EXCEPT ![c] = @ + 1] /\ inFlight[c] < MaxCalls
    BY <1>3, <2>0 DEF c
  <2>. HIDE DEF r
  <2>4. /\ cmd' \in [Cmds -> Commands] /\ cmd'[k] = r
        /\ \A j \in Cmds \ {k} : CmdMove(j) /\ SameHolder(j)
    BY <2>2, <2>3, OneRequest
  <2>5. CmdMove(k) /\ Holds(k)' /\ inFlight' \in [Conns -> Nat]
    BY <1>1, <2>0, <2>1, <2>2, <2>3, <2>4 DEF CmdMove, Holds
  <2>6. SlotMove
    BY <1>1, <2>1, <2>2, <2>3, <2>4, <2>5 DEF SlotMove
  <2>. QED  BY <2>4, <2>5, <2>6 DEF RequestsMove
<1>4. RequestsMove
  <2>1. Running(entry.live) /\ entry # NONE => inFlight[entry.live] \in Nat /\ MaxCalls \in Nat
    BY AttachAssumption DEF TypeOK, Entry, Running
  <2>. QED  BY <1>2, <1>3, <2>1 DEF Reserve
<1>. QED  BY <1>1, <1>4, SameWires DEF CallTypes, Moves, RequestsMove

\* A frame enters the queue of an attached connection.
LEMMA EnqueuedMoves ==
    ASSUME TypeOK, NEW c \in Conns, NEW f \in Frames, NEW P \in SUBSET Cmds,
           Len(wire[c].queue) < QueueCap,
           wire' = [wire EXCEPT ![c] = [wire[c] EXCEPT !.queue = Append(wire[c].queue, f), !.pending = P]],
           \A d \in Conns : Attached(d) => Attached(d)',
           Attached(c)',
           \A j \in Cmds : f = Req(j) => Sends(j) /\ cmd[j].conn = c
    PROVE  /\ wire' \in [Conns -> Wires] /\ \A d \in Conns : Len(wire'[d].queue) <= QueueCap
           /\ \A d \in Conns : WireMove(d)
<1>0. wire \in [Conns -> Wires] /\ wire[c] \in Wires /\ wire[c].queue \in Seq(Frames)
  BY DEF TypeOK, Wires
<1>1. /\ Append(wire[c].queue, f) \in Seq(Frames)
      /\ Len(Append(wire[c].queue, f)) = Len(wire[c].queue) + 1
      /\ \A g : In(g, Append(wire[c].queue, f)) => In(g, wire[c].queue) \/ g = f
  BY <1>0, QueueFacts
<1>2. /\ wire'[c] \in Wires /\ wire'[c].queue = Append(wire[c].queue, f)
      /\ wire'[c].got = wire[c].got
  BY <1>0, <1>1 DEF Wires
<1>3. \A d \in Conns \ {c} : wire'[d] = wire[d]
  BY <1>0
<1>4. wire' \in [Conns -> Wires]
  BY <1>0, <1>2, <1>3
<1>5. WireMove(c)
  <2>1. \A g : Carried(c, g)' => Carried(c, g) \/ g = f
    BY <1>1, <1>2 DEF Carried, In
  <2>. QED  BY <1>2, <2>1 DEF WireMove
<1>6. Len(wire'[c].queue) <= QueueCap
  BY <1>0, <1>1, <1>2, AttachAssumption
<1>7. \A d \in Conns \ {c} : WireMove(d) /\ Len(wire'[d].queue) <= QueueCap
  BY <1>3, LostFrames DEF TypeOK
<1>. QED  BY <1>4, <1>5, <1>6, <1>7

LEMMA SendCalls ==
    ASSUME TypeOK, CallInv, NEW k \in Cmds, Send(k)
    PROVE  CallTypes' /\ Moves
<1>0. cmd[k].pc = "reserved" /\ UNCHANGED conn /\ Holds(k) /\ ~Sent(k)
  BY DEF Send, cmdOthers, Holds, Sent
<1>1. PICK c \in Conns : cmd[k].conn = c /\ Attached(c)
  BY <1>0 DEF CallInv, SlotInv
<1>2. CASE Room(c)
  <2>0. wire \in [Conns -> Wires] /\ wire[c] \in Wires /\ wire[c].pending \in SUBSET Cmds
    BY <1>1 DEF TypeOK, Wires
  <2>1. /\ wire' = [Enqueued(c, Req(k)) EXCEPT ![c].pending = @ \cup {k}]
        /\ cmd' = [cmd EXCEPT ![k].pc = "waiting"] /\ UNCHANGED inFlight
    BY <1>1, <1>2 DEF Send
  <2>2. wire' = [wire EXCEPT ![c] = [wire[c] EXCEPT !.queue = Append(wire[c].queue, Req(k)),
                                                    !.pending = wire[c].pending \cup {k}]]
    BY <1>1, <2>0, <2>1 DEF Enqueued, Wires
  <2>3. RequestsMove
    BY <1>0, <2>1, AdvancesRequest
  <2>4. cmd'[k].pc = "waiting"
    BY <2>1 DEF TypeOK, Commands
  <2>5. /\ wire' \in [Conns -> Wires] /\ \A d \in Conns : Len(wire'[d].queue) <= QueueCap
        /\ \A d \in Conns : WireMove(d)
    <3>1. \A j \in Cmds : Req(k) = Req(j) => Sends(j) /\ cmd[j].conn = c
      BY <1>0, <1>1, <2>4, FrameFacts DEF Sends
    <3>2. Req(k) \in Frames /\ wire[c].pending \cup {k} \in SUBSET Cmds
      BY <2>0, FrameFacts
    <3>3. Len(wire[c].queue) < QueueCap
      BY <1>2 DEF Room
    <3>4. Attached(c)' /\ \A d \in Conns : Attached(d) => Attached(d)'
      BY <1>0, <1>1 DEF Attached
    <3>. QED  BY <1>1, <2>2, <3>1, <3>2, <3>3, <3>4, EnqueuedMoves
  <2>. QED  BY <2>3, <2>5 DEF CallTypes, Moves, RequestsMove
<1>3. CASE ~Room(c)
  <2>1. Ended(k, "not_sent") /\ FreeSlot(k) /\ UNCHANGED wire
    BY <1>1, <1>3 DEF Send
  <2>2. RequestsMove
    BY <1>0, <2>1, EndsRequest DEF CallInv, NoFrameSent
  <2>. QED  BY <1>0, <2>1, <2>2, SameWires DEF CallTypes, Moves, RequestsMove
<1>. QED  BY <1>2, <1>3

\* The pending entry of one request is forgotten.
LEMMA ForgottenMoves ==
    ASSUME TypeOK, NEW c \in Conns, NEW P \in SUBSET Cmds, UNCHANGED conn,
           wire' = [wire EXCEPT ![c].pending = P]
    PROVE  /\ wire' \in [Conns -> Wires] /\ \A d \in Conns : Len(wire'[d].queue) <= QueueCap
           /\ \A d \in Conns : WireMove(d)
<1>0. wire \in [Conns -> Wires] /\ wire[c] \in Wires
  BY DEF TypeOK
<1>1. ASSUME NEW d \in Conns
      PROVE  /\ wire'[d] \in Wires /\ wire'[d].queue = wire[d].queue
             /\ wire'[d].got = wire[d].got
  <2>1. wire[d] \in Wires /\ (wire'[d] = wire[d] \/ wire'[d] = [wire[d] EXCEPT !.pending = P])
    BY <1>0
  <2>. QED  BY <2>1 DEF Wires
<1>2. wire' \in [Conns -> Wires]
  BY <1>0, <1>1
<1>3. \A d \in Conns : WireMove(d) /\ Len(wire'[d].queue) <= QueueCap
  BY <1>1, LostFrames DEF TypeOK, Attached
<1>. QED  BY <1>2, <1>3

LEMMA ModuleAnswersCalls ==
    ASSUME TypeOK, NEW k \in Cmds, ModuleAnswers(k)
    PROVE  CallTypes' /\ Moves
<1>1. PICK c \in Conns :
          /\ Req(k) \in wire[c].got
          /\ wire' = [wire EXCEPT ![c].pending = @ \ {k}]
          /\ cmd' = [cmd EXCEPT ![k].res = "answer"]
          /\ UNCHANGED <<conn, inFlight>>
  BY DEF ModuleAnswers, cmdOthers
<1>. DEFINE r == [cmd[k] EXCEPT !.res = "answer"]
<1>2. /\ cmd \in [Cmds -> Commands] /\ cmd[k] \in Commands /\ inFlight \in [Conns -> Nat]
      /\ wire[c].pending \ {k} \in SUBSET Cmds
  BY DEF TypeOK, Wires
<1>3. /\ r \in Commands /\ r.pc = cmd[k].pc /\ r.conn = cmd[k].conn /\ r.ans = cmd[k].ans
      /\ r.res = "answer" /\ cmd' = [cmd EXCEPT ![k] = r]
  BY <1>1, <1>2 DEF Commands
<1>. HIDE DEF r
<1>4. /\ cmd' \in [Cmds -> Commands] /\ cmd'[k] = r
      /\ \A j \in Cmds \ {k} : CmdMove(j) /\ SameHolder(j)
  BY <1>3, OneRequest
<1>5. CmdMove(k) /\ SameHolder(k)
  BY <1>1, <1>3, <1>4 DEF CmdMove, Kept, SameHolder, Holds
<1>6. RequestsMove
  BY <1>1, <1>2, <1>4, <1>5 DEF RequestsMove, SlotMove
<1>7. wire' = [wire EXCEPT ![c].pending = wire[c].pending \ {k}]
  BY <1>1
<1>8. /\ wire' \in [Conns -> Wires] /\ \A d \in Conns : Len(wire'[d].queue) <= QueueCap
      /\ \A d \in Conns : WireMove(d)
  BY <1>1, <1>2, <1>7, ForgottenMoves
<1>. QED  BY <1>6, <1>8 DEF CallTypes, Moves, RequestsMove

LEMMA WaitingCalls ==
    ASSUME TypeOK, CallInv, NEW k \in Cmds, Finish(k) \/ TimeoutFires(k)
    PROVE  CallTypes' /\ Moves
<1>1. cmd[k].pc = "waiting" /\ UNCHANGED <<conn, wire>> /\ Holds(k)
  BY DEF Finish, TimeoutFires, cmdOthers, Holds
<1>2. CASE Finish(k)
  <2>1. PICK a \in {"ok", "lost"} : Ended(k, a) /\ (a = "ok" => cmd[k].res = "answer")
    BY <1>2 DEF Finish
  <2>2. RequestsMove
    BY <1>1, <1>2, <2>1, EndsRequest DEF Finish, CallInv, NoFrameSent
  <2>. QED  BY <1>1, <2>2, SameWires DEF CallTypes, Moves, RequestsMove
<1>3. CASE TimeoutFires(k)
  <2>1. RequestsMove
    BY <1>1, <1>3, AdvancesRequest DEF TimeoutFires
  <2>. QED  BY <1>1, <2>1, SameWires DEF CallTypes, Moves, RequestsMove
<1>. QED  BY <1>2, <1>3

LEMMA SendCancelCalls ==
    ASSUME TypeOK, CallInv, NEW k \in Cmds, SendCancel(k)
    PROVE  CallTypes' /\ Moves
<1>0. cmd[k].pc = "cancelling" /\ UNCHANGED conn /\ Holds(k)
  BY DEF SendCancel, cmdOthers, Holds
<1>1. PICK c \in Conns : cmd[k].conn = c /\ Attached(c)
  BY <1>0 DEF CallInv, SlotInv
<1>2. RequestsMove
  BY <1>0, EndsRequest DEF SendCancel, CallInv, NoFrameSent
<1>3. wire \in [Conns -> Wires] /\ wire[c] \in Wires /\ wire[c].pending \ {k} \in SUBSET Cmds
  BY DEF TypeOK, Wires
<1>4. CASE Room(c)
  <2>1. wire' = [Forgotten(k) EXCEPT ![c].queue = Append(@, Cancel(k))]
    BY <1>1, <1>4 DEF SendCancel
  <2>2. wire' = [wire EXCEPT ![c] = [wire[c] EXCEPT !.queue = Append(wire[c].queue, Cancel(k)),
                                                    !.pending = wire[c].pending \ {k}]]
    BY <1>1, <1>3, <2>1 DEF Forgotten, Wires
  <2>3. Cancel(k) \in Frames /\ \A j \in Cmds : Cancel(k) # Req(j)
    BY FrameFacts
  <2>4. Len(wire[c].queue) < QueueCap
    BY <1>4 DEF Room
  <2>5. Attached(c)' /\ \A d \in Conns : Attached(d) => Attached(d)'
    BY <1>0, <1>1 DEF Attached
  <2>6. /\ wire' \in [Conns -> Wires] /\ \A d \in Conns : Len(wire'[d].queue) <= QueueCap
        /\ \A d \in Conns : WireMove(d)
    BY <1>3, <2>2, <2>3, <2>4, <2>5, EnqueuedMoves
  <2>. QED  BY <1>2, <2>6 DEF CallTypes, Moves, RequestsMove
<1>5. CASE ~Room(c)
  <2>1. wire' = [wire EXCEPT ![c].pending = wire[c].pending \ {k}]
    BY <1>1, <1>5 DEF SendCancel, Forgotten
  <2>2. /\ wire' \in [Conns -> Wires] /\ \A d \in Conns : Len(wire'[d].queue) <= QueueCap
        /\ \A d \in Conns : WireMove(d)
    BY <1>0, <1>3, <2>1, ForgottenMoves
  <2>. QED  BY <1>2, <2>2 DEF CallTypes, Moves, RequestsMove
<1>. QED  BY <1>4, <1>5

LEMMA GoneCalls ==
    ASSUME TypeOK, CallInv, NEW k \in Cmds, Gone(k)
    PROVE  CallTypes' /\ Moves
<1>0. cmd[k].pc \in {"body", "waiting"} /\ UNCHANGED conn /\ (Holds(k) <=> cmd[k].pc = "waiting")
  BY DEF Gone, cmdOthers, Holds
<1>1. RequestsMove
  BY <1>0, EndsRequest DEF Gone, CallInv, NoFrameSent
<1>2. CASE cmd[k].pc = "waiting"
  <2>1. PICK c \in Conns : cmd[k].conn = c
    BY <1>0, <1>2 DEF CallInv, SlotInv
  <2>2. wire' = [wire EXCEPT ![c].pending = wire[c].pending \ {k}]
    BY <1>2, <2>1 DEF Gone, Forgotten
  <2>3. wire[c].pending \ {k} \in SUBSET Cmds
    BY DEF TypeOK, Wires
  <2>4. /\ wire' \in [Conns -> Wires] /\ \A d \in Conns : Len(wire'[d].queue) <= QueueCap
        /\ \A d \in Conns : WireMove(d)
    BY <1>0, <2>2, <2>3, ForgottenMoves
  <2>. QED  BY <1>1, <2>4 DEF CallTypes, Moves, RequestsMove
<1>3. CASE cmd[k].pc = "body"
  <2>1. UNCHANGED wire
    BY <1>3 DEF Gone
  <2>. QED  BY <1>0, <1>1, <2>1, SameWires DEF CallTypes, Moves, RequestsMove
<1>. QED  BY <1>0, <1>2, <1>3

LEMMA AttachCalls ==
    ASSUME TypeOK, CallInv, NEW c \in Conns, Attach(c)
    PROVE  CallTypes' /\ Moves
<1>0. /\ wire \in [Conns -> Wires] /\ wire[c] \in Wires /\ wire[c].pending \in SUBSET Cmds
      /\ conn \in [Conns -> Handshakes] /\ inFlight \in [Conns -> Nat]
  BY DEF TypeOK, Wires
<1>1. ~Attached(c) /\ UNCHANGED cmd /\ inFlight' = [inFlight EXCEPT ![c] = 0]
  BY DEF Attach, ConnStep, Attached
<1>2. Attached(c)' /\ \A d \in Conns : Attached(d) => Attached(d)'
  BY <1>0 DEF Attach, Attached, Handshakes
<1>3. Len(wire[c].queue) < QueueCap
  BY <1>1, NothingCarried, AttachAssumption DEF CallInv
<1>4. wire' = [wire EXCEPT ![c] = [wire[c] EXCEPT !.queue = Append(wire[c].queue, Success),
                                                  !.pending = wire[c].pending]]
  BY <1>0 DEF Attach, Enqueued, Wires
<1>5. \A j \in Cmds : Success # Req(j)
  BY FrameFacts
<1>6. /\ wire' \in [Conns -> Wires] /\ \A d \in Conns : Len(wire'[d].queue) <= QueueCap
      /\ \A d \in Conns : WireMove(d)
  BY <1>0, <1>2, <1>3, <1>4, <1>5, EnqueuedMoves DEF Frames
<1>7. SlotMove /\ inFlight' \in [Conns -> Nat]
  BY <1>0, <1>1 DEF SlotMove, SameHolder, Holds
<1>8. \A k \in Cmds : CmdMove(k)
  BY <1>1 DEF CmdMove, Kept
<1>. QED  BY <1>1, <1>6, <1>7, <1>8 DEF CallTypes, Moves, TypeOK

LEMMA CrashCalls ==
    ASSUME TypeOK, Crash
    PROVE  CallTypes' /\ Moves
<1>1. ASSUME NEW c \in Conns
      PROVE  /\ wire'[c] \in Wires /\ wire'[c].got = wire[c].got
             /\ wire'[c].queue = <<>> /\ (Attached(c) => Attached(c)')
  <2>1. /\ wire[c] \in Wires /\ conn[c] \in Handshakes
        /\ wire'[c] = [wire[c] EXCEPT !.pending = {}, !.queue = <<>>]
        /\ conn'[c] = IF conn[c].pc = "new" THEN conn[c] ELSE [conn[c] EXCEPT !.pc = "done"]
    BY DEF TypeOK, Crash
  <2>2. <<>> \in Seq(Frames) /\ {} \in SUBSET Cmds
    OBVIOUS
  <2>. QED  BY <2>1, <2>2 DEF Wires, Handshakes, Attached
<1>2. wire' \in [Conns -> Wires]
  BY <1>1 DEF Crash
<1>3. \A c \in Conns : WireMove(c) /\ Len(wire'[c].queue) <= QueueCap
  BY <1>1, LostFrames, AttachAssumption
<1>4. ASSUME NEW k \in Cmds
      PROVE  cmd'[k] \in Commands /\ ~Holds(k)' /\ CmdMove(k)
  <2>1. /\ cmd[k] \in Commands
        /\ cmd'[k] = IF cmd[k].pc \in {"new", "done"} THEN cmd[k]
                     ELSE [cmd[k] EXCEPT !.pc = "done", !.ans = "gone"]
    BY DEF TypeOK, Crash
  <2>2. CASE cmd[k].pc \in {"new", "done"}
    BY <2>1, <2>2 DEF CmdMove, Kept, Holds
  <2>3. CASE cmd[k].pc \notin {"new", "done"}
    <3>1. /\ cmd'[k] \in Commands /\ cmd'[k].pc = "done" /\ cmd'[k].ans = "gone"
          /\ cmd'[k].conn = cmd[k].conn /\ cmd'[k].res = cmd[k].res
      BY <2>1, <2>3 DEF Commands
    <3>. QED  BY <2>3, <3>1 DEF CmdMove, Holds
  <2>. QED  BY <2>2, <2>3
<1>5. cmd' \in [Cmds -> Commands] /\ inFlight' \in [Conns -> Nat] /\ SlotMove
  BY <1>4 DEF Crash, SlotMove
<1>. QED  BY <1>2, <1>3, <1>4, <1>5 DEF CallTypes, Moves

-----------------------------------------------------------------------------
(* The registry's half of the invariant.                                     *)

RegTypes ==
    /\ disk \in [rec : Record \cup {NONE}, tomb : Manifests \cup {NONE}]
    /\ change \in ChangeRec \cup {NONE} /\ entry \in Entry \cup {NONE}
    /\ closed \in BOOLEAN /\ lock \in {NONE, "change", "shutdown"}
    /\ gen \in [Conns -> {"none", "running", "revoked"}] /\ conn \in [Conns -> Handshakes]
    /\ daemon \in [boot : {"hydrated", "filled", "up"}, stop : BOOLEAN, checked : BOOLEAN]
    /\ minted \in 0..MaxTok /\ told \subseteq 1..minted
    /\ agreed \in [known : BOOLEAN, facts : SUBSET UNION {Facts[m] : m \in Manifests}]
    /\ crashes \in Nat

LEMMA AllTypes == TypeOK <=> CallTypes /\ RegTypes
BY DEF TypeOK, CallTypes, RegTypes

\* A connection moves on without any claim on the entry.
QuietConn(c) ==
    /\ conn'[c].tok \in told \cup {0}
    /\ conn[c].pc \in {"committed", "serving", "ended"} =>
          /\ conn'[c].tok = conn[c].tok /\ conn'[c].man = conn[c].man
          /\ \/ conn'[c].pc = conn[c].pc
             \/ conn[c].pc = "serving" /\ conn'[c].pc = "ended"
    /\ conn'[c].pc = "claimed" /\ entry # NONE /\ entry.tok = conn'[c].tok =>
          entry.man = conn'[c].man

LEMMA QuietRegistry ==
    ASSUME TypeOK, RegistryInv, UNCHANGED <<regVars, gen, daemon, crashes>>,
           conn' \in [Conns -> Handshakes], \A c \in Conns : QuietConn(c)
    PROVE  RegTypes' /\ RegistryInv'
<1>1. RegTypes'
  BY DEF TypeOK, RegTypes, regVars
<1>2. RelaxInv' /\ RelaxAgreed' /\ StopInv' /\ LockInv'
  BY DEF RegistryInv, RelaxInv, RelaxAgreed, StopInv, LockInv, MustRevoke, regVars
<1>3. TokInv' /\ ClaimInv'
  BY DEF RegistryInv, TokInv, ClaimInv, QuietConn, regVars
<1>4. GenInv'
  BY DEF RegistryInv, GenInv, QuietConn, regVars
<1>5. RunningIsCurrent'
  BY DEF RegistryInv, GenInv, RunningIsCurrent, QuietConn, regVars
<1>. QED  BY <1>1, <1>2, <1>3, <1>4, <1>5 DEF RegistryInv

\* A connection goes to another place, or is answered.
LEMMA ConnMoves ==
    ASSUME TypeOK, NEW c \in Conns,
           \/ \E p \in {"open", "noting", "claimed", "committed", "ended", "done"} : To(c, p)
           \/ \E a \in ConnAnswers : Answer(c, a)
           \/ \E r \in Refusals : Refused(c, r)
    PROVE  /\ conn' \in [Conns -> Handshakes] /\ \A d \in Conns \ {c} : conn'[d] = conn[d]
           /\ conn'[c].tok = conn[c].tok /\ conn'[c].man = conn[c].man
<1>1. conn \in [Conns -> Handshakes] /\ conn[c] \in Handshakes
  BY DEF TypeOK
<1>2. CASE \E p \in {"open", "noting", "claimed", "committed", "ended", "done"} : To(c, p)
  BY <1>1, <1>2 DEF To, Handshakes
<1>3. ASSUME NEW a \in ConnAnswers, Answer(c, a)
      PROVE  /\ conn' \in [Conns -> Handshakes] /\ \A d \in Conns \ {c} : conn'[d] = conn[d]
             /\ conn'[c].tok = conn[c].tok /\ conn'[c].man = conn[c].man
  <2>1. [conn[c] EXCEPT !.pc = "done", !.ans = a] \in Handshakes
    BY <1>1 DEF Handshakes
  <2>2. conn' = [conn EXCEPT ![c] = [conn[c] EXCEPT !.pc = "done", !.ans = a]]
    BY <1>1, <1>3 DEF Answer, Handshakes
  <2>. QED  BY <1>1, <2>1, <2>2 DEF Handshakes
<1>4. ASSUME NEW r \in Refusals, Refused(c, r)
      PROVE  /\ conn' \in [Conns -> Handshakes] /\ \A d \in Conns \ {c} : conn'[d] = conn[d]
             /\ conn'[c].tok = conn[c].tok /\ conn'[c].man = conn[c].man
  <2>1. [conn[c] EXCEPT !.pc = "refused", !.ref = r] \in Handshakes
    BY <1>1 DEF Handshakes
  <2>2. conn' = [conn EXCEPT ![c] = [conn[c] EXCEPT !.pc = "refused", !.ref = r]]
    BY <1>1, <1>4 DEF Refused, Handshakes
  <2>. QED  BY <1>1, <2>1, <2>2 DEF Handshakes
<1>. QED  BY <1>2, <1>3, <1>4

LEMMA SameConns ==
    ASSUME TypeOK, RegistryInv, UNCHANGED conn
    PROVE  conn' \in [Conns -> Handshakes] /\ \A c \in Conns : QuietConn(c)
BY DEF TypeOK, QuietConn, RegistryInv, TokInv, ClaimInv

LEMMA RequestRegistry ==
    ASSUME TypeOK, RegistryInv, UNCHANGED cmdOthers
    PROVE  RegTypes' /\ RegistryInv'
BY SameConns, QuietRegistry DEF cmdOthers

LEMMA ConnectRegistry ==
    ASSUME TypeOK, RegistryInv, NEW c \in Conns, Connect(c)
    PROVE  RegTypes' /\ RegistryInv'
<1>1. PICK tok \in told \cup {0}, man \in Manifests, ver \in BOOLEAN :
         conn' = [conn EXCEPT ![c] =
             [@ EXCEPT !.pc = "hello", !.tok = tok, !.man = man, !.ver = ver]]
  BY DEF Connect
<1>2. conn[c] \in Handshakes /\ conn \in [Conns -> Handshakes] /\ tok \in 0..MaxTok
  <2>1. tok \in 1..minted \/ tok = 0
    BY DEF TypeOK
  <2>2. minted \in 0..MaxTok /\ MaxTok \in Nat
    BY AttachAssumption DEF TypeOK
  <2>3. conn[c] \in Handshakes /\ conn \in [Conns -> Handshakes]
    BY DEF TypeOK
  <2>. QED  BY <2>1, <2>2, <2>3
<1>3. /\ conn' \in [Conns -> Handshakes] /\ \A d \in Conns \ {c} : conn'[d] = conn[d]
      /\ conn'[c].pc = "hello" /\ conn'[c].tok = tok
  <2>. DEFINE h == [conn[c] EXCEPT !.pc = "hello", !.tok = tok, !.man = man, !.ver = ver]
  <2>1. h \in Handshakes /\ h.pc = "hello" /\ h.tok = tok
    BY <1>2 DEF Handshakes
  <2>2. conn' = [conn EXCEPT ![c] = h]
    BY <1>1, <1>2
  <2>. HIDE DEF h
  <2>. QED  BY <1>2, <2>1, <2>2
<1>4. \A d \in Conns : QuietConn(d)
  BY <1>3 DEF Connect, QuietConn, RegistryInv, TokInv, ClaimInv
<1>. QED  BY <1>3, <1>4, QuietRegistry DEF Connect

LEMMA HandshakeRegistry ==
    ASSUME TypeOK, RegistryInv, NEW c \in Conns, CheckClosed(c) \/ Lookup(c) \/ Refuse(c)
    PROVE  RegTypes' /\ RegistryInv'
<1>1. /\ UNCHANGED <<regVars, gen, daemon, crashes>>
      /\ conn[c].pc \in {"hello", "open", "refused"}
  BY DEF CheckClosed, Lookup, Refuse, ConnStep, regVars
<1>2. conn[c].ref \in Refusals \cup {"none"}
  BY DEF TypeOK, Handshakes
<1>3. \/ \E p \in {"open", "noting", "claimed"} : To(c, p)
      \/ \E a \in ConnAnswers : Answer(c, a)
      \/ \E r \in Refusals : Refused(c, r)
  BY <1>2 DEF CheckClosed, Lookup, Refuse, ConnAnswers, Refusals
<1>4. /\ conn' \in [Conns -> Handshakes] /\ \A d \in Conns \ {c} : conn'[d] = conn[d]
      /\ conn'[c].tok = conn[c].tok /\ conn'[c].man = conn[c].man
  BY <1>3, ConnMoves
<1>5. conn'[c].pc = "claimed" => entry # NONE /\ entry.man = conn[c].man
  BY DEF CheckClosed, Lookup, Refuse, To, Answer, Refused, TypeOK, Handshakes
<1>6. \A d \in Conns : QuietConn(d)
  BY <1>1, <1>4, <1>5 DEF QuietConn, RegistryInv, TokInv, ClaimInv
<1>. QED  BY <1>1, <1>4, <1>6, QuietRegistry

LEMMA TornRegistry ==
    ASSUME TypeOK, RegistryInv, NEW c \in Conns, Torn(c)
    PROVE  RegTypes' /\ RegistryInv'
<1>1. /\ conn' \in [Conns -> Handshakes] /\ \A d \in Conns \ {c} : conn'[d] = conn[d]
      /\ conn'[c].tok = conn[c].tok /\ conn'[c].man = conn[c].man
  BY ConnMoves DEF Torn
<1>2. conn[c].pc = "serving" /\ conn'[c].pc = "ended"
  BY DEF Torn, To, TypeOK, Handshakes
<1>3. \A d \in Conns : QuietConn(d)
  BY <1>1, <1>2 DEF QuietConn, RegistryInv, TokInv, ClaimInv
<1>. QED  BY <1>1, <1>3, QuietRegistry DEF Torn

\* The steps of the file lock: the registry is not touched yet.
LEMMA RegisterRegistry ==
    ASSUME TypeOK, RegistryInv, NEW m \in Manifests, NEW a \in BOOLEAN, Register(m, a)
    PROVE  RegTypes' /\ RegistryInv'
<1>. DEFINE rec == [man |-> m, tok |-> minted + 1,
                    disabled |-> disk.rec # NONE /\ disk.rec.disabled]
<1>1. /\ disk' = [rec |-> rec, tomb |-> NONE] /\ change' = [op |-> "registered", rec |-> rec]
      /\ minted' = minted + 1 /\ change = NONE /\ minted < MaxTok
      /\ UNCHANGED <<entry, closed, lock, told, gen, conn, daemon, crashes>>
  BY DEF Register
<1>2. /\ minted \in 0..MaxTok /\ MaxTok \in Nat /\ minted' \in 1..MaxTok /\ told \subseteq 1..minted
  BY <1>1, AttachAssumption DEF TypeOK
<1>3. rec \in Record /\ rec.man = m /\ rec.tok = minted + 1
  <2>1. (disk.rec # NONE /\ disk.rec.disabled) \in BOOLEAN
    OBVIOUS
  <2>. QED  BY <1>1, <1>2, <2>1 DEF Record
<1>. HIDE DEF rec
<1>4. rec # NONE /\ m # NONE
  BY <1>3, AttachAssumption
<1>5. agreed' \in [known : BOOLEAN, facts : SUBSET UNION {Facts[n] : n \in Manifests}]
  <2>1. agreed.facts \in SUBSET UNION {Facts[n] : n \in Manifests}
    BY DEF TypeOK
  <2>2. Facts[m] \in SUBSET UNION {Facts[n] : n \in Manifests}
    OBVIOUS
  <2>. QED  BY <2>1, <2>2 DEF Register
<1>6. change' \in ChangeRec /\ change'.rec = rec /\ change'.op = "registered"
  BY <1>1, <1>3 DEF ChangeRec
<1>7. RegTypes'
  <2>1. disk' \in [rec : Record \cup {NONE}, tomb : Manifests \cup {NONE}]
    BY <1>1, <1>3
  <2>2. told' \subseteq 1..minted' /\ minted' \in 0..MaxTok
    BY <1>1, <1>2
  <2>. QED  BY <1>1, <1>5, <1>6, <2>1, <2>2 DEF RegTypes, TypeOK
<1>8. RelaxInv' /\ RelaxAgreed'
  <2>1. disk'.rec = rec /\ disk'.tomb = NONE
    BY <1>1
  <2>2. agreed'.known /\ Facts[m] \subseteq agreed'.facts
    <3>1. CASE a
      BY <3>1 DEF Register
    <3>2. CASE ~a
      <4>1. ~IsRelax(m)
        BY <3>2 DEF Register
      <4>2. agreed' = [known |-> TRUE,
                       facts |-> IF agreed.known THEN agreed.facts \cap Facts[m]
                                 ELSE Facts[m] \ {Remote}]
        BY <3>2 DEF Register
      <4>. disk.rec # NONE => disk.rec.man # NONE
        BY AttachAssumption DEF TypeOK, Record
      <4>3. agreed.known => Facts[m] \subseteq agreed.facts
        BY <4>1 DEF IsRelax, RegistryInv, RelaxInv, RelaxAgreed
      <4>4. ~agreed.known => Remote \notin Facts[m]
        BY <4>1 DEF IsRelax, RegistryInv, RelaxInv
      <4>. QED  BY <4>2, <4>3, <4>4
    <3>. QED  BY <3>1, <3>2
  <2>. QED  BY <1>3, <1>4, <2>1, <2>2 DEF RelaxInv, RelaxAgreed
<1>9. TokInv'
  <2>1. minted + 1 \notin told
    BY <1>2
  <2>. QED  BY <1>1, <1>2, <1>3, <1>6, <2>1 DEF TokInv, RegistryInv
<1>10. LockInv'
  BY <1>1, <1>2, AttachAssumption DEF LockInv, RegistryInv
<1>11. ClaimInv' /\ GenInv' /\ RunningIsCurrent' /\ StopInv'
  BY <1>1 DEF ClaimInv, GenInv, RunningIsCurrent, StopInv, RegistryInv
<1>. QED  BY <1>7, <1>8, <1>9, <1>10, <1>11 DEF RegistryInv

LEMMA RecordRegistry ==
    ASSUME TypeOK, RegistryInv, RevokeRecord \/ \E d \in BOOLEAN : SetDisabled(d)
    PROVE  RegTypes' /\ RegistryInv'
<1>1. /\ change = NONE /\ disk.rec # NONE /\ disk.rec \in Record /\ disk.tomb \in Manifests \cup {NONE}
      /\ UNCHANGED <<entry, closed, lock, told, gen, conn, daemon, minted, agreed, crashes>>
  BY DEF RevokeRecord, SetDisabled, TypeOK
<1>2. /\ disk.rec.man \in Manifests /\ disk.rec.man # NONE /\ disk.rec.tok \in 1..MaxTok
      /\ disk.rec.disabled \in BOOLEAN /\ disk.rec.tok <= minted
  BY <1>1, AttachAssumption DEF Record, RegistryInv, TokInv
<1>3. /\ change' \in ChangeRec /\ change'.op # "registered" /\ change'.rec.tok = disk.rec.tok
      /\ disk' \in [rec : Record \cup {NONE}, tomb : Manifests \cup {NONE}]
      /\ disk'.rec # NONE => disk'.rec.tok = disk.rec.tok /\ disk'.rec.man = disk.rec.man
      /\ disk'.tomb # NONE => disk'.tomb \in {disk.tomb, disk.rec.man}
      /\ disk'.rec # NONE \/ disk'.tomb # NONE
  <2>1. CASE RevokeRecord
    <3>1. change' = [op |-> "revoked", rec |-> disk.rec] /\ disk' = [rec |-> NONE, tomb |-> disk.rec.man]
      BY <2>1 DEF RevokeRecord
    <3>. QED  BY <1>1, <1>2, <3>1 DEF ChangeRec
  <2>2. ASSUME NEW d \in BOOLEAN, SetDisabled(d) PROVE <1>3
    <3>. DEFINE rec == [disk.rec EXCEPT !.disabled = d]
    <3>1. rec \in Record /\ rec.man = disk.rec.man /\ rec.tok = disk.rec.tok
      BY <1>1, <1>2 DEF Record
    <3>2. change' = [op |-> "disabled", rec |-> rec] /\ disk' = [disk EXCEPT !.rec = rec]
      BY <2>2 DEF SetDisabled
    <3>. HIDE DEF rec
    <3>3. disk' = [rec |-> rec, tomb |-> disk.tomb]
      BY <3>2 DEF TypeOK
    <3>4. rec # NONE
      BY <3>1, AttachAssumption
    <3>. QED  BY <1>1, <3>1, <3>2, <3>3, <3>4 DEF ChangeRec
  <2>. QED  BY <2>1, <2>2
<1>4. RegTypes'
  BY <1>1, <1>3 DEF RegTypes, TypeOK
<1>5. RelaxInv' /\ RelaxAgreed'
  BY <1>1, <1>2, <1>3 DEF RelaxInv, RelaxAgreed, RegistryInv
<1>6. TokInv' /\ LockInv'
  BY <1>1, <1>2, <1>3, AttachAssumption DEF TokInv, LockInv, RegistryInv
<1>7. ClaimInv' /\ GenInv' /\ RunningIsCurrent' /\ StopInv'
  BY <1>1 DEF ClaimInv, GenInv, RunningIsCurrent, StopInv, RegistryInv
<1>. QED  BY <1>4, <1>5, <1>6, <1>7 DEF RegistryInv

\* Under the registry's lock nothing runs, and a connection is not touched by it.
LEMMA NothingRuns ==
    ASSUME RegistryInv, NEW c \in Conns, entry = NONE \/ entry.slot = NONE \/ closed
    PROVE  gen[c] # "running"
BY AttachAssumption DEF RegistryInv, RunningIsCurrent

\* The fields of what a change makes of the entry.
LEMMA ChangedFacts ==
    ASSUME TypeOK, change # NONE, entry # NONE \/ change.op = "registered"
    PROVE  /\ Changed \in Entry \cup {NONE}
           /\ Changed # NONE =>
                 /\ Changed.tok = change.rec.tok \/ (entry # NONE /\ Changed.tok = entry.tok)
                 /\ change.op # "registered" =>
                       Changed.tok = entry.tok /\ Changed.man = entry.man
                 /\ change.op = "registered" => Changed.tok = change.rec.tok
                 /\ entry # NONE =>
                       /\ Changed.slot = entry.slot /\ Changed.last = entry.last
                       /\ Changed.live \in {entry.live, NONE}
                       /\ ~MustRevoke => Changed.live = entry.live
                 /\ entry = NONE => Changed.live = NONE
                 /\ Changed.disabled = change.rec.disabled
           /\ change.op = "disabled" => Changed # NONE
<1>1. change \in ChangeRec /\ change.rec \in Record
  BY DEF TypeOK, ChangeRec
<1>2. CASE change.op = "revoked"
  BY <1>2 DEF Changed
<1>3. CASE change.op = "disabled"
  <2>1. entry \in Entry
    BY <1>3 DEF TypeOK
  <2>2. Changed = [entry EXCEPT !.disabled = change.rec.disabled,
                                !.live = IF change.rec.disabled THEN NONE ELSE @]
    BY <1>3 DEF Changed
  <2>. DEFINE l == IF change.rec.disabled THEN NONE ELSE entry.live
  <2>3. l \in Conns \cup {NONE} /\ change.rec.disabled \in BOOLEAN
    BY <1>1, <2>1 DEF Entry, Record
  <2>4. Changed = [entry EXCEPT !.disabled = change.rec.disabled, !.live = l]
    BY <2>1, <2>2 DEF Entry
  <2>5. l \in {entry.live, NONE} /\ (~MustRevoke => l = entry.live)
    BY <1>3 DEF MustRevoke
  <2>. HIDE DEF l
  <2>6. /\ Changed \in Entry /\ Changed.disabled = change.rec.disabled /\ Changed.live = l
        /\ Changed.tok = entry.tok /\ Changed.man = entry.man
        /\ Changed.slot = entry.slot /\ Changed.last = entry.last
    BY <2>1, <2>3, <2>4 DEF Entry
  <2>7. Changed # NONE
    BY <2>6, AttachAssumption
  <2>. QED  BY <1>3, <2>1, <2>5, <2>6, <2>7
<1>4. CASE change.op = "registered"
  <2>1. CASE entry = NONE
    <3>1. Changed = Hydrated(change.rec)
      BY <1>4, <2>1 DEF Changed
    <3>2. change.rec # NONE
      BY <1>1, AttachAssumption
    <3>3. Changed = [man |-> change.rec.man, tok |-> change.rec.tok,
                     disabled |-> change.rec.disabled, slot |-> NONE, last |-> NONE,
                     live |-> NONE, mismatch |-> 0]
      BY <3>1, <3>2 DEF Hydrated
    <3>. QED  BY <1>1, <1>4, <2>1, <3>3, AttachAssumption DEF Entry, Record
  <2>2. CASE entry # NONE
    <3>1. entry \in Entry
      BY <2>2 DEF TypeOK
    <3>2. Changed = [entry EXCEPT !.man = change.rec.man, !.tok = change.rec.tok,
                                  !.disabled = change.rec.disabled,
                                  !.live = NONE, !.mismatch = 0]
      BY <1>4, <2>2 DEF Changed
    <3>3. /\ change.rec.man \in Manifests /\ change.rec.tok \in 1..MaxTok
          /\ change.rec.disabled \in BOOLEAN /\ 0 \in 0..MaxTok
      BY <1>1, AttachAssumption DEF Record
    <3>4. /\ Changed \in Entry /\ Changed.disabled = change.rec.disabled /\ Changed.live = NONE
          /\ Changed.tok = change.rec.tok
          /\ Changed.slot = entry.slot /\ Changed.last = entry.last
      BY <3>1, <3>2, <3>3 DEF Entry
    <3>. QED  BY <1>4, <2>2, <3>4 DEF MustRevoke
  <2>. QED  BY <2>1, <2>2
<1>. QED  BY <1>1, <1>2, <1>3, <1>4 DEF ChangeRec

\* A request returns: the token it was given was never told before.
LEMMA ReturnFacts ==
    ASSUME TypeOK, RegistryInv, change # NONE, Return, UNCHANGED <<disk, conn, minted>>
    PROVE  TokInv' /\ told' \subseteq 1..minted' /\ change' = NONE
<1>1. change.rec.tok \in 1..minted
  <2>1. change.rec \in Record
    BY DEF TypeOK, ChangeRec
  <2>2. change.rec.tok \in 1..MaxTok /\ change.rec.tok <= minted /\ minted \in 0..MaxTok
    BY <2>1 DEF Record, RegistryInv, TokInv, TypeOK
  <2>. QED  BY <2>2, AttachAssumption
<1>2. told \subseteq told' /\ told' \subseteq 1..minted
  BY <1>1 DEF Return, TypeOK
<1>. QED  BY <1>2 DEF Return, RegistryInv, TokInv

\* An entry that takes a change keeps every claim on it true.
LEMMA ChangedClaims ==
    ASSUME TypeOK, RegistryInv, change # NONE, entry # NONE \/ change.op = "registered",
           entry' = Changed, UNCHANGED conn
    PROVE  ClaimInv'
<1>. SUFFICES ASSUME NEW c \in Conns, conn[c].pc = "claimed", entry' # NONE, entry'.tok = conn[c].tok
              PROVE  entry'.man = conn[c].man
  BY DEF ClaimInv
<1>1. conn[c].tok \in told \cup {0}
  BY DEF RegistryInv, TokInv
<1>2. change.rec.tok \in 1..MaxTok /\ MaxTok \in Nat
  BY AttachAssumption DEF TypeOK, ChangeRec, Record
<1>3. change.op # "registered"
  <2>1. ASSUME change.op = "registered" PROVE FALSE
    <3>1. change.rec.tok \notin told /\ change.rec.tok # 0
      BY <1>2, <2>1 DEF RegistryInv, TokInv
    <3>2. Changed.tok = change.rec.tok
      BY <2>1, ChangedFacts
    <3>. QED  BY <1>1, <3>1, <3>2
  <2>. QED  BY <2>1
<1>4. Changed.tok = entry.tok /\ Changed.man = entry.man /\ entry # NONE
  BY <1>3, ChangedFacts
<1>. QED  BY <1>4 DEF RegistryInv, ClaimInv

LEMMA OnChangeIdleRegistry ==
    ASSUME TypeOK, RegistryInv, OnChangeIdle
    PROVE  RegTypes' /\ RegistryInv'
<1>1. /\ change # NONE /\ lock = NONE /\ Return
      /\ UNCHANGED <<disk, closed, lock, gen, conn, daemon, minted, agreed, crashes>>
  BY DEF OnChangeIdle, Unlocked
<1>2. TokInv' /\ told' \subseteq 1..minted' /\ change' = NONE
  BY <1>1, ReturnFacts
<1>3. \/ UNCHANGED entry
      \/ ~closed /\ (entry # NONE \/ change.op = "registered") /\ entry' = Changed
  BY DEF OnChangeIdle
<1>4. RegTypes'
  BY <1>1, <1>2, <1>3, ChangedFacts DEF RegTypes, TypeOK
<1>5. RelaxInv' /\ RelaxAgreed' /\ StopInv' /\ LockInv'
  BY <1>1, AttachAssumption DEF RegistryInv, RelaxInv, RelaxAgreed, StopInv, LockInv
<1>6. CASE UNCHANGED entry
  BY <1>1, <1>2, <1>4, <1>5, <1>6 DEF RegistryInv, ClaimInv, GenInv, RunningIsCurrent
<1>7. CASE ~closed /\ (entry # NONE \/ change.op = "registered") /\ entry' = Changed
  <2>1. ClaimInv'
    BY <1>1, <1>7, ChangedClaims
  <2>2. ASSUME NEW c \in Conns, gen[c] = "running"
        PROVE  /\ change.op = "disabled" /\ ~change.rec.disabled /\ ~MustRevoke
               /\ entry # NONE /\ entry' # NONE /\ ~entry'.disabled
               /\ entry'.slot = entry.slot /\ entry'.last = entry.last /\ entry'.live = entry.live
               /\ entry'.tok = entry.tok /\ entry'.man = entry.man
    <3>1. entry # NONE
      BY <2>2 DEF RegistryInv, RunningIsCurrent
    <3>2. ~MustRevoke
      BY <1>7, <3>1 DEF OnChangeIdle
    <3>3. change.op = "disabled" /\ ~change.rec.disabled
      BY <3>2 DEF MustRevoke
    <3>. QED  BY <1>1, <1>7, <3>1, <3>2, <3>3, ChangedFacts
  <2>3. RunningIsCurrent'
    BY <1>1, <2>2 DEF RegistryInv, RunningIsCurrent
  <2>4. ASSUME NEW c \in Conns, entry' # NONE, entry'.live = c
        PROVE  conn[c].pc \in {"serving", "ended"}
    <3>1. entry # NONE /\ entry.live = c
      BY <1>1, <1>7, <2>4, ChangedFacts, AttachAssumption
    <3>. QED  BY <3>1 DEF RegistryInv, GenInv
  <2>5. GenInv'
    BY <1>1, <2>2, <2>4 DEF RegistryInv, GenInv
  <2>. QED  BY <1>2, <1>4, <1>5, <2>1, <2>3, <2>5 DEF RegistryInv
<1>. QED  BY <1>3, <1>6, <1>7

\* The first half of a revocation, of a change or of the shutdown.
LEMMA SlotRevokedFacts ==
    ASSUME TypeOK, RegistryInv, entry # NONE, gen' = SlotRevoked,
           entry' = [entry EXCEPT !.slot = NONE], UNCHANGED conn
    PROVE  /\ gen' \in [Conns -> {"none", "running", "revoked"}]
           /\ \A c \in Conns : gen'[c] # "running"
           /\ entry' \in Entry /\ entry' # NONE /\ entry'.slot = NONE
           /\ ClaimInv' /\ GenInv' /\ RunningIsCurrent'
<1>1. entry \in Entry
  BY DEF TypeOK
<1>2. /\ entry' \in Entry /\ entry'.slot = NONE /\ entry'.live = entry.live
      /\ entry'.tok = entry.tok /\ entry'.man = entry.man
  BY <1>1 DEF Entry
<1>3. entry' # NONE
  BY <1>2, AttachAssumption
<1>4. \A c \in Conns : gen'[c] # "running"
  BY DEF SlotRevoked, RegistryInv, RunningIsCurrent
<1>5. gen' \in [Conns -> {"none", "running", "revoked"}]
  BY DEF SlotRevoked, TypeOK
<1>6. ClaimInv'
  BY <1>2 DEF RegistryInv, ClaimInv
<1>7. GenInv' /\ RunningIsCurrent'
  BY <1>2, <1>4 DEF RegistryInv, GenInv, RunningIsCurrent
<1>. QED  BY <1>2, <1>3, <1>4, <1>5, <1>6, <1>7

LEMMA OnChangeRevokeRegistry ==
    ASSUME TypeOK, RegistryInv, OnChangeRevoke
    PROVE  RegTypes' /\ RegistryInv'
<1>1. /\ gen' \in [Conns -> {"none", "running", "revoked"}]
      /\ entry' \in Entry /\ entry' # NONE /\ entry'.slot = NONE
      /\ ClaimInv' /\ GenInv' /\ RunningIsCurrent'
  BY SlotRevokedFacts DEF OnChangeRevoke
<1>2. RegTypes'
  BY <1>1 DEF OnChangeRevoke, RegTypes, TypeOK
<1>3. RelaxInv' /\ RelaxAgreed' /\ StopInv' /\ TokInv'
  BY DEF OnChangeRevoke, RegistryInv, RelaxInv, RelaxAgreed, StopInv, TokInv
<1>4. LockInv'
  BY <1>1 DEF OnChangeRevoke, LockInv, MustRevoke
<1>. QED  BY <1>1, <1>2, <1>3, <1>4 DEF RegistryInv

LEMMA OnChangeCloseRegistry ==
    ASSUME TypeOK, RegistryInv, OnChangeClose
    PROVE  RegTypes' /\ RegistryInv'
<1>1. /\ change # NONE /\ entry # NONE /\ entry.slot = NONE /\ ~closed
      /\ Return /\ lock' = NONE /\ entry' = Changed
      /\ UNCHANGED <<disk, closed, gen, conn, daemon, minted, agreed, crashes>>
  BY DEF OnChangeClose, RegistryInv, LockInv
<1>2. TokInv' /\ told' \subseteq 1..minted' /\ change' = NONE
  BY <1>1, ReturnFacts
<1>3. RegTypes'
  BY <1>1, <1>2, ChangedFacts DEF RegTypes, TypeOK
<1>4. RelaxInv' /\ RelaxAgreed' /\ StopInv' /\ LockInv'
  BY <1>1, AttachAssumption DEF RegistryInv, RelaxInv, RelaxAgreed, StopInv, LockInv
<1>5. ClaimInv'
  BY <1>1, ChangedClaims
<1>6. \A c \in Conns : gen'[c] # "running"
  BY <1>1, NothingRuns
<1>7. ASSUME NEW c \in Conns, entry' # NONE, entry'.live = c
      PROVE  conn[c].pc \in {"serving", "ended"}
  <2>1. entry.live = c
    BY <1>1, <1>7, ChangedFacts, AttachAssumption
  <2>. QED  BY <1>1, <2>1 DEF RegistryInv, GenInv
<1>8. GenInv' /\ RunningIsCurrent'
  BY <1>1, <1>6, <1>7 DEF GenInv, RunningIsCurrent
<1>. QED  BY <1>2, <1>3, <1>4, <1>5, <1>8 DEF RegistryInv

LEMMA BeginRevokeAllRegistry ==
    ASSUME TypeOK, RegistryInv, BeginRevokeAll, UNCHANGED bootOthers,
           daemon' \in [boot : {"hydrated", "filled", "up"}, stop : BOOLEAN, checked : BOOLEAN],
           daemon'.checked => daemon'.stop
    PROVE  RegTypes' /\ RegistryInv'
<1>1. /\ lock = NONE /\ closed' = TRUE
      /\ UNCHANGED <<disk, change, conn, minted, told, agreed, crashes>>
  BY DEF BeginRevokeAll, Unlocked, bootOthers
<1>2. RelaxInv' /\ RelaxAgreed' /\ TokInv' /\ StopInv'
  BY <1>1 DEF RegistryInv, RelaxInv, RelaxAgreed, TokInv, StopInv
<1>3. CASE entry = NONE
  <2>1. UNCHANGED <<entry, gen, lock>>
    BY <1>3 DEF BeginRevokeAll
  <2>2. \A c \in Conns : gen[c] # "running"
    BY <1>3, NothingRuns
  <2>3. RegTypes'
    BY <1>1, <2>1 DEF RegTypes, TypeOK
  <2>4. LockInv' /\ ClaimInv' /\ GenInv' /\ RunningIsCurrent'
    BY <1>1, <1>3, <2>1, <2>2, AttachAssumption
    DEF LockInv, ClaimInv, GenInv, RunningIsCurrent
  <2>. QED  BY <1>2, <2>3, <2>4 DEF RegistryInv
<1>4. CASE entry # NONE
  <2>1. /\ gen' = SlotRevoked /\ entry' = [entry EXCEPT !.slot = NONE] /\ lock' = "shutdown"
    BY <1>4 DEF BeginRevokeAll
  <2>2. /\ gen' \in [Conns -> {"none", "running", "revoked"}]
        /\ entry' \in Entry /\ entry' # NONE /\ entry'.slot = NONE
        /\ ClaimInv' /\ GenInv' /\ RunningIsCurrent'
    BY <1>1, <1>4, <2>1, SlotRevokedFacts
  <2>3. RegTypes'
    BY <1>1, <2>1, <2>2 DEF RegTypes, TypeOK
  <2>4. LockInv'
    BY <2>1, <2>2 DEF LockInv
  <2>. QED  BY <1>2, <2>2, <2>3, <2>4 DEF RegistryInv
<1>. QED  BY <1>3, <1>4

LEMMA FinishRevokeAllRegistry ==
    ASSUME TypeOK, RegistryInv, FinishRevokeAll
    PROVE  RegTypes' /\ RegistryInv'
<1>1. /\ entry.slot = NONE /\ entry' = NONE /\ lock' = NONE
      /\ UNCHANGED <<disk, change, closed, gen, conn, daemon, minted, told, agreed, crashes>>
  BY DEF FinishRevokeAll, RegistryInv, LockInv
<1>2. \A c \in Conns : gen[c] # "running"
  BY <1>1, NothingRuns
<1>3. RegTypes'
  BY <1>1 DEF RegTypes, TypeOK
<1>4. RelaxInv' /\ RelaxAgreed' /\ TokInv' /\ StopInv'
  BY <1>1 DEF RegistryInv, RelaxInv, RelaxAgreed, TokInv, StopInv
<1>5. LockInv' /\ ClaimInv' /\ GenInv' /\ RunningIsCurrent'
  BY <1>1, <1>2, AttachAssumption DEF LockInv, ClaimInv, GenInv, RunningIsCurrent
<1>. QED  BY <1>3, <1>4, <1>5 DEF RegistryInv

LEMMA DaemonRegistry ==
    ASSUME TypeOK, RegistryInv, Fill \/ Recheck \/ StopRequested \/ StopCheck
    PROVE  RegTypes' /\ RegistryInv'
<1>1. /\ daemon \in [boot : {"hydrated", "filled", "up"}, stop : BOOLEAN, checked : BOOLEAN]
      /\ StopInv
  BY DEF TypeOK, RegistryInv
<1>2. /\ daemon' \in [boot : {"hydrated", "filled", "up"}, stop : BOOLEAN, checked : BOOLEAN]
      /\ daemon'.checked => daemon'.stop
  BY <1>1 DEF Fill, Recheck, StopRequested, StopCheck, StopInv
<1>3. CASE BeginRevokeAll /\ UNCHANGED bootOthers
  BY <1>2, <1>3, BeginRevokeAllRegistry
<1>4. CASE UNCHANGED <<regVars, gen, conn, crashes>> /\ StopInv'
  <2>1. RegTypes'
    BY <1>2, <1>4 DEF RegTypes, TypeOK, regVars
  <2>. QED  BY <1>4, <2>1
            DEF RegistryInv, RelaxInv, RelaxAgreed, TokInv, LockInv, ClaimInv, GenInv,
                RunningIsCurrent, MustRevoke, regVars
<1>5. \/ BeginRevokeAll /\ UNCHANGED bootOthers
      \/ UNCHANGED <<regVars, gen, conn, crashes>> /\ StopInv'
  <2>1. CASE Fill
    BY <1>1, <2>1 DEF Fill, StopInv, regVars
  <2>2. CASE Recheck
    BY <1>1, <2>2 DEF Recheck, StopInv, bootOthers, regVars
  <2>3. CASE StopRequested
    BY <1>1, <2>3 DEF StopRequested, StopInv, regVars
  <2>4. CASE StopCheck
    BY <1>1, <2>4 DEF StopCheck, StopInv, bootOthers, regVars
  <2>. QED  BY <2>1, <2>2, <2>3, <2>4
<1>. QED  BY <1>3, <1>4, <1>5

LEMMA NoteRegistry ==
    ASSUME TypeOK, RegistryInv, NEW c \in Conns, Note(c)
    PROVE  RegTypes' /\ RegistryInv'
<1>1. /\ lock = NONE
      /\ UNCHANGED <<disk, change, closed, lock, minted, told, agreed, gen, daemon, crashes>>
      /\ Refused(c, "version_mismatch")
  BY DEF Note, ConnStep, Unlocked
<1>2. /\ conn' \in [Conns -> Handshakes] /\ \A d \in Conns \ {c} : conn'[d] = conn[d]
      /\ conn'[c].tok = conn[c].tok /\ conn'[c].man = conn[c].man
  BY <1>1, ConnMoves DEF Refusals
<1>3. conn[c].pc = "noting" /\ conn'[c].pc = "refused" /\ conn[c].tok \in 0..MaxTok
  BY <1>1 DEF Note, ConnStep, Refused, TypeOK, Handshakes
<1>4. /\ entry' \in Entry \cup {NONE} /\ (entry' = NONE <=> entry = NONE)
      /\ entry # NONE =>
            /\ entry'.tok = entry.tok /\ entry'.man = entry.man /\ entry'.disabled = entry.disabled
            /\ entry'.slot = entry.slot /\ entry'.last = entry.last /\ entry'.live = entry.live
  <2>1. CASE UNCHANGED entry
    BY <2>1 DEF TypeOK
  <2>2. CASE entry # NONE /\ entry' = [entry EXCEPT !.mismatch = conn[c].tok]
    <3>1. entry \in Entry
      BY <2>2 DEF TypeOK
    <3>. QED  BY <1>3, <2>2, <3>1, AttachAssumption DEF Entry
  <2>. QED  BY <2>1, <2>2 DEF Note
<1>5. RegTypes'
  BY <1>1, <1>2, <1>4 DEF RegTypes, TypeOK
<1>6. RelaxInv' /\ RelaxAgreed' /\ StopInv' /\ LockInv'
  BY <1>1, AttachAssumption DEF RegistryInv, RelaxInv, RelaxAgreed, StopInv, LockInv
<1>7. TokInv' /\ ClaimInv'
  BY <1>1, <1>2, <1>3, <1>4 DEF RegistryInv, TokInv, ClaimInv
<1>8. GenInv' /\ RunningIsCurrent'
  BY <1>1, <1>2, <1>3, <1>4 DEF RegistryInv, GenInv, RunningIsCurrent
<1>. QED  BY <1>5, <1>6, <1>7, <1>8 DEF RegistryInv

LEMMA CommitRegistry ==
    ASSUME TypeOK, RegistryInv, NEW c \in Conns, Commit(c)
    PROVE  RegTypes' /\ RegistryInv'
<1>1. /\ lock = NONE /\ conn[c].pc = "claimed"
      /\ UNCHANGED <<disk, change, closed, lock, minted, told, agreed, daemon, crashes>>
  BY DEF Commit, ConnStep, Unlocked
<1>2. RelaxInv' /\ RelaxAgreed' /\ StopInv' /\ LockInv'
  BY <1>1, AttachAssumption DEF RegistryInv, RelaxInv, RelaxAgreed, StopInv, LockInv
<1>3. (\E a \in ConnAnswers : Answer(c, a)) \/ To(c, "committed")
  <2>1. {"closed", "auth_failed", "forbidden", "busy"} \subseteq ConnAnswers
    BY DEF ConnAnswers, Refusals
  <2>. QED  BY <2>1 DEF Commit, Installed
<1>4. /\ conn' \in [Conns -> Handshakes] /\ \A d \in Conns \ {c} : conn'[d] = conn[d]
      /\ conn'[c].tok = conn[c].tok /\ conn'[c].man = conn[c].man
  BY <1>3, ConnMoves
<1>5. conn'[c].pc \in {"committed", "done"}
  BY <1>3 DEF Answer, To, TypeOK, Handshakes
<1>6. gen[c] # "running" /\ \A d \in Conns : entry # NONE /\ entry.live = d => d # c
  BY <1>1 DEF RegistryInv, GenInv
<1>7. TokInv'
  BY <1>1, <1>4 DEF RegistryInv, TokInv
<1>8. CASE UNCHANGED <<entry, gen>>
  <2>1. RegTypes'
    BY <1>1, <1>4, <1>8 DEF RegTypes, TypeOK
  <2>2. ClaimInv' /\ GenInv' /\ RunningIsCurrent'
    BY <1>1, <1>4, <1>5, <1>6, <1>8 DEF RegistryInv, ClaimInv, GenInv, RunningIsCurrent
  <2>. QED  BY <1>2, <1>7, <2>1, <2>2 DEF RegistryInv
<1>9. CASE UNCHANGED gen /\ entry # NONE /\ entry' = [entry EXCEPT !.mismatch = 0]
  <2>1. entry \in Entry /\ MaxTok \in Nat
    BY <1>9, AttachAssumption DEF TypeOK
  <2>2. /\ entry' \in Entry
        /\ entry'.tok = entry.tok /\ entry'.man = entry.man /\ entry'.disabled = entry.disabled
        /\ entry'.slot = entry.slot /\ entry'.last = entry.last /\ entry'.live = entry.live
    BY <1>9, <2>1 DEF Entry
  <2>3. entry' # NONE
    BY <2>2, AttachAssumption
  <2>4. RegTypes'
    BY <1>1, <1>4, <1>9, <2>2 DEF RegTypes, TypeOK
  <2>5. ClaimInv' /\ GenInv' /\ RunningIsCurrent'
    BY <1>1, <1>4, <1>5, <1>6, <1>9, <2>2, <2>3
    DEF RegistryInv, ClaimInv, GenInv, RunningIsCurrent
  <2>. QED  BY <1>2, <1>7, <2>4, <2>5 DEF RegistryInv
<1>10. CASE /\ ~closed /\ entry # NONE /\ entry.tok = conn[c].tok /\ ~entry.disabled
            /\ entry.slot = NONE /\ Installed(c)
  <2>1. entry \in Entry /\ MaxTok \in Nat
    BY <1>10, AttachAssumption DEF TypeOK
  <2>2. /\ entry' \in Entry
        /\ entry'.tok = entry.tok /\ entry'.man = entry.man /\ entry'.disabled = entry.disabled
        /\ entry'.slot = c /\ entry'.last = c /\ entry'.live = entry.live
    <3>1. entry' = [entry EXCEPT !.slot = c, !.last = c, !.mismatch = 0]
      BY <1>10 DEF Installed
    <3>2. entry' = [man |-> entry.man, tok |-> entry.tok, disabled |-> entry.disabled,
                    slot |-> c, last |-> c, live |-> entry.live, mismatch |-> 0]
      BY <2>1, <3>1 DEF Entry
    <3>3. 0 \in 0..MaxTok
      BY <2>1
    <3>. QED  BY <2>1, <3>2, <3>3 DEF Entry
  <2>3. entry' # NONE /\ entry.man = conn[c].man
    BY <1>1, <1>10, <2>2, AttachAssumption DEF RegistryInv, ClaimInv
  <2>4. /\ gen' \in [Conns -> {"none", "running", "revoked"}]
        /\ \A d \in Conns \ {c} : gen'[d] # "running"
    BY <1>10, NothingRuns DEF Installed, TypeOK
  <2>5. conn'[c].pc = "committed"
    BY <1>10 DEF Installed, To, TypeOK, Handshakes
  <2>6. RegTypes'
    BY <1>1, <1>4, <2>2, <2>4 DEF RegTypes, TypeOK
  <2>7. ClaimInv' /\ GenInv' /\ RunningIsCurrent'
    BY <1>1, <1>4, <1>6, <1>10, <2>2, <2>3, <2>4, <2>5
    DEF RegistryInv, ClaimInv, GenInv, RunningIsCurrent
  <2>. QED  BY <1>2, <1>7, <2>6, <2>7 DEF RegistryInv
<1>. QED  BY <1>8, <1>9, <1>10 DEF Commit

LEMMA AttachRegistry ==
    ASSUME TypeOK, RegistryInv, NEW c \in Conns, Attach(c)
    PROVE  RegTypes' /\ RegistryInv'
<1>1. /\ lock = NONE /\ conn[c].pc = "committed"
      /\ UNCHANGED <<disk, change, closed, lock, minted, told, agreed, gen, daemon, crashes>>
      /\ conn' = [conn EXCEPT ![c].pc = "serving", ![c].ans = "success"]
      /\ entry' = IF entry # NONE /\ entry.last = c THEN [entry EXCEPT !.live = c] ELSE entry
  BY DEF Attach, ConnStep, Unlocked
<1>. DEFINE h == [conn[c] EXCEPT !.pc = "serving", !.ans = "success"]
<1>2. conn \in [Conns -> Handshakes] /\ conn[c] \in Handshakes
  BY DEF TypeOK
<1>3. /\ h \in Handshakes /\ h.pc = "serving" /\ h.tok = conn[c].tok /\ h.man = conn[c].man
      /\ conn' = [conn EXCEPT ![c] = h]
  BY <1>1, <1>2 DEF Handshakes, ConnAnswers
<1>. HIDE DEF h
<1>4. /\ conn' \in [Conns -> Handshakes] /\ \A d \in Conns \ {c} : conn'[d] = conn[d]
      /\ conn'[c].tok = conn[c].tok /\ conn'[c].man = conn[c].man /\ conn'[c].pc = "serving"
  BY <1>2, <1>3
<1>5. /\ entry' \in Entry \cup {NONE} /\ (entry' = NONE <=> entry = NONE)
      /\ entry # NONE =>
            /\ entry'.tok = entry.tok /\ entry'.man = entry.man /\ entry'.disabled = entry.disabled
            /\ entry'.slot = entry.slot /\ entry'.last = entry.last
            /\ entry'.live = IF entry.last = c THEN c ELSE entry.live
  <2>1. CASE entry # NONE /\ entry.last = c
    <3>1. entry \in Entry /\ entry' = [entry EXCEPT !.live = c]
      BY <1>1, <2>1 DEF TypeOK
    <3>. QED  BY <2>1, <3>1, AttachAssumption DEF Entry
  <2>2. CASE ~(entry # NONE /\ entry.last = c)
    BY <1>1, <2>2 DEF TypeOK
  <2>. QED  BY <2>1, <2>2
<1>6. RegTypes'
  BY <1>1, <1>4, <1>5 DEF RegTypes, TypeOK
<1>7. RelaxInv' /\ RelaxAgreed' /\ StopInv' /\ LockInv'
  BY <1>1, AttachAssumption DEF RegistryInv, RelaxInv, RelaxAgreed, StopInv, LockInv
<1>8. TokInv' /\ ClaimInv' /\ RunningIsCurrent'
  BY <1>1, <1>4, <1>5 DEF RegistryInv, TokInv, ClaimInv, RunningIsCurrent
<1>9. GenInv'
  BY <1>1, <1>4, <1>5 DEF RegistryInv, GenInv, RunningIsCurrent
<1>. QED  BY <1>6, <1>7, <1>8, <1>9 DEF RegistryInv

LEMMA ReleaseRegistry ==
    ASSUME TypeOK, RegistryInv, NEW c \in Conns, Release(c)
    PROVE  RegTypes' /\ RegistryInv'
<1>1. /\ lock = NONE /\ conn[c].pc = "ended" /\ To(c, "done")
      /\ UNCHANGED <<disk, change, closed, lock, minted, told, agreed, daemon, crashes>>
  BY DEF Release, ConnStep, Unlocked
<1>2. /\ conn' \in [Conns -> Handshakes] /\ \A d \in Conns \ {c} : conn'[d] = conn[d]
      /\ conn'[c].tok = conn[c].tok /\ conn'[c].man = conn[c].man
  BY <1>1, ConnMoves
<1>3. conn'[c].pc = "done"
  BY <1>1 DEF To, TypeOK, Handshakes
<1>4. RelaxInv' /\ RelaxAgreed' /\ StopInv' /\ LockInv' /\ TokInv'
  BY <1>1, <1>2, AttachAssumption
  DEF RegistryInv, RelaxInv, RelaxAgreed, StopInv, LockInv, TokInv
<1>5. CASE entry = NONE
  <2>1. UNCHANGED <<gen, entry>> /\ \A d \in Conns : gen[d] # "running"
    BY <1>5, NothingRuns DEF Release
  <2>2. RegTypes'
    BY <1>1, <1>2, <2>1 DEF RegTypes, TypeOK
  <2>3. ClaimInv' /\ GenInv' /\ RunningIsCurrent'
    BY <1>5, <2>1 DEF ClaimInv, GenInv, RunningIsCurrent
  <2>. QED  BY <1>4, <2>2, <2>3 DEF RegistryInv
<1>6. CASE entry # NONE
  <2>1. /\ entry \in Entry /\ gen' = [gen EXCEPT ![c] = "revoked"]
        /\ entry' = [entry EXCEPT !.slot = IF @ = c THEN NONE ELSE @,
                                  !.live = IF @ = c THEN NONE ELSE @]
    BY <1>6 DEF Release, TypeOK
  <2>2. /\ entry' \in Entry
        /\ entry'.tok = entry.tok /\ entry'.man = entry.man /\ entry'.disabled = entry.disabled
        /\ entry'.last = entry.last
        /\ entry'.slot = (IF entry.slot = c THEN NONE ELSE entry.slot)
        /\ entry'.live = (IF entry.live = c THEN NONE ELSE entry.live)
    BY <2>1 DEF Entry
  <2>3. entry' # NONE
    BY <2>2, AttachAssumption
  <2>4. /\ gen' \in [Conns -> {"none", "running", "revoked"}]
        /\ gen'[c] = "revoked" /\ \A d \in Conns \ {c} : gen'[d] = gen[d]
    BY <2>1 DEF TypeOK
  <2>5. RegTypes'
    BY <1>1, <1>2, <2>2, <2>4 DEF RegTypes, TypeOK
  <2>6. ClaimInv' /\ RunningIsCurrent'
    BY <1>1, <1>2, <1>3, <1>6, <2>2, <2>3, <2>4
    DEF RegistryInv, ClaimInv, RunningIsCurrent
  <2>7. GenInv'
    BY <1>1, <1>2, <1>3, <1>6, <2>2, <2>3, <2>4, AttachAssumption
    DEF RegistryInv, GenInv
  <2>. QED  BY <1>4, <2>5, <2>6, <2>7 DEF RegistryInv
<1>. QED  BY <1>5, <1>6

LEMMA CrashRegistry ==
    ASSUME TypeOK, RegistryInv, Crash
    PROVE  RegTypes' /\ RegistryInv'
<1>1. ASSUME NEW c \in Conns
      PROVE  /\ conn'[c] \in Handshakes /\ conn'[c].tok = conn[c].tok
             /\ conn'[c].pc \in {"new", "done"} /\ gen'[c] \in {"none", "revoked"}
  <2>1. /\ conn[c] \in Handshakes
        /\ conn'[c] = IF conn[c].pc = "new" THEN conn[c] ELSE [conn[c] EXCEPT !.pc = "done"]
        /\ gen'[c] = IF gen[c] = "none" THEN "none" ELSE "revoked"
    BY DEF Crash, TypeOK
  <2>. QED  BY <2>1 DEF Handshakes
<1>2. conn' \in [Conns -> Handshakes] /\ gen' \in [Conns -> {"none", "running", "revoked"}]
  BY <1>1 DEF Crash
<1>3. entry' \in Entry \cup {NONE} /\ (entry' # NONE => entry'.live = NONE)
  <2>1. CASE disk.rec = NONE
    BY <2>1 DEF Crash, Hydrated
  <2>2. CASE disk.rec # NONE
    <3>1. disk.rec \in Record /\ MaxTok \in Nat
      BY <2>2, AttachAssumption DEF TypeOK
    <3>2. entry' = [man |-> disk.rec.man, tok |-> disk.rec.tok, disabled |-> disk.rec.disabled,
                    slot |-> NONE, last |-> NONE, live |-> NONE, mismatch |-> 0]
      BY <2>2 DEF Crash, Hydrated
    <3>. QED  BY <3>1, <3>2 DEF Entry, Record
  <2>. QED  BY <2>1, <2>2
<1>4. /\ change' = NONE /\ closed' = FALSE /\ lock' = NONE /\ crashes' = crashes + 1
      /\ daemon' = [boot |-> "hydrated", stop |-> FALSE, checked |-> FALSE]
      /\ UNCHANGED <<disk, minted, told, agreed>>
  BY DEF Crash
<1>5. RegTypes'
  <2>1. daemon' \in [boot : {"hydrated", "filled", "up"}, stop : BOOLEAN, checked : BOOLEAN]
    BY <1>4
  <2>2. minted' \in 0..MaxTok /\ told' \subseteq 1..minted' /\ crashes' \in Nat
    BY <1>4 DEF TypeOK
  <2>3. /\ disk' \in [rec : Record \cup {NONE}, tomb : Manifests \cup {NONE}]
        /\ agreed' \in [known : BOOLEAN, facts : SUBSET UNION {Facts[m] : m \in Manifests}]
    BY <1>4 DEF TypeOK
  <2>. QED  BY <1>2, <1>3, <1>4, <2>1, <2>2, <2>3 DEF RegTypes
<1>6. RelaxInv' /\ RelaxAgreed' /\ StopInv' /\ LockInv' /\ TokInv'
  BY <1>1, <1>4, AttachAssumption
  DEF RegistryInv, RelaxInv, RelaxAgreed, StopInv, LockInv, TokInv
<1>7. ClaimInv' /\ GenInv' /\ RunningIsCurrent'
  BY <1>1, <1>3, AttachAssumption DEF ClaimInv, GenInv, RunningIsCurrent
<1>. QED  BY <1>5, <1>6, <1>7 DEF RegistryInv

-----------------------------------------------------------------------------
(* The invariant, and what it says of the runs' properties.                  *)

LEMMA InitInv == Init => Inv
<1>. SUFFICES ASSUME Init PROVE Inv
  OBVIOUS
<1>1. RegTypes
  <2>1. NewConn \in Handshakes
    <3>1. "none" \in ConnAnswers /\ 0 \in 0..MaxTok
      BY AttachAssumption DEF ConnAnswers
    <3>. QED  BY <3>1 DEF NewConn, Handshakes
  <2>2. minted \in 0..MaxTok /\ told \subseteq 1..minted /\ crashes \in Nat
    BY AttachAssumption DEF Init
  <2>3. /\ disk \in [rec : Record \cup {NONE}, tomb : Manifests \cup {NONE}]
        /\ agreed \in [known : BOOLEAN, facts : SUBSET UNION {Facts[m] : m \in Manifests}]
    BY DEF Init
  <2>. QED  BY <2>1, <2>2, <2>3 DEF Init, RegTypes
<1>2. CallTypes
  <2>1. <<>> \in Seq(Frames) /\ Len(<<>>) = 0
    OBVIOUS
  <2>. QED  BY <2>1, AttachAssumption DEF Init, CallTypes, NewWire, Wires, NewCmd, Commands
<1>3. RegistryInv
  BY AttachAssumption
  DEF Init, RegistryInv, RelaxInv, RelaxAgreed, TokInv, LockInv, ClaimInv, GenInv,
      RunningIsCurrent, StopInv, NewConn
<1>4. WireInv
  BY DEF Init, WireInv, Carried, NewWire
<1>5. ResultInv
  BY DEF Init, ResultInv, NewCmd
<1>6. SlotInv /\ SlotsBounded
  <2>1. \A c \in Conns : Holders(c) = {}
    BY DEF Init, Holders, Holds, NewCmd
  <2>2. \A k \in Cmds : ~Holds(k)
    BY DEF Init, Holds, NewCmd
  <2>3. Cardinality({}) = 0 /\ 0 <= MaxCalls
    BY FS_EmptySet, AttachAssumption
  <2>4. \A c \in Conns : inFlight[c] = 0
    BY DEF Init
  <2>. QED  BY <2>1, <2>2, <2>3, <2>4 DEF SlotInv, SlotsBounded
<1>. QED  BY <1>1, <1>2, <1>3, <1>4, <1>5, <1>6, AllTypes DEF Inv, CallInv

LEMMA StepInv == Inv /\ [Next]_vars => Inv'
<1>. SUFFICES ASSUME Inv, [Next]_vars PROVE Inv'
  OBVIOUS
<1>. USE DEF Inv
<1>1. GenInv /\ CallInv /\ TypeOK /\ RegistryInv
  BY DEF RegistryInv
<1>2. ASSUME UNCHANGED <<wire, cmdVars>>, RegTypes', RegistryInv',
             \A c \in Conns : Attached(c) => Attached(c)'
      PROVE  Inv'
  <2>1. CallTypes' /\ Moves
    BY <1>2, QuietCalls
  <2>2. TypeOK'
    BY <1>2, <2>1 DEF RegTypes, CallTypes, TypeOK
  <2>. QED  BY <1>2, <2>1, <2>2, CallStep
<1>3. ASSUME RegTypes', RegistryInv', CallTypes', Moves PROVE Inv'
  <2>1. TypeOK'
    BY <1>3 DEF RegTypes, CallTypes, TypeOK
  <2>. QED  BY <1>3, <2>1, CallStep
<1>4. ASSUME UNCHANGED <<wire, cmdVars, conn>>, RegTypes', RegistryInv' PROVE Inv'
  BY <1>2, <1>4 DEF Attached
<1>5. ASSUME NEW m \in Manifests, NEW a \in BOOLEAN, Register(m, a) PROVE Inv'
  BY <1>4, <1>5, RegisterRegistry DEF Register
<1>6. ASSUME RevokeRecord \/ \E d \in BOOLEAN : SetDisabled(d) PROVE Inv'
  BY <1>4, <1>6, RecordRegistry DEF RevokeRecord, SetDisabled
<1>7. CASE OnChangeIdle
  BY <1>4, <1>7, OnChangeIdleRegistry DEF OnChangeIdle
<1>8. CASE OnChangeRevoke
  BY <1>4, <1>8, OnChangeRevokeRegistry DEF OnChangeRevoke
<1>9. CASE OnChangeClose
  <2>1. entry.live \in Conns \cup {NONE}
    BY <1>9 DEF OnChangeClose, RegistryInv, LockInv, TypeOK, Entry
  <2>2. CallTypes' /\ Moves
    BY <1>9, <2>1, CloseCalls DEF OnChangeClose
  <2>. QED  BY <1>3, <1>9, <2>2, OnChangeCloseRegistry
<1>10. CASE FinishRevokeAll
  <2>1. entry.live \in Conns \cup {NONE}
    BY <1>10 DEF FinishRevokeAll, RegistryInv, LockInv, TypeOK, Entry
  <2>2. CallTypes' /\ Moves
    BY <1>10, <2>1, CloseCalls DEF FinishRevokeAll
  <2>. QED  BY <1>3, <1>10, <2>2, FinishRevokeAllRegistry
<1>11. CASE Fill \/ Recheck \/ StopRequested \/ StopCheck
  <2>1. UNCHANGED <<wire, cmdVars, conn>>
    BY <1>11 DEF Fill, Recheck, StopRequested, StopCheck, bootOthers
  <2>. QED  BY <1>4, <1>11, <2>1, DaemonRegistry
<1>12. CASE Crash
  BY <1>3, <1>12, CrashRegistry, CrashCalls
<1>13. ASSUME NEW c \in Conns, Connect(c) \/ Handshake(c) PROVE Inv'
  <2>0. conn \in [Conns -> Handshakes]
    BY DEF TypeOK
  <2>1. CASE Attach(c)
    BY <1>1, <1>3, <2>1, AttachRegistry, AttachCalls
  <2>2. CASE Connect(c)
    <3>1. \A d \in Conns : Attached(d) => Attached(d)'
      BY <2>0, <2>2 DEF Connect, Attached
    <3>. QED  BY <1>2, <2>2, <3>1, ConnectRegistry DEF Connect
  <2>3. CASE CheckClosed(c) \/ Lookup(c) \/ Refuse(c) \/ Note(c) \/ Commit(c)
    <3>1. UNCHANGED <<wire, cmdVars>>
      BY <2>3 DEF CheckClosed, Lookup, Refuse, Note, Commit, ConnStep, cmdVars
    <3>2. ~Attached(c) /\ \A d \in Conns \ {c} : conn'[d] = conn[d]
      BY <2>0, <2>3 DEF CheckClosed, Lookup, Refuse, Note, Commit, ConnStep, Attached,
                        To, Answer, Refused, Installed
    <3>3. \A d \in Conns : Attached(d) => Attached(d)'
      BY <3>2 DEF Attached
    <3>. QED  BY <1>2, <2>3, <3>1, <3>3, HandshakeRegistry, NoteRegistry, CommitRegistry
  <2>. QED  BY <1>13, <2>1, <2>2, <2>3 DEF Handshake
<1>14. ASSUME NEW c \in Conns, Write(c) PROVE Inv'
  <2>1. UNCHANGED cmdOthers
    BY <1>14 DEF Write, cmdOthers
  <2>. QED  BY <1>3, <1>14, <2>1, RequestRegistry, WriteCalls
<1>15. ASSUME NEW c \in Conns, PeerLost(c) \/ EndServe(c) PROVE Inv'
  BY <1>3, <1>15, TornRegistry, TornCalls DEF PeerLost, EndServe
<1>16. ASSUME NEW c \in Conns, Release(c) PROVE Inv'
  <2>1. UNCHANGED <<wire, cmdVars>>
    BY <1>16 DEF Release, ConnStep, cmdVars
  <2>2. \A d \in Conns : Attached(d) => Attached(d)'
    BY <1>16 DEF Release, To, Attached, TypeOK, Handshakes
  <2>. QED  BY <1>2, <1>16, <2>1, <2>2, ReleaseRegistry
<1>17. ASSUME NEW k \in Cmds, Declared(k) \/ Reserve(k) \/ Call(k) \/ ModuleAnswers(k) \/ Gone(k)
       PROVE  Inv'
  <2>1. UNCHANGED cmdOthers
    BY <1>17 DEF Declared, Reserve, Call, Send, Finish, TimeoutFires, SendCancel,
                 ModuleAnswers, Gone
  <2>2. CallTypes' /\ Moves
    BY <1>1, <1>17, DeclaredCalls, ReserveCalls, SendCalls, WaitingCalls, SendCancelCalls,
       ModuleAnswersCalls, GoneCalls DEF Call
  <2>. QED  BY <1>3, <2>1, <2>2, RequestRegistry
<1>18. CASE UNCHANGED vars
  <2>1. UNCHANGED <<wire, cmdVars, conn>> /\ UNCHANGED cmdOthers
    BY <1>18 DEF vars, cmdOthers
  <2>. QED  BY <1>4, <2>1, RequestRegistry
<1>. QED  BY <1>5, <1>6, <1>7, <1>8, <1>9, <1>10, <1>11, <1>12, <1>13, <1>14, <1>15, <1>16,
             <1>17, <1>18
          DEF Next, Change, Applied, Shutdown, Teardown

\* What register, the handshakes, the commands and the shutdown leave is always
\* consistent (attached.rs, attach_registry.rs, attach_listener.rs, attach_mux.rs).
THEOREM AttachInvariant == Spec => []Inv
BY InitInv, StepInv, PTL DEF Spec

\* Every variable keeps its type: no slot count goes below zero, no token is told
\* before it is minted.
THEOREM AttachTypeCorrect == Spec => []TypeOK
BY AttachInvariant, PTL DEF Inv

\* No rotation, deletion, disable or shutdown leaves a generation running on an
\* entry that is not its own any more (attach_registry.rs, commit and on_change).
THEOREM NothingStaleRuns == Spec => []RunningIsCurrent
<1>1. Inv => RunningIsCurrent
  BY DEF Inv, RegistryInv
<1>. QED  BY <1>1, AttachInvariant, PTL

\* No registration, with a revocation or a restart before it, gives a name more
\* than the host agreed to (attached.rs, is_relax).
THEOREM NothingRelaxedUnasked == Spec => []RelaxAgreed
<1>1. Inv => RelaxAgreed
  BY DEF Inv, RegistryInv
<1>. QED  BY <1>1, AttachInvariant, PTL

\* A module that has read its success frame, and was not revoked, is the one
\* commands are sent to (attach_registry.rs, attach_kernel_calls).
THEOREM ToldIsReady == Spec => []ToldMeansReady
<1>1. Inv => ToldMeansReady
  <2>. SUFFICES ASSUME Inv, NEW c \in Conns, gen[c] = "running", Success \in wire[c].got
                PROVE  entry.live = c
    BY DEF ToldMeansReady
  <2>1. Carried(c, Success) /\ Success \in Frames
    BY DEF Carried, Frames
  <2>2. Attached(c)
    BY <2>1 DEF Inv, CallInv, WireInv
  <2>. QED  BY <2>2 DEF Inv, RegistryInv, GenInv, Attached
<1>. QED  BY <1>1, AttachInvariant, PTL

\* What a client is told of its command is what became of its frame
\* (attach_commands.rs, post_command; attach_mux.rs, KernelCalls::call).
THEOREM CommandAnswersHonest == Spec => []AnswerHonest
<1>1. Inv => AnswerHonest
  <2>. SUFFICES ASSUME Inv, NEW k \in Cmds, NEW c \in Conns
                PROVE  /\ cmd[k].ans \in NoFrameSent => ~Carried(c, Req(k))
                       /\ cmd[k].ans = "ok" /\ cmd[k].conn = c => Req(k) \in wire[c].got
    BY DEF AnswerHonest
  <2>1. Req(k) \in Frames
    BY FrameFacts
  <2>2. cmd[k].ans \in NoFrameSent => ~Carried(c, Req(k))
    BY <2>1 DEF Inv, CallInv, WireInv
  <2>3. cmd[k].ans = "ok" /\ cmd[k].conn = c => Req(k) \in wire[c].got
    BY DEF Inv, CallInv, ResultInv
  <2>. QED  BY <2>2, <2>3
<1>. QED  BY <1>1, AttachInvariant, PTL

\* The fill of the registry's cell and the stopping task's look at it cannot
\* miss each other (server.rs, fill_attach_registry_and_recheck).
THEOREM StopIsSeen == Spec => []StopCloses
<1>1. Inv => StopCloses
  BY NothingRuns DEF Inv, RegistryInv, StopInv, StopCloses
<1>. QED  BY <1>1, AttachInvariant, PTL

\* No module has more commands in flight than MAX_KERNEL_CALLS_IN_FLIGHT, and
\* every slot taken is counted once until it is given back (attach_mux.rs).
THEOREM CommandsBounded == Spec => [](SlotInv /\ SlotsBounded)
<1>1. Inv => SlotInv /\ SlotsBounded
  BY DEF Inv, CallInv
<1>. QED  BY <1>1, AttachInvariant, PTL

=============================================================================
