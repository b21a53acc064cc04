------------------------- MODULE ModuleProxy_proofs -------------------------
(***************************************************************************)
(* A proxied request and its connection, for any number of requests,       *)
(* connections and generations.                                            *)
(*                                                                         *)
(* The invariant says, for each step of forward, where the proxy call is   *)
(* and how often the module may have seen the request (Known), whose       *)
(* connection a request uses (Linked), and what a connection that waits in *)
(* the pool still owes (ConnKnown).                                        *)
(***************************************************************************)
EXTENDS ModuleProxy, WellFoundedInduction, TLAPS

-----------------------------------------------------------------------------
(* The types, by name.                                                     *)

GenType == [kind : Kinds, state : States, inFlight : SUBSET Reqs, dispatched : SUBSET Reqs,
            used : SUBSET Reqs]
ReqType == [pc : {"new", "got", "flying", "sent", "done"}, gen : Gens \cup {NoGen},
            ans : Answers, listed : {"no", "abandoned", "never_sent"},
            result : {"none", "ok", "error"}, left : BOOLEAN]
PxType == [at : Steps, conn : Conns \cup {NoConn}, try : 1..2, res : Results]
ConnType == [st : {"none", "open", "closed"}, gen : Gens \cup {NoGen}, idle : BOOLEAN,
             pooled : BOOLEAN, driver : {"racing", "finishing"}]

Typed ==
    /\ gen \in [Gens -> GenType] /\ slot \in Gens /\ req \in [Reqs -> ReqType]
    /\ px \in [Reqs -> PxType] /\ conn \in [Conns -> ConnType]
    /\ permits \subseteq Reqs \cup Others /\ seen \in [Reqs -> Seq(Gens)]

-----------------------------------------------------------------------------
(* Where forward is.                                                       *)

\* Before the dispatch, and from the dispatch on.
Waiting == {"permit", "body", "dispatch"}
Sending == {"take", "reused", "connect", "guard", "fresh", "again", "read", "mark", "check",
            "push"}
\* With a connection of its own.
OnConn == {"reused", "guard", "fresh", "read", "mark", "check", "push"}
\* After the module answered.
Answered == {"read", "mark", "check", "push"}

-----------------------------------------------------------------------------
(* What forward x, the proxy call q and the deliveries n say of each other *)
(* (b: the request is safe to repeat).                                     *)

CallKnown(x, q) ==
    /\ x.at = "none" => q.pc \in {"new", "got", "done"} /\ q.result = "none" /\ x.res = "none"
    /\ x.at \in Waiting => q.pc = "flying"
    /\ x.at \in Sending => q.pc = "sent"
    /\ x.at \in Waiting \cup Sending => q.result = "none" /\ x.res = "none"
    /\ x.at = "over" => q.pc \in {"flying", "sent", "done"}
    /\ x.at = "over" /\ q.pc # "done" =>
          /\ q.result # "none" /\ (q.result = "ok" <=> x.res = "ok")
          /\ x.res = "ok" => q.pc = "sent"
    /\ q.pc = "new" <=> q.gen = NoGen
    /\ q.pc # "done" => q.ans = "none"
    /\ q.pc = "sent" => q.left
    /\ x.conn # NoConn <=> x.at \in OnConn

Received(q, n, b) ==
    /\ Len(n) <= 2 /\ (Len(n) > 1 => b)
    /\ \A i \in 1..Len(n) : n[i] = q.gen
    /\ n # <<>> => q.left

SeenKnown(x, q, n, b) ==
    /\ Received(q, n, b)
    /\ x.at = "none" \/ q.pc = "flying" => n = <<>>
    /\ x.at \in {"none", "permit", "body", "dispatch", "take", "reused", "again"} => x.try = 1
    /\ x.at = "guard" => x.try = 2
    /\ x.try = 2 => b
    /\ x.at \in {"take", "reused", "connect", "fresh"} /\ x.try = 1 => n = <<>>
    /\ x.at \in {"connect", "guard", "fresh", "again"} => Len(n) <= 1
    /\ x.at \in Answered => n # <<>>
    /\ x.res \in {"overloaded", "client_body", "unreached"} => n = <<>>
    /\ x.res = "ok" => n # <<>>
    /\ q.ans \in {"not_ready", "draining", "stopping"} => n = <<>>
    /\ q.ans = "ok" => n # <<>>

Known(x, q, n, b) == CallKnown(x, q) /\ SeenKnown(x, q, n, b)

\* A connection k, whose generation may be revoked (v).
ConnKnown(k, v) ==
    /\ k.st # "none" => k.gen \in Gens
    /\ k.pooled => k.st # "none" /\ k.idle /\ k.driver = "racing"
    /\ k.st # "none" /\ k.driver = "finishing" => v

\* The connection k of a request whose forward is x, in a call of generation g.
Linked(x, g, k) ==
    /\ k.st # "none" /\ ~k.pooled /\ k.gen = g
    /\ x.at \in {"check", "push"} => k.idle
    /\ x.at = "push" => k.driver = "racing"

-----------------------------------------------------------------------------
(* The inductive invariant.                                                *)

IsRevoked(g) == gen[g].state = "revoked"

RequestInv ==
    \A r \in Reqs :
        /\ Known(px[r], req[r], seen[r], r \in Safe)
        /\ req[r].pc = "sent" => r \in gen[req[r].gen].dispatched

ConnInv ==
    /\ \A c \in Conns : ConnKnown(conn[c], IsRevoked(conn[c].gen))
    /\ \A r \in Reqs : px[r].conn # NoConn => Linked(px[r], req[r].gen, conn[px[r].conn])
    /\ \A r, s \in Reqs : px[r].conn # NoConn /\ px[r].conn = px[s].conn => r = s

Inv ==
    /\ Typed
    /\ RequestInv
    /\ ConnInv

-----------------------------------------------------------------------------
(* What a step of the owner or of a proxy call leaves of the generations.  *)

\* The generation's lock: what revoke, ready and begin_drain leave of the others.
LEMMA RevokeFacts ==
    ASSUME GTypeOK, NEW g \in Gens, Revoke(g), UNCHANGED slot
    PROVE  /\ GTypeOK'
           /\ \A h \in Gens : /\ gen'[h].kind = gen[h].kind
                              /\ gen'[h].state = IF h = g THEN "revoked" ELSE gen[h].state
<1>. DEFINE G == [kind : Kinds, state : States, inFlight : SUBSET Reqs,
                  dispatched : SUBSET Reqs, used : SUBSET Reqs]
            R == [pc : {"new", "got", "flying", "sent", "done"},
                  gen : Gens \cup {NoGen}, ans : Answers,
                  listed : {"no", "abandoned", "never_sent"},
                  result : {"none", "ok", "error"}, left : BOOLEAN]
            d == [gen[g] EXCEPT !.state = "revoked"]
<1>1. gen \in [Gens -> G] /\ req \in [Reqs -> R] /\ slot \in Gens
  BY DEF GTypeOK
<1>2. d \in G /\ d.kind = gen[g].kind /\ d.state = "revoked"
  BY <1>1 DEF States
<1>3. gen' = [gen EXCEPT ![g] = d]
  BY DEF Revoke, RevokedIn
<1>4. req' \in [Reqs -> R]
  <2>1. ASSUME NEW r \in Reqs PROVE Listed(g)[r] \in R
    <3>1. req[r] \in R
      BY <1>1
    <3>2. [req[r] EXCEPT !.listed = "abandoned"] \in R
          /\ [req[r] EXCEPT !.listed = "never_sent"] \in R
      BY <3>1
    <3>. HIDE DEF R
    <3>. QED  BY <3>1, <3>2 DEF Listed
  <2>2. Listed(g) = [r \in Reqs |-> Listed(g)[r]]
    BY DEF Listed
  <2>. HIDE DEF R
  <2>3. Listed(g) \in [Reqs -> R]
    BY <2>1, <2>2
  <2>. QED  BY <2>3 DEF Revoke
<1>. HIDE DEF d
<1>5. gen' \in [Gens -> G]
  BY <1>1, <1>2, <1>3
<1>6. GTypeOK'
  BY <1>1, <1>4, <1>5 DEF GTypeOK
<1>. QED  BY <1>1, <1>2, <1>3, <1>6

LEMMA RestateFacts ==
    ASSUME GTypeOK, NEW g \in Gens, NEW st \in States, gen' = [gen EXCEPT ![g].state = st],
           UNCHANGED <<slot, req>>
    PROVE  /\ GTypeOK'
           /\ \A h \in Gens : /\ gen'[h].kind = gen[h].kind
                              /\ gen'[h].state = IF h = g THEN st ELSE gen[h].state
<1>. DEFINE G == [kind : Kinds, state : States, inFlight : SUBSET Reqs,
                  dispatched : SUBSET Reqs, used : SUBSET Reqs]
            d == [gen[g] EXCEPT !.state = st]
<1>1. gen \in [Gens -> G]
  BY DEF GTypeOK
<1>2. d \in G /\ d.kind = gen[g].kind /\ d.state = st
  BY <1>1
<1>3. gen' = [gen EXCEPT ![g] = d]
  OBVIOUS
<1>. HIDE DEF d
<1>4. gen' \in [Gens -> G]
  BY <1>1, <1>2, <1>3
<1>. QED  BY <1>1, <1>2, <1>3, <1>4 DEF GTypeOK

LEMMA FreshFacts ==
    ASSUME GTypeOK, NEW g \in Gens, NEW k \in Kinds,
           gen' = [gen EXCEPT ![g] = Generation(k)], UNCHANGED req, slot' \in Gens
    PROVE  /\ GTypeOK'
           /\ gen'[g].kind = k /\ gen'[g].state = "starting"
           /\ \A h \in Gens \ {g} : gen'[h] = gen[h]
<1>. DEFINE G == [kind : Kinds, state : States, inFlight : SUBSET Reqs,
                  dispatched : SUBSET Reqs, used : SUBSET Reqs]
<1>1. gen \in [Gens -> G]
  BY DEF GTypeOK
<1>2. Generation(k) \in G /\ Generation(k).kind = k /\ Generation(k).state = "starting"
  BY DEF Generation, States
<1>3. gen' \in [Gens -> G]
  BY <1>1, <1>2
<1>. QED  BY <1>1, <1>2, <1>3 DEF GTypeOK

\* The proxy: whatever a request does, a generation keeps its kind and its state.
LEMMA ProxyFacts ==
    ASSUME GTypeOK, ProxyStep
    PROVE  /\ GTypeOK' /\ UNCHANGED slot
           /\ \A h \in Gens : gen'[h].kind = gen[h].kind /\ gen'[h].state = gen[h].state
<1>. DEFINE G == [kind : Kinds, state : States, inFlight : SUBSET Reqs,
                  dispatched : SUBSET Reqs, used : SUBSET Reqs]
            R == [pc : {"new", "got", "flying", "sent", "done"},
                  gen : Gens \cup {NoGen}, ans : Answers,
                  listed : {"no", "abandoned", "never_sent"},
                  result : {"none", "ok", "error"}, left : BOOLEAN]
            GenKept == /\ gen' \in [Gens -> G]
                       /\ \A h \in Gens : /\ gen'[h].kind = gen[h].kind
                                          /\ gen'[h].state = gen[h].state
            ReqKept == req' \in [Reqs -> R]
<1>1. gen \in [Gens -> G] /\ req \in [Reqs -> R] /\ slot \in Gens
  BY DEF GTypeOK
<1>2. PICK r \in Reqs :
        \/ ProxyGet(r) \/ ProxyRefused(r) \/ ProxyAdmit(r) \/ ProxyDispatch(r)
        \/ ProxyResult(r) \/ ProxyFinish(r) \/ ProxyDrop(r) \/ ApprovalCallback(r)
  BY DEF ProxyStep
<1>. DEFINE g == req[r].gen
<1>3. req[r] \in R /\ \A q \in R : [req EXCEPT ![r] = q] \in [Reqs -> R]
  BY <1>1
\* Every change of a generation is a change of its sets.
<1>4. ASSUME NEW a, NEW b, NEW u,
             g \in Gens => a \in SUBSET Reqs /\ b \in SUBSET Reqs /\ u \in SUBSET Reqs,
             gen' = [gen EXCEPT ![g] = [gen[g] EXCEPT !.inFlight = a, !.dispatched = b,
                                                       !.used = u]]
      PROVE  GenKept
  <2>. DEFINE d == [gen[g] EXCEPT !.inFlight = a, !.dispatched = b, !.used = u]
  <2>1. ASSUME g \in Gens PROVE d \in G /\ d.kind = gen[g].kind /\ d.state = gen[g].state
    <3>1. gen[g] \in G
      BY <1>1, <2>1
    <3>2. a \in SUBSET Reqs /\ b \in SUBSET Reqs /\ u \in SUBSET Reqs
      BY <1>4, <2>1
    <3>3. d.kind = gen[g].kind /\ d.state = gen[g].state
      BY <3>1
    <3>. HIDE DEF g
    <3>4. d \in G
      BY <3>1, <3>2
    <3>. QED  BY <3>3, <3>4
  <2>2. gen' = [gen EXCEPT ![g] = d]
    BY <1>4
  <2>. HIDE DEF d
  <2>. QED  BY <1>1, <2>1, <2>2
<1>5. g \in Gens => /\ gen[g] \in G /\ gen[g].inFlight \in SUBSET Reqs
                    /\ gen[g].dispatched \in SUBSET Reqs /\ gen[g].used \in SUBSET Reqs
  BY <1>1
<1>6. UNCHANGED gen => GenKept
  BY <1>1
<1>7. UNCHANGED req => ReqKept
  BY <1>1
<1>. SUFFICES GenKept /\ ReqKept /\ UNCHANGED slot
  BY <1>1 DEF GTypeOK
<1>8. CASE ProxyGet(r)
  <2>. DEFINE q == [req[r] EXCEPT !.pc = "got", !.gen = slot]
  <2>1. q \in R
    BY <1>1, <1>3
  <2>2. req' = [req EXCEPT ![r] = q]
    BY <1>1, <1>8 DEF ProxyGet
  <2>3. ReqKept
    BY <1>3, <2>1, <2>2
  <2>. HIDE DEF q, R, G
  <2>. QED  BY <1>6, <1>8, <2>3 DEF ProxyGet
<1>9. CASE ProxyRefused(r)
  <2>. DEFINE q == [req[r] EXCEPT !.pc = "done", !.ans = Refusal(g)]
  <2>1. q \in R
    BY <1>3 DEF Answers, Refusal
  <2>2. req' = [req EXCEPT ![r] = q]
    BY <1>1, <1>9 DEF ProxyRefused
  <2>3. ReqKept
    BY <1>3, <2>1, <2>2
  <2>. HIDE DEF q, R, G
  <2>. QED  BY <1>6, <1>9, <2>3 DEF ProxyRefused
<1>10. CASE ProxyResult(r)
  <2>1. PICK v \in {"ok", "error"} : req' = [req EXCEPT ![r].result = v]
    BY <1>10 DEF ProxyResult
  <2>. DEFINE q == [req[r] EXCEPT !.result = v]
  <2>2. q \in R
    BY <1>3
  <2>3. req' = [req EXCEPT ![r] = q]
    BY <2>1
  <2>4. ReqKept
    BY <1>3, <2>2, <2>3
  <2>. HIDE DEF q, R, G
  <2>. QED  BY <1>6, <1>10, <2>4 DEF ProxyResult
<1>11. CASE ProxyAdmit(r)
  <2>. DEFINE q == [req[r] EXCEPT !.pc = "flying"]
              a == gen[g].inFlight \cup {r}
  <2>1. q \in R
    BY <1>3
  <2>2. req' = [req EXCEPT ![r] = q]
    BY <1>1, <1>11 DEF ProxyAdmit
  <2>3. ReqKept
    BY <1>3, <2>1, <2>2
  <2>4. gen' = [gen EXCEPT ![g].inFlight = a]
    BY <1>11 DEF ProxyAdmit
  <2>5. g \in Gens => a \in SUBSET Reqs
    BY <1>5
  <2>. HIDE DEF a
  <2>6. g \in Gens => [gen[g] EXCEPT !.inFlight = a]
                      = [gen[g] EXCEPT !.inFlight = a, !.dispatched = gen[g].dispatched,
                                       !.used = gen[g].used]
    BY <1>5
  <2>7. gen' = [gen EXCEPT ![g] = [gen[g] EXCEPT !.inFlight = a,
                                                 !.dispatched = gen[g].dispatched,
                                                 !.used = gen[g].used]]
    BY <1>1, <2>4, <2>6
  <2>8. GenKept
    BY <1>4, <1>5, <2>5, <2>7
  <2>. HIDE DEF q, R, G
  <2>. QED  BY <1>11, <2>3, <2>8 DEF ProxyAdmit
<1>12. CASE ProxyDispatch(r)
  <2>. DEFINE q == [req[r] EXCEPT !.pc = "sent", !.left = TRUE]
              b == gen[g].dispatched \cup {r}
  <2>1. q \in R
    BY <1>3
  <2>2. req' = [req EXCEPT ![r] = q]
    BY <1>1, <1>12 DEF ProxyDispatch
  <2>3. ReqKept
    BY <1>3, <2>1, <2>2
  <2>4. gen' = [gen EXCEPT ![g].dispatched = b]
    BY <1>12 DEF ProxyDispatch
  <2>5. g \in Gens => b \in SUBSET Reqs
    BY <1>5
  <2>. HIDE DEF b
  <2>6. g \in Gens => [gen[g] EXCEPT !.dispatched = b]
                      = [gen[g] EXCEPT !.inFlight = gen[g].inFlight, !.dispatched = b,
                                       !.used = gen[g].used]
    BY <1>5
  <2>7. gen' = [gen EXCEPT ![g] = [gen[g] EXCEPT !.inFlight = gen[g].inFlight,
                                                 !.dispatched = b,
                                                 !.used = gen[g].used]]
    BY <1>1, <2>4, <2>6
  <2>8. GenKept
    BY <1>4, <1>5, <2>5, <2>7
  <2>. HIDE DEF q, R, G
  <2>. QED  BY <1>12, <2>3, <2>8 DEF ProxyDispatch
<1>13. ASSUME gen' = Removed(r) PROVE GenKept
  <2>. DEFINE a == gen[g].inFlight \ {r}
              b == gen[g].dispatched \ {r}
  <2>1. gen' = [gen EXCEPT ![g].inFlight = a, ![g].dispatched = b]
    BY <1>1, <1>13 DEF Removed
  <2>2. g \in Gens => a \in SUBSET Reqs /\ b \in SUBSET Reqs
    BY <1>5
  <2>. HIDE DEF a, b
  <2>3. g \in Gens => [gen[g] EXCEPT !.inFlight = a, !.dispatched = b]
                      = [gen[g] EXCEPT !.inFlight = a, !.dispatched = b,
                                       !.used = gen[g].used]
    BY <1>5
  <2>4. gen' = [gen EXCEPT ![g] = [gen[g] EXCEPT !.inFlight = a, !.dispatched = b,
                                                 !.used = gen[g].used]]
    BY <1>1, <2>1, <2>3
  <2>. QED  BY <1>4, <1>5, <2>2, <2>4
<1>14. CASE ProxyFinish(r)
  <2>. DEFINE q == [req[r] EXCEPT !.pc = "done", !.ans = Outcome(r, req[r].result)]
  <2>1. q \in R
    BY <1>3 DEF Answers, Outcome
  <2>2. req' = [req EXCEPT ![r] = q]
    BY <1>1, <1>14 DEF ProxyFinish
  <2>3. ReqKept
    BY <1>3, <2>1, <2>2
  <2>. HIDE DEF q, R, G
  <2>. QED  BY <1>13, <1>14, <2>3 DEF ProxyFinish
<1>15. CASE ProxyDrop(r)
  <2>. DEFINE q == [req[r] EXCEPT !.pc = "done"]
  <2>1. q \in R
    BY <1>3
  <2>2. req' = [req EXCEPT ![r] = q]
    BY <1>1, <1>15 DEF ProxyDrop
  <2>3. ReqKept
    BY <1>3, <2>1, <2>2
  <2>. HIDE DEF q, R, G
  <2>. QED  BY <1>13, <1>15, <2>3 DEF ProxyDrop
<1>16. CASE ApprovalCallback(r)
  <2>. DEFINE u == gen[g].used \cup {r}
  <2>1. gen' = [gen EXCEPT ![g].used = u]
    BY <1>16 DEF ApprovalCallback
  <2>2. g \in Gens => u \in SUBSET Reqs
    BY <1>5
  <2>. HIDE DEF u
  <2>3. g \in Gens => [gen[g] EXCEPT !.used = u]
                      = [gen[g] EXCEPT !.inFlight = gen[g].inFlight,
                                       !.dispatched = gen[g].dispatched, !.used = u]
    BY <1>5
  <2>4. gen' = [gen EXCEPT ![g] = [gen[g] EXCEPT !.inFlight = gen[g].inFlight,
                                                 !.dispatched = gen[g].dispatched,
                                                 !.used = u]]
    BY <1>1, <2>1, <2>3
  <2>5. GenKept
    BY <1>4, <1>5, <2>2, <2>4
  <2>. HIDE DEF R, G
  <2>. QED  BY <1>7, <1>16, <2>5 DEF ApprovalCallback
<1>. QED  BY <1>2, <1>8, <1>9, <1>10, <1>11, <1>12, <1>14, <1>15, <1>16

\* The owner: a call keeps all but what a revocation lists, a generation that refers to a
\* call in flight keeps its sets, and one that is revoked starts over or stays revoked.
LEMMA OwnerFacts ==
    ASSUME GTypeOK, OwnerStep
    PROVE  /\ GTypeOK'
           /\ \A r \in Reqs : /\ req'[r].pc = req[r].pc /\ req'[r].gen = req[r].gen
                              /\ req'[r].ans = req[r].ans /\ req'[r].left = req[r].left
                              /\ req'[r].result = req[r].result
           /\ \A r \in Reqs : req[r].pc = "sent" /\ req[r].gen \in Gens =>
                  gen'[req[r].gen].dispatched = gen[req[r].gen].dispatched
           /\ \A h \in Gens : gen[h].state = "revoked" /\ gen'[h].state # "starting" =>
                  gen'[h].state = "revoked"
<1>. DEFINE Calls == \A r \in Reqs : /\ req'[r].pc = req[r].pc /\ req'[r].gen = req[r].gen
                                     /\ req'[r].ans = req[r].ans /\ req'[r].left = req[r].left
                                     /\ req'[r].result = req[r].result
            Sets == \A r \in Reqs : req[r].pc = "sent" /\ req[r].gen \in Gens =>
                        gen'[req[r].gen].dispatched = gen[req[r].gen].dispatched
            Over == \A h \in Gens : gen[h].state = "revoked" /\ gen'[h].state # "starting" =>
                        gen'[h].state = "revoked"
<1>1. PICK g \in Gens :
        \/ OwnerInstallsPlaceholder(g) \/ OwnerSpawns(g) \/ OwnerInstalls(g)
        \/ OwnerReadies(g) \/ OwnerDrains(g) \/ OwnerRevokes(g)
  BY DEF OwnerStep
<1>2. gen \in [Gens -> GenType] /\ req \in [Reqs -> ReqType] /\ slot \in Gens
  BY DEF GTypeOK, GenType, ReqType
<1>3. ASSUME NEW k \in Kinds, Free(g), gen' = [gen EXCEPT ![g] = Generation(k)],
             UNCHANGED req, slot' \in Gens
      PROVE  GTypeOK' /\ Calls /\ Sets /\ Over
  <2>1. GTypeOK' /\ gen'[g].state = "starting" /\ \A h \in Gens \ {g} : gen'[h] = gen[h]
    BY <1>3, FreshFacts
  <2>2. \A r \in Reqs : req[r].pc = "sent" => req[r].gen # g
    BY <1>3 DEF Free
  <2>. QED  BY <1>3, <2>1, <2>2
<1>4. CASE OwnerInstallsPlaceholder(g)
  BY <1>3, <1>4 DEF OwnerInstallsPlaceholder, Kinds
<1>5. CASE OwnerSpawns(g)
  BY <1>2, <1>3, <1>5 DEF OwnerSpawns, Kinds
<1>6. CASE OwnerInstalls(g)
  BY <1>2, <1>6 DEF OwnerInstalls, GTypeOK
<1>7. ASSUME NEW st \in States, gen[g].state # "revoked",
             gen' = [gen EXCEPT ![g].state = st], UNCHANGED <<slot, req>>
      PROVE  GTypeOK' /\ Calls /\ Sets /\ Over
  <2>1. GTypeOK' /\ \A h \in Gens : gen'[h].state = IF h = g THEN st ELSE gen[h].state
    BY <1>7, RestateFacts
  <2>2. Sets
    BY <1>2, <1>7 DEF GenType
  <2>. QED  BY <1>7, <2>1, <2>2
<1>8. CASE OwnerReadies(g)
  BY <1>7, <1>8 DEF OwnerReadies, CanReady, Readied, States
<1>9. CASE OwnerDrains(g)
  BY <1>7, <1>9 DEF OwnerDrains, CanDrain, Drained, States
<1>10. CASE OwnerRevokes(g)
  <2>1. Revoke(g) /\ UNCHANGED slot
    BY <1>10 DEF OwnerRevokes
  <2>2. GTypeOK' /\ \A h \in Gens : gen'[h].state = IF h = g THEN "revoked" ELSE gen[h].state
    BY <2>1, RevokeFacts
  <2>3. Sets
    BY <1>2, <2>1 DEF GenType, Revoke, RevokedIn
  <2>4. Calls
    <3>1. ASSUME NEW r \in Reqs
          PROVE  LET q == Listed(g)[r]
                 IN  /\ q.pc = req[r].pc /\ q.gen = req[r].gen /\ q.ans = req[r].ans
                     /\ q.left = req[r].left /\ q.result = req[r].result
      <4>1. req[r] \in ReqType
        BY <1>2
      <4>. QED  BY <4>1 DEF Listed, ReqType
    <3>. QED  BY <2>1, <3>1 DEF Revoke
  <2>. QED  BY <2>2, <2>3, <2>4
<1>. QED  BY <1>1, <1>4, <1>5, <1>6, <1>8, <1>9, <1>10

-----------------------------------------------------------------------------
(* One step of a request, and one of a connection.                         *)

\* What the invariant says of the generations' module.
LEMMA InvTypes == ASSUME Inv PROVE GTypeOK /\ Typed
BY DEF Inv, Typed, GTypeOK, GenType, ReqType

\* Forward r became x, its call q and the deliveries n.
Wrote(r, x, q, n) ==
    /\ px' = [px EXCEPT ![r] = x] /\ req' = [req EXCEPT ![r] = q]
    /\ seen' = [seen EXCEPT ![r] = n]

\* A generation's set loses no dispatched request, and call q of r is in it if it was sent.
GensKept(r, q) ==
    /\ GTypeOK' /\ \A h \in Gens : gen'[h].state = gen[h].state
    /\ \A s \in Reqs \ {r} : req[s].pc = "sent" => s \in gen'[req[s].gen].dispatched
    /\ q.pc = "sent" => r \in gen'[q.gen].dispatched

\* A connection changes only if it was r's own, pooled or free; what it has is its own.
ConnsKept(r, x, g) ==
    /\ conn' \in [Conns -> ConnType]
    /\ \A c \in Conns :
          /\ ConnKnown(conn'[c], IsRevoked(conn'[c].gen))
          /\ \/ conn'[c] = conn[c] \/ c = x.conn \/ c = px[r].conn
             \/ conn[c].pooled \/ conn[c].st = "none"
    /\ x.conn # NoConn =>
          /\ Linked(x, g, conn'[x.conn])
          /\ \A s \in Reqs \ {r} : px[s].conn # x.conn

\* A step of request r: its forward becomes x, its call q and what was delivered of it n. The
\* other requests keep their connections, for only r's own and pooled or free ones change.
LEMMA ForwardKeeps ==
    ASSUME Inv, NEW r \in Reqs, NEW x \in PxType, NEW q, NEW n \in Seq(Gens),
           Wrote(r, x, q, n), GensKept(r, q), ConnsKept(r, x, q.gen),
           Known(x, q, n, r \in Safe), permits' \subseteq Reqs \cup Others
    PROVE  Inv'
<1>1. Typed
  BY InvTypes
<1>2. /\ px'[r] = x /\ req'[r] = q /\ seen'[r] = n
      /\ \A s \in Reqs \ {r} : px'[s] = px[s] /\ req'[s] = req[s] /\ seen'[s] = seen[s]
  BY <1>1 DEF Typed, Wrote
<1>3. Typed'
  <2>1. px' \in [Reqs -> PxType] /\ seen' \in [Reqs -> Seq(Gens)]
    BY <1>1 DEF Typed, Wrote
  <2>. QED  BY <2>1 DEF Typed, GTypeOK, GenType, ReqType, GensKept, ConnsKept
<1>4. RequestInv'
  <2>1. ASSUME NEW s \in Reqs
        PROVE  /\ Known(px'[s], req'[s], seen'[s], s \in Safe)
               /\ req'[s].pc = "sent" => s \in gen'[req'[s].gen].dispatched
    <3>1. CASE s = r
      BY <1>2, <3>1 DEF GensKept
    <3>2. CASE s # r
      BY <1>2, <3>2 DEF Inv, RequestInv, GensKept
    <3>. QED  BY <3>1, <3>2
  <2>. QED  BY <2>1 DEF RequestInv
<1>5. ASSUME NEW c \in Conns PROVE ConnKnown(conn'[c], gen'[conn'[c].gen].state = "revoked")
  <2>1. ConnKnown(conn'[c], IsRevoked(conn'[c].gen))
    BY DEF ConnsKept
  <2>. QED  BY <2>1 DEF ConnKnown, IsRevoked, GensKept
<1>6. ASSUME NEW s \in Reqs, px'[s].conn # NoConn
      PROVE  Linked(px'[s], req'[s].gen, conn'[px'[s].conn])
  <2>1. CASE s = r
    BY <1>2, <1>6, <2>1 DEF ConnsKept
  <2>2. CASE s # r
    <3>. DEFINE c == px[s].conn
    <3>1. c # NoConn /\ px'[s] = px[s] /\ req'[s] = req[s]
      BY <1>2, <1>6, <2>2
    <3>2. c \in Conns
      BY <1>1, <3>1 DEF Typed, PxType
    <3>3. Linked(px[s], req[s].gen, conn[c])
      BY <3>1 DEF Inv, ConnInv
    <3>4. c # px[r].conn /\ c # x.conn
      BY <2>2, <3>1 DEF Inv, ConnInv, ConnsKept
    <3>5. conn'[c] = conn[c]
      BY <3>2, <3>3, <3>4 DEF Linked, ConnsKept
    <3>. QED  BY <3>1, <3>3, <3>5
  <2>. QED  BY <2>1, <2>2
<1>7. ASSUME NEW s \in Reqs, NEW t \in Reqs, px'[s].conn # NoConn, px'[s].conn = px'[t].conn
      PROVE  s = t
  BY <1>2, <1>7 DEF Inv, ConnInv, ConnsKept
<1>8. ConnInv'
  BY <1>5, <1>6, <1>7 DEF ConnInv, IsRevoked
<1>. QED  BY <1>3, <1>4, <1>8 DEF Inv

\* A step of forward that leaves the call and the generations alone.
LEMMA MoveKeeps ==
    ASSUME Inv, NEW r \in Reqs, NEW x \in PxType, NEW n \in Seq(Gens),
           px' = [px EXCEPT ![r] = x], seen' = [seen EXCEPT ![r] = n], UNCHANGED gvars,
           ConnsKept(r, x, req[r].gen), Known(x, req[r], n, r \in Safe),
           permits' \subseteq Reqs \cup Others
    PROVE  Inv'
<1>1. GTypeOK /\ Typed
  BY InvTypes
<1>2. GTypeOK' /\ gen' = gen /\ req' = req
  BY <1>1 DEF GTypeOK, gvars
<1>3. Wrote(r, x, req[r], n)
  BY <1>1, <1>2 DEF Typed, Wrote
<1>4. GensKept(r, req[r])
  BY <1>2 DEF Inv, RequestInv, GensKept
<1>. QED  BY <1>3, <1>4, ForwardKeeps

\* A step of connection c, which leaves it what its request or the pool relies on.
LEMMA ConnKeeps ==
    ASSUME Inv, NEW c \in Conns, NEW k \in ConnType, conn' = [conn EXCEPT ![c] = k],
           UNCHANGED <<gvars, px, permits, seen>>,
           ConnKnown(k, IsRevoked(k.gen)),
           \A r \in Reqs : Linked(px[r], req[r].gen, conn[c]) => Linked(px[r], req[r].gen, k)
    PROVE  Inv'
<1>1. Typed /\ gen' = gen /\ req' = req /\ slot' = slot
  BY InvTypes DEF gvars
<1>2. Typed'
  BY <1>1 DEF Typed
<1>3. RequestInv'
  BY <1>1 DEF Inv, RequestInv
<1>4. \A d \in Conns : conn'[d] = IF d = c THEN k ELSE conn[d]
  BY <1>1 DEF Typed
<1>5. \A r \in Reqs : px[r].conn # NoConn => px[r].conn \in Conns
  BY <1>1 DEF Typed, PxType
<1>6. ConnInv'
  <2>1. \A d \in Conns : ConnKnown(conn'[d], gen'[conn'[d].gen].state = "revoked")
    BY <1>1, <1>4 DEF Inv, ConnInv, IsRevoked
  <2>2. \A r \in Reqs : px'[r].conn # NoConn =>
            Linked(px'[r], req'[r].gen, conn'[px'[r].conn])
    BY <1>1, <1>4, <1>5 DEF Inv, ConnInv
  <2>. QED  BY <2>1, <2>2 DEF Inv, ConnInv, IsRevoked
<1>. QED  BY <1>2, <1>3, <1>6 DEF Inv

\* What is delivered goes to the request's own run, and twice only if that is safe.
LEMMA DeliverFacts ==
    ASSUME Inv, NEW r \in Reqs, px[r].at \in {"reused", "fresh"}
    PROVE  LET n == Append(seen[r], conn[px[r].conn].gen)
           IN  /\ n \in Seq(Gens) /\ n # <<>> /\ Received(req[r], n, r \in Safe)
               /\ px[r].try = 1 => Len(n) <= 1
               /\ req[r].left /\ req[r].pc = "sent"
<1>. DEFINE c == px[r].conn
            s == seen[r]
            g == req[r].gen
            n == Append(s, conn[c].gen)
<1>1. Typed
  BY InvTypes
<1>2. CallKnown(px[r], req[r]) /\ SeenKnown(px[r], req[r], s, r \in Safe)
  BY DEF Inv, RequestInv, Known
<1>3. req[r].pc = "sent" /\ req[r].left /\ c # NoConn
  BY <1>2 DEF CallKnown, Sending, OnConn
<1>4. c \in Conns
  BY <1>1, <1>3 DEF Typed, PxType
<1>5. conn[c].gen = g /\ conn[c].st # "none"
  BY <1>3 DEF Inv, ConnInv, Linked
<1>6. g \in Gens
  BY <1>4, <1>5 DEF Inv, ConnInv, ConnKnown
<1>7. s \in Seq(Gens) /\ px[r].try \in 1..2
  BY <1>1 DEF Typed, PxType
<1>8. n = Append(s, g)
  BY <1>5
<1>. HIDE DEF n, s, g
<1>9. n \in Seq(Gens) /\ n # <<>> /\ Len(n) = Len(s) + 1
      /\ \A i \in 1..Len(n) : n[i] = IF i <= Len(s) THEN s[i] ELSE g
  BY <1>6, <1>7, <1>8
<1>10. Len(s) <= 1 /\ (px[r].try = 1 => s = <<>>) /\ (px[r].try = 2 => r \in Safe)
       /\ \A i \in 1..Len(s) : s[i] = g
  BY <1>2 DEF SeenKnown, Received, s, g
<1>11. Len(s) \in Nat /\ (s = <<>> => Len(s) = 0)
  BY <1>7
<1>12. \A i \in 1..Len(n) : n[i] = g
  BY <1>9, <1>10, <1>11
<1>13. Len(n) > 1 => r \in Safe
  BY <1>7, <1>9, <1>10, <1>11
<1>14. Len(n) <= 2 /\ (px[r].try = 1 => Len(n) <= 1)
  BY <1>9, <1>10, <1>11
<1>15. Received(req[r], n, r \in Safe)
  BY <1>3, <1>12, <1>13, <1>14 DEF Received, g
<1>. QED  BY <1>3, <1>9, <1>14, <1>15 DEF n, s

-----------------------------------------------------------------------------
(* The steps of forward.                                                   *)

\* forward is under way: the call is in flight, nothing is answered, and its connection, if
\* it has one, is its own.
LEMMA UnderWay ==
    ASSUME Inv, NEW r \in Reqs
    PROVE  /\ px[r] \in PxType /\ req[r] \in ReqType /\ seen[r] \in Seq(Gens)
           /\ CallKnown(px[r], req[r]) /\ SeenKnown(px[r], req[r], seen[r], r \in Safe)
           /\ req[r].pc = "sent" => r \in gen[req[r].gen].dispatched
           /\ seen = [seen EXCEPT ![r] = seen[r]]
           /\ req[r].pc # "new" => req[r].gen \in Gens
           /\ px[r].at \in OnConn =>
                 /\ px[r].conn \in Conns
                 /\ Linked(px[r], req[r].gen, conn[px[r].conn])
                 /\ \A s \in Reqs \ {r} : px[s].conn # px[r].conn
           /\ px[r].at \notin OnConn => px[r].conn = NoConn
<1>1. Typed
  BY InvTypes
<1>2. px[r] \in PxType /\ req[r] \in ReqType /\ seen[r] \in Seq(Gens)
      /\ seen = [seen EXCEPT ![r] = seen[r]]
  BY <1>1 DEF Typed
<1>3. CallKnown(px[r], req[r]) /\ SeenKnown(px[r], req[r], seen[r], r \in Safe)
      /\ (req[r].pc = "sent" => r \in gen[req[r].gen].dispatched)
  BY DEF Inv, RequestInv, Known
<1>4. (req[r].pc # "new" => req[r].gen # NoGen) /\ (px[r].conn # NoConn <=> px[r].at \in OnConn)
  BY <1>3 DEF CallKnown
<1>5. req[r].pc # "new" => req[r].gen \in Gens
  BY <1>2, <1>4 DEF ReqType
<1>6. px[r].at \in OnConn =>
                 /\ px[r].conn \in Conns
                 /\ Linked(px[r], req[r].gen, conn[px[r].conn])
                 /\ \A s \in Reqs \ {r} : px[s].conn # px[r].conn
  BY <1>2, <1>4 DEF PxType, Inv, ConnInv
<1>. QED  BY <1>2, <1>3, <1>4, <1>5, <1>6

\* The connections, when some of them are closed and the others left alone.
LEMMA ClosedKept ==
    ASSUME Inv, NEW r \in Reqs, NEW x, NEW g, x.conn = NoConn,
           conn' \in [Conns -> ConnType],
           \A c \in Conns :
              \/ conn'[c] = conn[c]
              \/ conn'[c] = Closed /\ (c = px[r].conn \/ conn[c].pooled)
    PROVE  ConnsKept(r, x, g)
<1>1. \A c \in Conns : ConnKnown(conn[c], IsRevoked(conn[c].gen))
  BY DEF Inv, ConnInv
<1>2. ASSUME NEW v PROVE ConnKnown(Closed, v)
  BY DEF ConnKnown, Closed
<1>3. \A c \in Conns : ConnKnown(conn'[c], IsRevoked(conn'[c].gen))
  BY <1>1, <1>2
<1>. QED  BY <1>3 DEF ConnsKept

\* A step of forward that keeps its connection and touches none.
LEMMA OwnConnKept ==
    ASSUME Inv, NEW r \in Reqs, NEW x, x.conn = px[r].conn, UNCHANGED conn,
           px[r].at \in OnConn => Linked(x, req[r].gen, conn[px[r].conn])
    PROVE  ConnsKept(r, x, req[r].gen)
<1>1. \A c \in Conns : ConnKnown(conn[c], IsRevoked(conn[c].gen))
  BY DEF Inv, ConnInv
<1>2. Typed
  BY InvTypes
<1>. QED  BY <1>1, <1>2, UnderWay DEF ConnsKept, Typed

\* A forward that has returned.
LEMMA OverFacts ==
    ASSUME NEW res \in Results
    PROVE  LET x == [Idle EXCEPT !.at = "over", !.res = res]
           IN  x \in PxType /\ x.at = "over" /\ x.res = res /\ x.conn = NoConn /\ x.try = 1
<1>. DEFINE x == [Idle EXCEPT !.at = "over", !.res = res]
            y == [Idle EXCEPT !.at = "over"]
<1>0. y = [at |-> "over", conn |-> NoConn, try |-> 1, res |-> "none"]
  BY DEF Idle
<1>1. x = [at |-> "over", conn |-> NoConn, try |-> 1, res |-> res]
  <2>1. x = [y EXCEPT !.res = res]
    OBVIOUS
  <2>. HIDE DEF x, y
  <2>. QED  BY <1>0, <2>1
<1>2. "over" \in Steps /\ 1 \in 1..2
  BY DEF Steps
<1>. HIDE DEF x
<1>3. x \in PxType
  BY <1>1, <1>2 DEF PxType
<1>. QED  BY <1>1, <1>3 DEF x

LEMMA ClosedType == Closed \in ConnType
BY DEF Closed, ConnType

\* forward returns res, after the module received n.
LEMMA ReturnsKeeps ==
    ASSUME Inv, NEW r \in Reqs, NEW res \in Results \ {"none"}, Returns(r, res),
           NEW n \in Seq(Gens), seen' = [seen EXCEPT ![r] = n],
           px[r].at \in Waiting \cup Sending, Received(req[r], n, r \in Safe),
           px[r].at \in Waiting => n = <<>>,
           res \in {"overloaded", "client_body", "unreached"} => n = <<>>,
           res = "ok" => n # <<>> /\ px[r].at \in Sending
    PROVE  Inv' /\ ProxyResult(r)
<1>. DEFINE x == [Idle EXCEPT !.at = "over", !.res = res]
            v == IF res = "ok" THEN "ok" ELSE "error"
            q == [req[r] EXCEPT !.result = v]
<1>0. Typed /\ GTypeOK
  BY InvTypes
<1>1. px[r] \in PxType /\ req[r] \in ReqType /\ CallKnown(px[r], req[r])
      /\ (req[r].pc = "sent" => r \in gen[req[r].gen].dispatched)
      /\ SeenKnown(px[r], req[r], seen[r], r \in Safe)
  BY UnderWay
<1>2. x \in PxType /\ x.at = "over" /\ x.res = res /\ x.conn = NoConn /\ x.try = 1
  BY OverFacts
<1>3. v \in {"ok", "error"} /\ (v = "ok" <=> res = "ok")
  OBVIOUS
<1>. HIDE DEF v
<1>4. /\ q.pc = req[r].pc /\ q.gen = req[r].gen /\ q.ans = req[r].ans /\ q.left = req[r].left
      /\ q.result = v
  BY <1>1 DEF ReqType
<1>5. req' = [req EXCEPT ![r] = q] /\ px' = [px EXCEPT ![r] = x] /\ gen' = gen /\ slot' = slot
  BY <1>0 DEF Returns, v, Typed
<1>6. /\ px[r].at \in Waiting => req[r].pc = "flying"
      /\ px[r].at \in Sending => req[r].pc = "sent"
      /\ req[r].result = "none" /\ req[r].ans = "none" /\ req[r].gen # NoGen
      /\ px[r].at \notin {"none", "over"}
      /\ req[r].pc = "sent" => req[r].left
  BY <1>1 DEF CallKnown, Waiting, Sending
<1>7. ProxyResult(r)
  <2>1. req' = [req EXCEPT ![r].result = v]
    BY <1>5
  <2>. QED  BY <1>3, <1>5, <1>6, <2>1 DEF ProxyResult, Returns
<1>8. GTypeOK'
  BY <1>0, <1>7, ProxyFacts DEF ProxyStep
<1>. HIDE DEF x, q
<1>9. CallKnown(x, q)
  BY <1>2, <1>3, <1>4, <1>6 DEF CallKnown, Waiting, Sending, OnConn
<1>10. SeenKnown(x, q, n, r \in Safe)
  <2>1. Received(q, n, r \in Safe)
    BY <1>4 DEF Received
  <2>2. q.pc = "flying" => n = <<>>
    BY <1>4, <1>6
  <2>. QED  BY <1>2, <1>4, <1>6, <2>1, <2>2 DEF SeenKnown, Answered
<1>11. GensKept(r, q)
  BY <1>1, <1>4, <1>5, <1>8 DEF GensKept, Inv, RequestInv
<1>12. ConnsKept(r, x, q.gen)
  <2>1. conn' = [c \in Conns |-> IF c = px[r].conn /\ ~conn[c].pooled THEN Closed ELSE conn[c]]
    BY DEF Returns
  <2>2. conn' \in [Conns -> ConnType]
    BY <1>0, <2>1, ClosedType DEF Typed
  <2>. QED  BY <1>2, <2>1, <2>2, ClosedKept
<1>13. permits' \subseteq Reqs \cup Others
  BY <1>0 DEF Returns, Typed
<1>14. Wrote(r, x, q, n)
  BY <1>5 DEF Wrote
<1>15. Known(x, q, n, r \in Safe)
  BY <1>9, <1>10 DEF Known
<1>16. Inv'
  BY <1>2, <1>11, <1>12, <1>13, <1>14, <1>15, ForwardKeeps
<1>. QED  BY <1>7, <1>16

\* What a step is to the generations' module.
Outer == UNCHANGED gvars \/ ProxyStep \/ OwnerStep

\* forward returns where nothing more reached the module, and on a failed send.
LEMMA ReturnsUnseen ==
    ASSUME Inv, NEW r \in Reqs, NEW res \in Results \ {"none"}, Returns(r, res),
           UNCHANGED seen, px[r].at \in Waiting \cup Sending,
           res \in {"overloaded", "client_body", "unreached"} =>
               px[r].at \in Waiting \/ (px[r].at = "connect" /\ px[r].try = 1),
           res = "ok" => px[r].at \in Answered
    PROVE  Inv' /\ Outer
<1>1. /\ CallKnown(px[r], req[r]) /\ SeenKnown(px[r], req[r], seen[r], r \in Safe)
      /\ seen = [seen EXCEPT ![r] = seen[r]] /\ seen[r] \in Seq(Gens)
  BY UnderWay
<1>2. Received(req[r], seen[r], r \in Safe)
  BY <1>1 DEF SeenKnown
<1>3. px[r].at \in Waiting => seen[r] = <<>>
  BY <1>1 DEF SeenKnown, CallKnown, Waiting
<1>4. res \in {"overloaded", "client_body", "unreached"} => seen[r] = <<>>
  BY <1>1, <1>3 DEF SeenKnown
<1>5. res = "ok" => seen[r] # <<>> /\ px[r].at \in Sending
  BY <1>1 DEF SeenKnown, Answered, Sending
<1>6. seen' = [seen EXCEPT ![r] = seen[r]]
  BY <1>1
<1>. QED  BY <1>1, <1>2, <1>3, <1>4, <1>5, <1>6, ReturnsKeeps DEF Outer, ProxyStep

LEMMA ReturnsSent ==
    ASSUME Inv, NEW r \in Reqs, NEW res \in {"maybe_sent", "timeout"}, Returns(r, res),
           Deliver(r), px[r].at \in {"reused", "fresh"}
    PROVE  Inv' /\ Outer
<1>. DEFINE n == Append(seen[r], conn[px[r].conn].gen)
<1>1. n \in Seq(Gens) /\ Received(req[r], n, r \in Safe)
  BY DeliverFacts
<1>2. seen' = [seen EXCEPT ![r] = n]
  BY DEF Deliver
<1>3. px[r].at \in Sending /\ px[r].at \notin Waiting
  BY DEF Sending, Waiting
<1>4. res \in Results \ {"none"}
  BY DEF Results
<1>. HIDE DEF n
<1>. QED  BY <1>1, <1>2, <1>3, <1>4, ReturnsKeeps DEF Outer, ProxyStep

\* The steps on which forward returns.
LEMMA ReturningSteps ==
    ASSUME Inv, NEW r \in Reqs,
           \/ Overloaded(r) \/ DispatchRefused(r) \/ ConnectFails(r) \/ HeadTimeout(r)
           \/ BadAnswer(r)
    PROVE  Inv' /\ Outer
<1>1. CASE Overloaded(r)
  BY <1>1, ReturnsUnseen DEF Overloaded, At, Waiting, Results
<1>2. CASE DispatchRefused(r)
  BY <1>2, ReturnsUnseen DEF DispatchRefused, At, Waiting, Results
<1>3. px[r].try \in 1..2
  BY UnderWay DEF PxType
<1>4. CASE ConnectFails(r)
  <2>1. Failure(r, "unreached") = "maybe_sent"
        \/ (Failure(r, "unreached") = "unreached" /\ px[r].try = 1)
    BY <1>3 DEF Failure
  <2>2. px[r].at = "connect" /\ px[r].at \in Sending
    BY <1>4 DEF ConnectFails, At, Sending
  <2>3. Returns(r, Failure(r, "unreached")) /\ UNCHANGED seen
    BY <1>4 DEF ConnectFails
  <2>. QED  BY <2>1, <2>2, <2>3, ReturnsUnseen DEF Results
<1>5. CASE HeadTimeout(r)
  <2>1. Failure(r, "timeout") \in {"maybe_sent", "timeout"}
    BY DEF Failure
  <2>2. px[r].at \in Sending /\ Returns(r, Failure(r, "timeout"))
    BY <1>5 DEF HeadTimeout, Sending
  <2>3. CASE UNCHANGED seen
    BY <2>1, <2>2, <2>3, ReturnsUnseen DEF Results
  <2>4. CASE px[r].at \in {"reused", "fresh"} /\ Deliver(r)
    BY <2>1, <2>2, <2>4, ReturnsSent
  <2>. QED  BY <1>5, <2>3, <2>4 DEF HeadTimeout
<1>6. CASE BadAnswer(r)
  BY <1>6, ReturnsUnseen DEF BadAnswer, At, Sending, Results
<1>. QED  BY <1>1, <1>2, <1>4, <1>5, <1>6

\* A step ahead that touches no connection and delivers nothing.
LEMMA AheadKeeps ==
    ASSUME Inv, NEW r \in Reqs, NEW p \in Steps, To(r, p), UNCHANGED <<gvars, conn, seen>>,
           permits' \subseteq Reqs \cup Others, px[r].at \in Waiting \cup Sending,
           p \in Waiting <=> px[r].at \in Waiting, p \in Sending <=> px[r].at \in Sending,
           p \in OnConn <=> px[r].at \in OnConn,
           SeenKnown([px[r] EXCEPT !.at = p], req[r], seen[r], r \in Safe),
           px[r].at \in OnConn =>
               Linked([px[r] EXCEPT !.at = p], req[r].gen, conn[px[r].conn])
    PROVE  Inv' /\ Outer
<1>. DEFINE x == [px[r] EXCEPT !.at = p]
<1>1. /\ px[r] \in PxType /\ CallKnown(px[r], req[r]) /\ seen[r] \in Seq(Gens)
      /\ seen = [seen EXCEPT ![r] = seen[r]]
  BY UnderWay
<1>2. /\ x \in PxType /\ x.at = p /\ x.conn = px[r].conn /\ x.try = px[r].try
      /\ x.res = px[r].res
  BY <1>1 DEF PxType
<1>3. px' = [px EXCEPT ![r] = x]
  BY DEF To
<1>. HIDE DEF x
<1>4. CallKnown(x, req[r])
  <2>1. px[r].at \notin {"none", "over"} /\ p \notin {"none", "over"}
    BY DEF Waiting, Sending
  <2>2. x.conn # NoConn <=> x.at \in OnConn
    BY <1>1, <1>2 DEF CallKnown
  <2>. QED  BY <1>1, <1>2, <2>1, <2>2 DEF CallKnown
<1>5. ConnsKept(r, x, req[r].gen)
  BY <1>2, OwnConnKept DEF x
<1>6. Known(x, req[r], seen[r], r \in Safe)
  BY <1>4 DEF Known, x
<1>7. seen' = [seen EXCEPT ![r] = seen[r]] /\ UNCHANGED gvars
  BY <1>1
<1>8. Inv'
  BY <1>1, <1>2, <1>3, <1>5, <1>6, <1>7, MoveKeeps
<1>. QED  BY <1>7, <1>8 DEF Outer

\* The steps ahead, and where forward may return instead.
LEMMA AheadSteps ==
    ASSUME Inv, NEW r \in Reqs,
           \/ TakePermit(r) \/ ReadBody(r) \/ Guard(r) \/ ReadAnswer(r) \/ CheckRevoked(r)
    PROVE  Inv' /\ Outer
<1>1. /\ px[r] \in PxType /\ seen[r] \in Seq(Gens) /\ Typed
      /\ CallKnown(px[r], req[r]) /\ SeenKnown(px[r], req[r], seen[r], r \in Safe)
      /\ px[r].at \in OnConn =>
            /\ px[r].conn \in Conns
            /\ Linked(px[r], req[r].gen, conn[px[r].conn])
  BY UnderWay, InvTypes
<1>2. \A p : LET x == [px[r] EXCEPT !.at = p]
             IN  x.at = p /\ x.conn = px[r].conn /\ x.try = px[r].try /\ x.res = px[r].res
  BY <1>1 DEF PxType
<1>3. CASE TakePermit(r)
  <2>1. /\ px[r].at = "permit" /\ To(r, "body") /\ UNCHANGED <<gvars, conn, seen>>
        /\ permits' \subseteq Reqs \cup Others
    BY <1>1, <1>3 DEF TakePermit, At, Typed
  <2>2. SeenKnown([px[r] EXCEPT !.at = "body"], req[r], seen[r], r \in Safe)
    BY <1>1, <1>2, <2>1 DEF SeenKnown, Answered
  <2>. QED  BY <2>1, <2>2, AheadKeeps DEF Steps, Waiting, Sending, OnConn
<1>4. CASE ReadBody(r)
  <2>1. px[r].at = "body"
    BY <1>4 DEF ReadBody, At
  <2>2. CASE Ahead(r, "dispatch")
    <3>1. /\ To(r, "dispatch") /\ UNCHANGED <<gvars, conn, seen>>
          /\ permits' \subseteq Reqs \cup Others
      BY <1>1, <2>2 DEF Ahead, Typed
    <3>2. SeenKnown([px[r] EXCEPT !.at = "dispatch"], req[r], seen[r], r \in Safe)
      BY <1>1, <1>2, <2>1 DEF SeenKnown, Answered
    <3>. QED  BY <2>1, <3>1, <3>2, AheadKeeps DEF Steps, Waiting, Sending, OnConn
  <2>3. CASE Returns(r, "client_body") /\ UNCHANGED seen
    BY <2>1, <2>3, ReturnsUnseen DEF Waiting, Results
  <2>. QED  BY <1>4, <2>2, <2>3 DEF ReadBody
<1>5. CASE Guard(r)
  <2>1. px[r].at = "guard"
    BY <1>5 DEF Guard, At
  <2>2. CASE Ahead(r, "fresh")
    <3>1. /\ To(r, "fresh") /\ UNCHANGED <<gvars, conn, seen>>
          /\ permits' \subseteq Reqs \cup Others
      BY <1>1, <2>2 DEF Ahead, Typed
    <3>2. SeenKnown([px[r] EXCEPT !.at = "fresh"], req[r], seen[r], r \in Safe)
      BY <1>1, <1>2, <2>1 DEF SeenKnown, Answered
    <3>3. Linked([px[r] EXCEPT !.at = "fresh"], req[r].gen, conn[px[r].conn])
      BY <1>1, <1>2, <2>1 DEF Linked, OnConn
    <3>. QED  BY <2>1, <3>1, <3>2, <3>3, AheadKeeps DEF Steps, Waiting, Sending, OnConn
  <2>3. CASE Returns(r, "maybe_sent") /\ UNCHANGED seen
    BY <2>1, <2>3, ReturnsUnseen DEF Sending, Results
  <2>. QED  BY <1>5, <2>2, <2>3 DEF Guard
<1>6. CASE ReadAnswer(r)
  <2>1. px[r].at = "read"
    BY <1>6 DEF ReadAnswer, At
  <2>2. CASE Ahead(r, "mark")
    <3>1. /\ To(r, "mark") /\ UNCHANGED <<gvars, conn, seen>>
          /\ permits' \subseteq Reqs \cup Others
      BY <1>1, <2>2 DEF Ahead, Typed
    <3>2. SeenKnown([px[r] EXCEPT !.at = "mark"], req[r], seen[r], r \in Safe)
      BY <1>1, <1>2, <2>1 DEF SeenKnown, Answered
    <3>3. Linked([px[r] EXCEPT !.at = "mark"], req[r].gen, conn[px[r].conn])
      BY <1>1, <1>2, <2>1 DEF Linked, OnConn
    <3>. QED  BY <2>1, <3>1, <3>2, <3>3, AheadKeeps DEF Steps, Waiting, Sending, OnConn
  <2>3. CASE Returns(r, "ok") /\ UNCHANGED seen
    BY <2>1, <2>3, ReturnsUnseen DEF Sending, Answered, Results
  <2>. QED  BY <1>6, <2>2, <2>3 DEF ReadAnswer
<1>7. CASE CheckRevoked(r)
  <2>. DEFINE k == conn[px[r].conn]
  <2>1. px[r].at = "check"
    BY <1>7 DEF CheckRevoked, At
  <2>2. CASE ~IsRevoked(k.gen) /\ Ahead(r, "push")
    <3>1. /\ To(r, "push") /\ UNCHANGED <<gvars, conn, seen>>
          /\ permits' \subseteq Reqs \cup Others
      BY <1>1, <2>2 DEF Ahead, Typed
    <3>2. SeenKnown([px[r] EXCEPT !.at = "push"], req[r], seen[r], r \in Safe)
      BY <1>1, <1>2, <2>1 DEF SeenKnown, Answered
    <3>3. px[r].conn \in Conns /\ Linked(px[r], req[r].gen, k)
      BY <1>1, <2>1 DEF OnConn
    <3>4. k.driver = "racing"
      <4>1. ConnKnown(k, IsRevoked(k.gen)) /\ k \in ConnType
        BY <1>1, <3>3 DEF Inv, ConnInv, Typed
      <4>. QED  BY <2>2, <3>3, <4>1 DEF ConnKnown, Linked, ConnType
    <3>5. Linked([px[r] EXCEPT !.at = "push"], req[r].gen, k)
      BY <1>2, <2>1, <3>3, <3>4 DEF Linked
    <3>. QED  BY <2>1, <3>1, <3>2, <3>5, AheadKeeps DEF Steps, Waiting, Sending, OnConn
  <2>3. CASE Returns(r, "ok") /\ UNCHANGED seen
    BY <2>1, <2>3, ReturnsUnseen DEF Sending, Answered, Results
  <2>. QED  BY <1>7, <2>2, <2>3 DEF CheckRevoked, IsRevoked
<1>. QED  BY <1>3, <1>4, <1>5, <1>6, <1>7

\* The one retry of an ambiguous send.
LEMMA AgainKeeps ==
    ASSUME Inv, NEW r \in Reqs, Again(r)
    PROVE  Inv' /\ Outer
<1>1. px[r].at = "again"
  BY DEF Again, At
<1>2. CASE Returns(r, "maybe_sent") /\ UNCHANGED seen
  BY <1>1, <1>2, ReturnsUnseen DEF Sending, Results
<1>3. CASE /\ Retriable(r) /\ px' = [px EXCEPT ![r].at = "connect", ![r].try = 2]
           /\ UNCHANGED <<gvars, conn, permits, seen>>
  <2>. DEFINE x == [px[r] EXCEPT !.at = "connect", !.try = 2]
  <2>1. /\ px[r] \in PxType /\ CallKnown(px[r], req[r]) /\ seen[r] \in Seq(Gens)
        /\ SeenKnown(px[r], req[r], seen[r], r \in Safe)
        /\ seen = [seen EXCEPT ![r] = seen[r]] /\ Typed /\ px[r].conn = NoConn
    BY <1>1, UnderWay, InvTypes DEF OnConn
  <2>2. x \in PxType /\ x.at = "connect" /\ x.try = 2 /\ x.conn = NoConn /\ x.res = px[r].res
    <3>1. "connect" \in Steps /\ 2 \in 1..2
      BY DEF Steps
    <3>. QED  BY <2>1, <3>1 DEF PxType
  <2>3. px' = [px EXCEPT ![r] = x]
    BY <1>3, <2>1 DEF Typed
  <2>. HIDE DEF x
  <2>4. CallKnown(x, req[r])
    BY <1>1, <2>1, <2>2 DEF CallKnown, Waiting, Sending, OnConn
  <2>5. SeenKnown(x, req[r], seen[r], r \in Safe)
    BY <1>1, <1>3, <2>1, <2>2 DEF SeenKnown, Answered, Retriable
  <2>6. ConnsKept(r, x, req[r].gen)
    BY <1>3, <2>1, <2>2, ClosedKept DEF Typed
  <2>7. Known(x, req[r], seen[r], r \in Safe)
    BY <2>4, <2>5 DEF Known
  <2>8. UNCHANGED gvars /\ seen' = [seen EXCEPT ![r] = seen[r]]
        /\ permits' \subseteq Reqs \cup Others
    BY <1>3, <2>1 DEF Typed
  <2>9. Inv'
    BY <2>1, <2>2, <2>3, <2>6, <2>7, <2>8, MoveKeeps
  <2>. QED  BY <2>8, <2>9 DEF Outer
<1>. QED  BY <1>2, <1>3 DEF Again

\* An ambiguous or refused send: the connection is dropped; nothing of it is left.
LEMMA SendFails ==
    ASSUME Inv, NEW r \in Reqs, px[r].at \in {"reused", "fresh"}, px[r].try = 1,
           NEW p \in {"connect", "again"}, NEW n \in Seq(Gens), Received(req[r], n, r \in Safe),
           Len(n) <= 1, p = "connect" => n = <<>>,
           px' = [px EXCEPT ![r].at = p, ![r].conn = NoConn],
           conn' = [conn EXCEPT ![px[r].conn] = Closed],
           seen' = [seen EXCEPT ![r] = n], UNCHANGED <<gvars, permits>>
    PROVE  Inv'
<1>. DEFINE x == [px[r] EXCEPT !.at = p, !.conn = NoConn]
<1>1. /\ px[r] \in PxType /\ CallKnown(px[r], req[r]) /\ Typed
      /\ SeenKnown(px[r], req[r], seen[r], r \in Safe)
  BY UnderWay, InvTypes
<1>2. x \in PxType /\ x.at = p /\ x.try = 1 /\ x.conn = NoConn /\ x.res = px[r].res
  <2>1. p \in Steps
    BY DEF Steps
  <2>. QED  BY <1>1, <2>1 DEF PxType
<1>3. px' = [px EXCEPT ![r] = x]
  BY <1>1 DEF Typed
<1>. HIDE DEF x
<1>4. req[r].pc = "sent" /\ req[r].result = "none" /\ px[r].res = "none"
      /\ req[r].ans = "none"
  BY <1>1 DEF CallKnown, Sending
<1>5. CallKnown(x, req[r])
  BY <1>1, <1>2, <1>4 DEF CallKnown, Waiting, Sending, OnConn
<1>6. SeenKnown(x, req[r], n, r \in Safe)
  BY <1>2, <1>4 DEF SeenKnown, Answered
<1>7. conn' \in [Conns -> ConnType]
  BY <1>1, ClosedType DEF Typed
<1>8. ConnsKept(r, x, req[r].gen)
  <2>1. \A c \in Conns : conn'[c] = IF c = px[r].conn THEN Closed ELSE conn[c]
    BY <1>1 DEF Typed
  <2>. QED  BY <1>2, <1>7, <2>1, ClosedKept
<1>9. Known(x, req[r], n, r \in Safe)
  BY <1>5, <1>6 DEF Known
<1>10. permits' \subseteq Reqs \cup Others /\ UNCHANGED gvars
  BY <1>1 DEF Typed
<1>. QED  BY <1>1, <1>2, <1>3, <1>8, <1>9, <1>10, MoveKeeps

\* A send that is answered.
LEMMA SendAnswered ==
    ASSUME Inv, NEW r \in Reqs, px[r].at \in {"reused", "fresh"}, Deliver(r), To(r, "read"),
           UNCHANGED <<gvars, conn, permits>>
    PROVE  Inv'
<1>. DEFINE x == [px[r] EXCEPT !.at = "read"]
            n == Append(seen[r], conn[px[r].conn].gen)
<1>1. /\ px[r] \in PxType /\ CallKnown(px[r], req[r]) /\ Typed
      /\ SeenKnown(px[r], req[r], seen[r], r \in Safe)
      /\ Linked(px[r], req[r].gen, conn[px[r].conn])
  BY UnderWay, InvTypes DEF OnConn
<1>2. n \in Seq(Gens) /\ n # <<>> /\ Received(req[r], n, r \in Safe)
  BY DeliverFacts
<1>3. x \in PxType /\ x.at = "read" /\ x.try = px[r].try /\ x.conn = px[r].conn
      /\ x.res = px[r].res
  BY <1>1 DEF PxType, Steps
<1>4. px' = [px EXCEPT ![r] = x] /\ seen' = [seen EXCEPT ![r] = n]
  BY DEF To, Deliver
<1>. HIDE DEF x, n
<1>5. req[r].pc = "sent" /\ px[r].res = "none" /\ req[r].ans = "none"
  BY <1>1 DEF CallKnown, Sending
<1>6. CallKnown(x, req[r])
  BY <1>1, <1>3, <1>5 DEF CallKnown, Waiting, Sending, OnConn
<1>7. SeenKnown(x, req[r], n, r \in Safe)
  BY <1>1, <1>2, <1>3, <1>5 DEF SeenKnown, Answered
<1>8. Linked(x, req[r].gen, conn[px[r].conn])
  BY <1>1, <1>3 DEF Linked
<1>9. ConnsKept(r, x, req[r].gen)
  BY <1>3, <1>8, OwnConnKept
<1>10. Known(x, req[r], n, r \in Safe)
  BY <1>6, <1>7 DEF Known
<1>11. permits' \subseteq Reqs \cup Others /\ UNCHANGED gvars
  BY <1>1 DEF Typed
<1>. QED  BY <1>2, <1>3, <1>4, <1>9, <1>10, <1>11, MoveKeeps

\* A send, on a pooled connection or on a fresh one.
LEMMA SendSteps ==
    ASSUME Inv, NEW r \in Reqs, SendReused(r) \/ SendFresh(r)
    PROVE  Inv' /\ Outer
<1>. DEFINE n == Append(seen[r], conn[px[r].conn].gen)
<1>1. /\ SeenKnown(px[r], req[r], seen[r], r \in Safe)
      /\ seen = [seen EXCEPT ![r] = seen[r]] /\ seen[r] \in Seq(Gens)
  BY UnderWay
<1>2. px[r].at \in {"reused", "fresh"}
  BY DEF SendReused, SendFresh, At
<1>3. n \in Seq(Gens) /\ Received(req[r], n, r \in Safe) /\ (px[r].try = 1 => Len(n) <= 1)
  BY <1>2, DeliverFacts
<1>4. Deliver(r) => seen' = [seen EXCEPT ![r] = n]
  BY DEF Deliver
<1>5. Received(req[r], seen[r], r \in Safe) /\ (px[r].try = 1 => seen[r] = <<>>)
  BY <1>1, <1>2 DEF SeenKnown
<1>. HIDE DEF n
\* A connection that failed takes the delivery with it, or nothing was delivered.
<1>6. ASSUME px[r].try = 1, Deliver(r) \/ UNCHANGED seen,
             px' = [px EXCEPT ![r].at = "again", ![r].conn = NoConn],
             conn' = [conn EXCEPT ![px[r].conn] = Closed], UNCHANGED <<gvars, permits>>
      PROVE  Inv' /\ Outer
  <2>1. CASE Deliver(r)
    BY <1>2, <1>3, <1>4, <1>6, <2>1, SendFails DEF Outer
  <2>2. CASE UNCHANGED seen
    <3>1. Len(seen[r]) <= 1 /\ seen' = [seen EXCEPT ![r] = seen[r]]
      BY <1>1, <1>5, <1>6, <2>2
    <3>. QED  BY <1>1, <1>2, <1>5, <1>6, <3>1, SendFails DEF Outer
  <2>. QED  BY <1>6, <2>1, <2>2
<1>7. CASE SendReused(r)
  <2>1. px[r].at = "reused" /\ px[r].try = 1 /\ UNCHANGED <<gvars, permits>>
    BY <1>1, <1>7 DEF SendReused, At, SeenKnown
  <2>2. CASE Deliver(r) /\ To(r, "read") /\ UNCHANGED conn
    BY <1>2, <2>1, <2>2, SendAnswered DEF Outer
  <2>3. CASE /\ conn' = [conn EXCEPT ![px[r].conn] = Closed]
             /\ px' = [px EXCEPT ![r].at = "connect", ![r].conn = NoConn]
             /\ UNCHANGED seen
    <3>1. Len(seen[r]) <= 1 /\ seen' = [seen EXCEPT ![r] = seen[r]] /\ seen[r] = <<>>
      BY <1>1, <1>5, <2>1, <2>3
    <3>. QED  BY <1>1, <1>2, <1>5, <2>1, <2>3, <3>1, SendFails DEF Outer
  <2>4. CASE /\ conn' = [conn EXCEPT ![px[r].conn] = Closed]
             /\ px' = [px EXCEPT ![r].at = "again", ![r].conn = NoConn]
             /\ Deliver(r) \/ UNCHANGED seen
    BY <1>6, <2>1, <2>4
  <2>. QED  BY <1>7, <2>2, <2>3, <2>4 DEF SendReused
<1>8. CASE SendFresh(r)
  <2>1. CASE Deliver(r) /\ To(r, "read") /\ UNCHANGED <<gvars, conn, permits>>
    BY <1>2, <2>1, SendAnswered DEF Outer
  <2>2. CASE /\ px[r].try = 1 /\ (Deliver(r) \/ UNCHANGED seen)
             /\ px' = [px EXCEPT ![r].at = "again", ![r].conn = NoConn]
             /\ conn' = [conn EXCEPT ![px[r].conn] = Closed]
             /\ UNCHANGED <<gvars, permits>>
    BY <1>6, <2>2
  <2>3. CASE (Deliver(r) \/ UNCHANGED seen) /\ Returns(r, "maybe_sent")
    <3>1. CASE Deliver(r)
      BY <1>2, <2>3, <3>1, ReturnsSent
    <3>2. CASE UNCHANGED seen
      BY <1>2, <2>3, <3>2, ReturnsUnseen DEF Sending, Results
    <3>. QED  BY <2>3, <3>1, <3>2
  <2>. QED  BY <1>8, <2>1, <2>2, <2>3 DEF SendFresh
<1>. QED  BY <1>7, <1>8

\* IdleConnections::take: a connection of the request's own run, or none.
LEMMA TakeIdleKeeps ==
    ASSUME Inv, NEW r \in Reqs, TakeIdle(r)
    PROVE  Inv' /\ Outer
<1>1. /\ px[r] \in PxType /\ CallKnown(px[r], req[r]) /\ Typed /\ seen[r] \in Seq(Gens)
      /\ SeenKnown(px[r], req[r], seen[r], r \in Safe)
      /\ seen = [seen EXCEPT ![r] = seen[r]]
  BY UnderWay, InvTypes
<1>2. px[r].at = "take" /\ UNCHANGED <<gvars, permits, seen>>
  BY DEF TakeIdle, At
<1>3. px[r].conn = NoConn
  BY <1>2, UnderWay DEF OnConn
<1>4. PICK old \in SUBSET {c \in Conns : conn[c].pooled} :
        LET kept == Kept(old)
            swept == [c \in Conns |-> IF conn[c].pooled /\ c \notin kept
                                      THEN Closed ELSE conn[c]]
        IN  IF Own(r, kept) = {}
            THEN /\ conn' = swept
                 /\ To(r, "connect")
            ELSE \E c \in Own(r, kept) :
                 /\ conn' = [swept EXCEPT ![c].pooled = FALSE, ![c].idle = FALSE]
                 /\ px' = [px EXCEPT ![r].at = "reused", ![r].conn = c]
  BY DEF TakeIdle
<1>. DEFINE kept == Kept(old)
            swept == [c \in Conns |-> IF conn[c].pooled /\ c \notin kept THEN Closed ELSE conn[c]]
<1>5. swept \in [Conns -> ConnType]
      /\ \A c \in Conns : swept[c] = conn[c] \/ (swept[c] = Closed /\ conn[c].pooled)
  BY <1>1, ClosedType DEF Typed
<1>6. permits' \subseteq Reqs \cup Others /\ seen' = [seen EXCEPT ![r] = seen[r]]
      /\ UNCHANGED gvars
  BY <1>1, <1>2 DEF Typed
<1>7. CASE conn' = swept /\ To(r, "connect")
  <2>. DEFINE x == [px[r] EXCEPT !.at = "connect"]
  <2>1. x \in PxType /\ x.at = "connect" /\ x.conn = NoConn /\ x.try = px[r].try
        /\ x.res = px[r].res
    BY <1>1, <1>3 DEF PxType, Steps
  <2>2. px' = [px EXCEPT ![r] = x]
    BY <1>7 DEF To
  <2>. HIDE DEF x
  <2>3. CallKnown(x, req[r]) /\ SeenKnown(x, req[r], seen[r], r \in Safe)
    BY <1>1, <1>2, <2>1 DEF CallKnown, SeenKnown, Waiting, Sending, OnConn, Answered
  <2>4. ConnsKept(r, x, req[r].gen)
    BY <1>5, <1>7, <2>1, ClosedKept
  <2>5. Inv'
    BY <1>1, <1>6, <2>1, <2>2, <2>3, <2>4, MoveKeeps DEF Known
  <2>. QED  BY <1>6, <2>5 DEF Outer
<1>8. ASSUME NEW c \in Own(r, kept),
             conn' = [swept EXCEPT ![c].pooled = FALSE, ![c].idle = FALSE],
             px' = [px EXCEPT ![r].at = "reused", ![r].conn = c]
      PROVE  Inv' /\ Outer
  <2>. DEFINE x == [px[r] EXCEPT !.at = "reused", !.conn = c]
              k == [conn[c] EXCEPT !.pooled = FALSE, !.idle = FALSE]
  <2>1. c \in Conns /\ conn[c].pooled /\ conn[c].st = "open" /\ conn[c].gen = req[r].gen
        /\ swept[c] = conn[c] /\ conn[c] \in ConnType
    BY <1>1 DEF Own, Kept, Typed
  <2>2. x \in PxType /\ x.at = "reused" /\ x.conn = c /\ x.try = px[r].try
        /\ x.res = px[r].res
    BY <1>1, <2>1 DEF PxType, Steps
  <2>3. px' = [px EXCEPT ![r] = x]
    BY <1>1, <1>8 DEF Typed
  <2>4. k \in ConnType /\ ~k.pooled /\ k.st = "open" /\ k.gen = conn[c].gen
        /\ k.driver = conn[c].driver
    BY <2>1 DEF ConnType
  <2>. HIDE DEF kept, swept
  <2>5. conn' = [swept EXCEPT ![c] = k]
    BY <1>5, <1>8, <2>1
  <2>. HIDE DEF x, k
  <2>6. CallKnown(x, req[r]) /\ SeenKnown(x, req[r], seen[r], r \in Safe)
    <3>1. c # NoConn
      BY <2>1, ProxyAssumption
    <3>. QED
      BY <1>1, <1>2, <2>2, <3>1 DEF CallKnown, SeenKnown, Waiting, Sending, OnConn, Answered
  <2>7. \A d \in Conns : conn'[d] = IF d = c THEN k ELSE swept[d]
    BY <1>5, <2>5
  <2>8. ConnsKept(r, x, req[r].gen)
    <3>1. conn' \in [Conns -> ConnType]
      BY <1>5, <2>4, <2>5
    <3>2. ASSUME NEW v PROVE ConnKnown(Closed, v)
      BY DEF ConnKnown, Closed
    <3>3. \A d \in Conns : ConnKnown(conn[d], IsRevoked(conn[d].gen))
      BY DEF Inv, ConnInv
    <3>4. ConnKnown(k, IsRevoked(k.gen))
      <4>1. ConnKnown(conn[c], IsRevoked(conn[c].gen))
        BY <2>1, <3>3
      <4>. QED  BY <2>1, <2>4, <4>1 DEF ConnKnown
    <3>5. \A d \in Conns : /\ ConnKnown(conn'[d], IsRevoked(conn'[d].gen))
                           /\ conn'[d] = conn[d] \/ conn[d].pooled
      BY <1>5, <2>1, <2>7, <3>2, <3>3, <3>4
    <3>6. Linked(x, req[r].gen, conn'[c])
      BY <2>1, <2>2, <2>4, <2>7 DEF Linked
    <3>7. \A s \in Reqs \ {r} : px[s].conn # c
      BY <2>1, ProxyAssumption DEF Inv, ConnInv, Linked
    <3>. QED  BY <2>2, <3>1, <3>5, <3>6, <3>7 DEF ConnsKept
  <2>9. Inv'
    BY <1>1, <1>6, <2>2, <2>3, <2>6, <2>8, MoveKeeps DEF Known
  <2>. QED  BY <1>6, <2>9 DEF Outer
<1>. QED  BY <1>4, <1>7, <1>8

\* Upstream::connect: a connection that no request has.
LEMMA ConnectKeeps ==
    ASSUME Inv, NEW r \in Reqs, Connect(r)
    PROVE  Inv' /\ Outer
<1>1. /\ px[r] \in PxType /\ req[r] \in ReqType /\ CallKnown(px[r], req[r]) /\ Typed
      /\ SeenKnown(px[r], req[r], seen[r], r \in Safe) /\ seen[r] \in Seq(Gens)
      /\ seen = [seen EXCEPT ![r] = seen[r]]
      /\ req[r].pc # "new" => req[r].gen \in Gens
  BY UnderWay, InvTypes
<1>2. px[r].at = "connect" /\ UNCHANGED <<gvars, permits, seen>>
  BY DEF Connect, At
<1>3. px[r].conn = NoConn /\ req[r].pc = "sent" /\ req[r].gen \in Gens
  BY <1>1, <1>2 DEF CallKnown, Sending, OnConn
<1>4. PICK c \in FreeConn :
        /\ conn' = [conn EXCEPT ![c] = [Closed EXCEPT !.st = "open", !.gen = req[r].gen]]
        /\ px' = [px EXCEPT ![r].conn = c,
                            ![r].at = IF px[r].try = 2 THEN "guard" ELSE "fresh"]
  BY DEF Connect
<1>. DEFINE p == IF px[r].try = 2 THEN "guard" ELSE "fresh"
            x == [px[r] EXCEPT !.conn = c, !.at = p]
            k == [Closed EXCEPT !.st = "open", !.gen = req[r].gen]
<1>5. c \in Conns /\ conn[c].st = "none" /\ \A s \in Reqs : px[s].conn # c
  BY DEF FreeConn
<1>6. p \in {"guard", "fresh"} /\ (p = "guard" <=> px[r].try = 2)
  OBVIOUS
<1>7. px' = [px EXCEPT ![r] = x]
  BY <1>1, <1>4 DEF Typed
<1>. HIDE DEF p
<1>8. x \in PxType /\ x.at = p /\ x.conn = c /\ x.try = px[r].try /\ x.res = px[r].res
  BY <1>1, <1>5, <1>6 DEF PxType, Steps
<1>9. k \in ConnType /\ k.st = "open" /\ k.gen = req[r].gen /\ ~k.pooled
      /\ k.driver = "racing"
  BY <1>3 DEF ConnType, Closed
<1>. HIDE DEF x, k
<1>10. \A d \in Conns : conn'[d] = IF d = c THEN k ELSE conn[d]
  BY <1>1, <1>4 DEF Typed, k
<1>11. CallKnown(x, req[r]) /\ SeenKnown(x, req[r], seen[r], r \in Safe)
  <2>1. c # NoConn
    BY <1>5, ProxyAssumption
  <2>2. px[r].try \in 1..2 /\ p # "reused"
    BY <1>1, <1>6 DEF PxType
  <2>3. CallKnown(x, req[r])
    BY <1>1, <1>2, <1>3, <1>6, <1>8, <2>1 DEF CallKnown, Waiting, Sending, OnConn
  <2>4. SeenKnown(x, req[r], seen[r], r \in Safe)
    BY <1>1, <1>2, <1>6, <1>8, <2>2 DEF SeenKnown, Answered
  <2>. QED  BY <2>3, <2>4
<1>12. ConnsKept(r, x, req[r].gen)
  <2>1. conn' \in [Conns -> ConnType]
    BY <1>1, <1>4, <1>9 DEF Typed, k
  <2>2. \A d \in Conns : ConnKnown(conn[d], IsRevoked(conn[d].gen))
    BY DEF Inv, ConnInv
  <2>3. ConnKnown(k, IsRevoked(k.gen))
    BY <1>3, <1>9 DEF ConnKnown
  <2>4. Linked(x, req[r].gen, k)
    BY <1>6, <1>8, <1>9 DEF Linked
  <2>. QED  BY <1>5, <1>8, <1>10, <2>1, <2>2, <2>3, <2>4 DEF ConnsKept
<1>13. permits' \subseteq Reqs \cup Others /\ seen' = [seen EXCEPT ![r] = seen[r]]
       /\ UNCHANGED gvars
  BY <1>1, <1>2 DEF Typed
<1>14. Inv'
  BY <1>1, <1>7, <1>8, <1>11, <1>12, <1>13, MoveKeeps DEF Known
<1>. QED  BY <1>13, <1>14 DEF Outer

\* IdleConnections::put, first step: the connection is marked idle.
LEMMA MarkIdleKeeps ==
    ASSUME Inv, NEW r \in Reqs, MarkIdle(r)
    PROVE  Inv' /\ Outer
<1>. DEFINE c == px[r].conn
            x == [px[r] EXCEPT !.at = "check"]
            k == [conn[c] EXCEPT !.idle = TRUE]
<1>1. px[r].at = "mark" /\ UNCHANGED <<gvars, permits, seen>>
  BY DEF MarkIdle, At
<1>2. /\ px[r] \in PxType /\ CallKnown(px[r], req[r]) /\ Typed
      /\ SeenKnown(px[r], req[r], seen[r], r \in Safe) /\ seen[r] \in Seq(Gens)
      /\ seen = [seen EXCEPT ![r] = seen[r]]
      /\ c \in Conns /\ Linked(px[r], req[r].gen, conn[c])
      /\ \A s \in Reqs \ {r} : px[s].conn # c
  BY <1>1, UnderWay, InvTypes DEF OnConn
<1>3. x \in PxType /\ x.at = "check" /\ x.conn = c /\ x.try = px[r].try /\ x.res = px[r].res
  BY <1>2 DEF PxType, Steps
<1>4. conn[c] \in ConnType
  BY <1>2 DEF Typed
<1>5. k \in ConnType /\ k.idle /\ k.st = conn[c].st /\ k.gen = conn[c].gen
      /\ k.pooled = conn[c].pooled /\ k.driver = conn[c].driver
  BY <1>4 DEF ConnType
<1>6. px' = [px EXCEPT ![r] = x] /\ conn' = [conn EXCEPT ![c] = k]
  BY DEF MarkIdle, To
<1>. HIDE DEF x, k, c
<1>7. CallKnown(x, req[r]) /\ SeenKnown(x, req[r], seen[r], r \in Safe)
  BY <1>1, <1>2, <1>3 DEF CallKnown, SeenKnown, Waiting, Sending, OnConn, Answered, c
<1>8. \A d \in Conns : conn'[d] = IF d = c THEN k ELSE conn[d]
  BY <1>2, <1>6 DEF Typed
<1>9. ConnsKept(r, x, req[r].gen)
  <2>1. conn' \in [Conns -> ConnType]
    BY <1>2, <1>5, <1>6 DEF Typed
  <2>2. \A d \in Conns : ConnKnown(conn[d], IsRevoked(conn[d].gen))
    BY DEF Inv, ConnInv
  <2>3. ConnKnown(k, IsRevoked(k.gen))
    <3>1. ConnKnown(conn[c], IsRevoked(conn[c].gen))
      BY <1>2, <2>2
    <3>. QED  BY <1>5, <3>1 DEF ConnKnown
  <2>4. Linked(x, req[r].gen, k)
    BY <1>2, <1>3, <1>5 DEF Linked
  <2>. QED  BY <1>2, <1>3, <1>8, <2>1, <2>2, <2>3, <2>4 DEF ConnsKept
<1>10. permits' \subseteq Reqs \cup Others /\ seen' = [seen EXCEPT ![r] = seen[r]]
       /\ UNCHANGED gvars
  BY <1>1, <1>2 DEF Typed
<1>11. Inv'
  BY <1>2, <1>3, <1>6, <1>7, <1>9, <1>10, MoveKeeps DEF Known
<1>. QED  BY <1>10, <1>11 DEF Outer

\* ... last step: it is pushed, or dropped for want of room.
LEMMA PushKeeps ==
    ASSUME Inv, NEW r \in Reqs, Push(r)
    PROVE  Inv' /\ Outer
<1>. DEFINE room == Cardinality({d \in Conns : conn[d].pooled}) < MaxIdle
            c == px[r].conn
            x == [Idle EXCEPT !.at = "over", !.res = "ok"]
            q == [req[r] EXCEPT !.result = "ok"]
            k == IF room THEN [conn[c] EXCEPT !.pooled = TRUE] ELSE Closed
<1>1. px[r].at = "push" /\ UNCHANGED <<gen, slot, permits, seen>>
  BY DEF Push, At
<1>2. /\ px[r] \in PxType /\ req[r] \in ReqType /\ CallKnown(px[r], req[r]) /\ Typed /\ GTypeOK
      /\ SeenKnown(px[r], req[r], seen[r], r \in Safe) /\ seen[r] \in Seq(Gens)
      /\ seen = [seen EXCEPT ![r] = seen[r]]
      /\ c \in Conns /\ Linked(px[r], req[r].gen, conn[c])
      /\ req[r].pc = "sent" => r \in gen[req[r].gen].dispatched
  BY <1>1, UnderWay, InvTypes DEF OnConn
<1>3. x \in PxType /\ x.at = "over" /\ x.res = "ok" /\ x.conn = NoConn /\ x.try = 1
  BY OverFacts DEF Results
<1>4. /\ q.pc = req[r].pc /\ q.gen = req[r].gen /\ q.ans = req[r].ans /\ q.left = req[r].left
      /\ q.result = "ok"
  BY <1>2 DEF ReqType
<1>5. conn[c] \in ConnType
  BY <1>2 DEF Typed
<1>6. k \in ConnType /\ ConnKnown(k, IsRevoked(k.gen))
  <2>1. CASE room
    <3>. DEFINE d == [conn[c] EXCEPT !.pooled = TRUE]
    <3>1. d \in ConnType /\ d.st = conn[c].st /\ d.gen = conn[c].gen /\ d.idle = conn[c].idle
          /\ d.driver = conn[c].driver
      BY <1>5 DEF ConnType
    <3>2. ConnKnown(conn[c], IsRevoked(conn[c].gen))
      BY <1>2 DEF Inv, ConnInv
    <3>3. k = d
      BY <2>1
    <3>. HIDE DEF d, k, room
    <3>4. ConnKnown(d, IsRevoked(d.gen))
      BY <1>1, <1>2, <3>1, <3>2 DEF ConnKnown, Linked
    <3>. QED  BY <3>1, <3>3, <3>4
  <2>2. CASE ~room
    BY <2>2, ClosedType DEF ConnKnown, Closed
  <2>. QED  BY <2>1, <2>2
<1>7. px' = [px EXCEPT ![r] = x] /\ req' = [req EXCEPT ![r] = q] /\ gen' = gen
      /\ conn' = [conn EXCEPT ![c] = k] /\ seen' = [seen EXCEPT ![r] = seen[r]]
  BY <1>2 DEF Push, Typed
<1>8. req[r].pc = "sent" /\ req[r].result = "none" /\ req[r].ans = "none" /\ seen[r] # <<>>
      /\ Received(req[r], seen[r], r \in Safe)
  BY <1>1, <1>2 DEF CallKnown, SeenKnown, Sending, Answered
<1>9. ProxyResult(r)
  <2>1. req' = [req EXCEPT ![r].result = "ok"]
    BY <1>7
  <2>. QED  BY <1>1, <1>8, <2>1 DEF ProxyResult
<1>10. GTypeOK'
  BY <1>2, <1>9, ProxyFacts DEF ProxyStep
<1>. HIDE DEF x, q, k, c, room
<1>11. CallKnown(x, q) /\ SeenKnown(x, q, seen[r], r \in Safe)
  <2>1. CallKnown(x, q)
    BY <1>2, <1>3, <1>4, <1>8 DEF CallKnown, Waiting, Sending, OnConn
  <2>2. Received(q, seen[r], r \in Safe)
    BY <1>4, <1>8 DEF Received
  <2>3. SeenKnown(x, q, seen[r], r \in Safe)
    BY <1>3, <1>4, <1>8, <2>2 DEF SeenKnown, Answered
  <2>. QED  BY <2>1, <2>3
<1>12. GensKept(r, q)
  BY <1>2, <1>4, <1>7, <1>10 DEF GensKept, Inv, RequestInv
<1>13. ConnsKept(r, x, q.gen)
  <2>1. \A d \in Conns : conn'[d] = IF d = c THEN k ELSE conn[d]
    BY <1>2, <1>7 DEF Typed
  <2>2. conn' \in [Conns -> ConnType]
    BY <1>2, <1>6, <1>7 DEF Typed
  <2>. QED  BY <1>3, <1>6, <2>1, <2>2 DEF ConnsKept, Inv, ConnInv, c
<1>14. Wrote(r, x, q, seen[r]) /\ Known(x, q, seen[r], r \in Safe)
  BY <1>7, <1>11 DEF Wrote, Known
<1>15. permits' \subseteq Reqs \cup Others
  BY <1>1, <1>2 DEF Typed
<1>16. Inv'
  BY <1>2, <1>3, <1>12, <1>13, <1>14, <1>15, ForwardKeeps
<1>. QED  BY <1>9, <1>16 DEF Outer, ProxyStep

-----------------------------------------------------------------------------
(* The steps of the proxy call around forward.                             *)

\* A step of the call that touches no connection and delivers nothing: its forward becomes x,
\* without a connection, and the call q.
LEMMA CallKeeps ==
    ASSUME Inv, NEW r \in Reqs, NEW x \in PxType, NEW q, px' = [px EXCEPT ![r] = x],
           req' = [req EXCEPT ![r] = q], UNCHANGED <<conn, seen, permits>>,
           GensKept(r, q), x.conn = NoConn, CallKnown(x, q),
           SeenKnown(x, q, seen[r], r \in Safe)
    PROVE  Inv'
<1>1. Typed /\ seen[r] \in Seq(Gens) /\ seen = [seen EXCEPT ![r] = seen[r]]
  BY UnderWay, InvTypes
<1>2. ConnsKept(r, x, q.gen)
  BY <1>1, ClosedKept DEF Typed
<1>3. Wrote(r, x, q, seen[r]) /\ permits' \subseteq Reqs \cup Others
  BY <1>1 DEF Wrote, Typed
<1>. QED  BY <1>1, <1>2, <1>3, ForwardKeeps DEF Known

\* What another request was dispatched into keeps it, when only r enters or leaves a set.
LEMMA SetsKept ==
    ASSUME Inv, NEW r \in Reqs, NEW q, ProxyStep,
           \/ gen' = gen
           \/ gen' = [gen EXCEPT ![req[r].gen].inFlight = @ \cup {r}]
           \/ gen' = [gen EXCEPT ![req[r].gen].dispatched = @ \cup {r}]
           \/ gen' = Removed(r),
           q.pc = "sent" => r \in gen'[q.gen].dispatched
    PROVE  GensKept(r, q)
<1>1. Typed /\ GTypeOK
  BY InvTypes
<1>2. GTypeOK' /\ \A h \in Gens : gen'[h].state = gen[h].state
  BY <1>1, ProxyFacts
<1>3. gen \in [Gens -> GenType]
  BY <1>1 DEF Typed
<1>4. ASSUME NEW s \in Reqs \ {r}, req[s].pc = "sent"
      PROVE  s \in gen'[req[s].gen].dispatched
  <2>. DEFINE g == req[r].gen
              h == req[s].gen
  <2>1. h \in Gens /\ s \in gen[h].dispatched /\ gen[h] \in GenType
    BY <1>3, <1>4, UnderWay
  <2>2. g \in Gens => gen[g] \in GenType
    BY <1>3
  <2>. HIDE DEF g, h
  <2>3. CASE gen' = gen
    BY <2>1, <2>3 DEF h
  <2>4. CASE gen' = [gen EXCEPT ![g].inFlight = @ \cup {r}]
    BY <1>3, <2>1, <2>4 DEF GenType, h
  <2>5. CASE gen' = [gen EXCEPT ![g].dispatched = @ \cup {r}]
    BY <1>3, <2>1, <2>5 DEF GenType, h
  <2>6. CASE gen' = Removed(r)
    <3>1. gen' = [gen EXCEPT ![g].inFlight = @ \ {r}, ![g].dispatched = @ \ {r}]
      BY <2>6 DEF Removed, g
    <3>2. gen'[h].dispatched = IF h = g THEN gen[h].dispatched \ {r} ELSE gen[h].dispatched
      BY <1>3, <2>1, <3>1 DEF GenType
    <3>. QED  BY <1>4, <2>1, <3>2 DEF h
  <2>. QED  BY <2>3, <2>4, <2>5, <2>6 DEF g
<1>. QED  BY <1>2, <1>4 DEF GensKept

\* The slot's generation is read, and the call is refused or admitted.
LEMMA CallSteps ==
    ASSUME Inv, NEW r \in Reqs,
           \/ (ProxyGet(r) \/ ProxyRefused(r)) /\ UNCHANGED pvars
           \/ Enter(r)
    PROVE  Inv' /\ Outer
<1>1. /\ px[r] \in PxType /\ req[r] \in ReqType /\ CallKnown(px[r], req[r]) /\ Typed
      /\ SeenKnown(px[r], req[r], seen[r], r \in Safe)
      /\ px[r].at \notin OnConn => px[r].conn = NoConn
      /\ req[r].pc # "new" => req[r].gen \in Gens
  BY UnderWay, InvTypes
<1>2. ASSUME req[r].pc \in {"new", "got"}
      PROVE  px[r].at = "none" /\ px[r].conn = NoConn /\ px[r].res = "none"
             /\ seen[r] = <<>> /\ req[r].result = "none" /\ req[r].ans = "none"
  <2>1. px[r].at \in Steps
    BY <1>1 DEF PxType
  <2>2. px[r].at = "none"
    BY <1>1, <1>2, <2>1 DEF CallKnown, Waiting, Sending, Steps
  <2>. QED  BY <1>1, <1>2, <2>2 DEF CallKnown, SeenKnown, OnConn
<1>3. CASE (ProxyGet(r) \/ ProxyRefused(r)) /\ UNCHANGED pvars
  <2>1. UNCHANGED <<px, conn, seen, permits>> /\ ProxyStep /\ gen' = gen /\ slot \in Gens
    BY <1>1, <1>3 DEF pvars, ProxyStep, ProxyGet, ProxyRefused, Typed
  <2>2. px' = [px EXCEPT ![r] = px[r]]
    BY <1>1, <2>1 DEF Typed
  <2>3. CASE ProxyGet(r)
    <3>. DEFINE q == [req[r] EXCEPT !.pc = "got", !.gen = slot]
    <3>1. req[r].pc = "new" /\ req' = [req EXCEPT ![r] = q]
      BY <1>1, <2>3 DEF ProxyGet, Typed
    <3>2. /\ q.pc = "got" /\ q.gen = slot /\ q.ans = req[r].ans /\ q.left = req[r].left
          /\ q.result = req[r].result
      BY <1>1 DEF ReqType
    <3>. HIDE DEF q
    <3>3. GensKept(r, q)
      BY <2>1, <3>2, SetsKept
    <3>4. CallKnown(px[r], q)
      BY <1>1, <1>2, <2>1, <3>1, <3>2, GensAssumption DEF CallKnown, Waiting, Sending, OnConn
    <3>5. SeenKnown(px[r], q, seen[r], r \in Safe)
      BY <1>1, <1>2, <3>1, <3>2 DEF SeenKnown, Received, Answered
    <3>6. Inv'
      BY <1>1, <1>2, <2>1, <2>2, <3>1, <3>3, <3>4, <3>5, CallKeeps
    <3>. QED  BY <2>1, <3>6 DEF Outer
  <2>4. CASE ProxyRefused(r)
    <3>. DEFINE a == Refusal(req[r].gen)
                q == [req[r] EXCEPT !.pc = "done", !.ans = a]
    <3>1. req[r].pc = "got" /\ req' = [req EXCEPT ![r] = q]
      BY <1>1, <2>4 DEF ProxyRefused, Typed
    <3>2. /\ q.pc = "done" /\ q.gen = req[r].gen /\ q.ans = a /\ q.left = req[r].left
          /\ q.result = req[r].result
      BY <1>1 DEF ReqType
    <3>3. a \in {"not_ready", "draining", "stopping"}
      BY <2>4 DEF ProxyRefused, Refusal
    <3>. HIDE DEF q, a
    <3>4. GensKept(r, q)
      BY <2>1, <3>2, SetsKept
    <3>5. CallKnown(px[r], q)
      BY <1>1, <1>2, <3>1, <3>2 DEF CallKnown, Waiting, Sending, OnConn
    <3>6. SeenKnown(px[r], q, seen[r], r \in Safe)
      BY <1>1, <1>2, <3>1, <3>2, <3>3 DEF SeenKnown, Received, Answered
    <3>7. Inv'
      BY <1>1, <1>2, <2>1, <2>2, <3>1, <3>4, <3>5, <3>6, CallKeeps
    <3>. QED  BY <2>1, <3>7 DEF Outer
  <2>. QED  BY <1>3, <2>3, <2>4
<1>4. CASE Enter(r)
  <2>. DEFINE q == [req[r] EXCEPT !.pc = "flying"]
              x == [px[r] EXCEPT !.at = "permit"]
  <2>1. /\ ProxyAdmit(r) /\ UNCHANGED <<conn, permits, seen>> /\ req[r].pc = "got"
        /\ ProxyStep
        /\ gen' = [gen EXCEPT ![req[r].gen].inFlight = @ \cup {r}]
    BY <1>4 DEF Enter, ProxyAdmit, ProxyStep
  <2>2. req' = [req EXCEPT ![r] = q] /\ px' = [px EXCEPT ![r] = x]
    BY <1>4 DEF Enter, ProxyAdmit, To
  <2>3. /\ q.pc = "flying" /\ q.gen = req[r].gen /\ q.ans = req[r].ans
        /\ q.left = req[r].left /\ q.result = req[r].result
    BY <1>1 DEF ReqType
  <2>4. x \in PxType /\ x.at = "permit" /\ x.conn = px[r].conn /\ x.try = px[r].try
        /\ x.res = px[r].res
    BY <1>1 DEF PxType, Steps
  <2>. HIDE DEF q, x
  <2>5. GensKept(r, q)
    BY <2>1, <2>3, SetsKept
  <2>6. CallKnown(x, q)
    BY <1>1, <1>2, <2>1, <2>3, <2>4 DEF CallKnown, Waiting, Sending, OnConn
  <2>7. SeenKnown(x, q, seen[r], r \in Safe)
    BY <1>1, <1>2, <2>1, <2>3, <2>4 DEF SeenKnown, Received, Answered
  <2>8. Inv'
    BY <1>1, <1>2, <2>1, <2>2, <2>4, <2>5, <2>6, <2>7, CallKeeps
  <2>. QED  BY <2>1, <2>8 DEF Outer
<1>. QED  BY <1>3, <1>4

\* dispatch: the request is in the generation's set before it can reach the module.
LEMMA DispatchKeeps ==
    ASSUME Inv, NEW r \in Reqs, Dispatch(r)
    PROVE  Inv' /\ Outer
<1>. DEFINE q == [req[r] EXCEPT !.pc = "sent", !.left = TRUE]
            x == [px[r] EXCEPT !.at = "take"]
<1>1. /\ px[r] \in PxType /\ req[r] \in ReqType /\ CallKnown(px[r], req[r]) /\ Typed
      /\ SeenKnown(px[r], req[r], seen[r], r \in Safe)
      /\ px[r].at \notin OnConn => px[r].conn = NoConn
      /\ req[r].pc # "new" => req[r].gen \in Gens
  BY UnderWay, InvTypes
<1>2. /\ px[r].at = "dispatch" /\ UNCHANGED <<conn, permits, seen>> /\ ProxyStep
      /\ gen' = [gen EXCEPT ![req[r].gen].dispatched = @ \cup {r}]
      /\ req[r].pc = "flying"
  BY DEF Dispatch, At, ProxyDispatch, ProxyStep
<1>3. req' = [req EXCEPT ![r] = q] /\ px' = [px EXCEPT ![r] = x]
  BY <1>1 DEF Dispatch, ProxyDispatch, To, Typed
<1>4. /\ q.pc = "sent" /\ q.gen = req[r].gen /\ q.ans = req[r].ans /\ q.left
      /\ q.result = req[r].result
  BY <1>1 DEF ReqType
<1>5. x \in PxType /\ x.at = "take" /\ x.conn = px[r].conn /\ x.try = px[r].try
      /\ x.res = px[r].res
  BY <1>1 DEF PxType, Steps
<1>6. seen[r] = <<>> /\ px[r].conn = NoConn
  BY <1>1, <1>2 DEF SeenKnown, OnConn
<1>7. x.try = 1
  BY <1>1, <1>2, <1>5 DEF SeenKnown
<1>. HIDE DEF q, x
<1>8. r \in gen'[q.gen].dispatched
  <2>1. req[r].gen \in Gens /\ gen \in [Gens -> GenType]
    BY <1>1, <1>2 DEF Typed
  <2>. QED  BY <1>2, <1>4, <2>1 DEF GenType
<1>9. GensKept(r, q)
  BY <1>2, <1>8, SetsKept
<1>10. CallKnown(x, q)
  BY <1>1, <1>2, <1>4, <1>5, <1>6 DEF CallKnown, Waiting, Sending, OnConn
<1>11. SeenKnown(x, q, seen[r], r \in Safe)
  BY <1>1, <1>4, <1>5, <1>6, <1>7 DEF SeenKnown, Received, Answered
<1>12. Inv'
  BY <1>2, <1>3, <1>5, <1>6, <1>9, <1>10, <1>11, CallKeeps
<1>. QED  BY <1>2, <1>12 DEF Outer

\* The call ends: by forward, by the revocation, or because the client went away.
LEMMA LeaveKeeps ==
    ASSUME Inv, NEW r \in Reqs, Leave(r)
    PROVE  Inv' /\ Outer
<1>. DEFINE x == [Idle EXCEPT !.at = "over", !.res = px[r].res]
            g == req[r].gen
<1>1. /\ px[r] \in PxType /\ req[r] \in ReqType /\ CallKnown(px[r], req[r]) /\ Typed
      /\ SeenKnown(px[r], req[r], seen[r], r \in Safe) /\ seen[r] \in Seq(Gens)
      /\ seen = [seen EXCEPT ![r] = seen[r]]
      /\ req[r].pc = "sent" => r \in gen[g].dispatched
  BY UnderWay, InvTypes
<1>2. /\ req[r].pc \in {"flying", "sent"} /\ gen' = Removed(r) /\ ProxyStep
      /\ px' = [px EXCEPT ![r] = x]
      /\ conn' = [c \in Conns |-> IF c = px[r].conn THEN Closed ELSE conn[c]]
      /\ permits' \subseteq Reqs \cup Others
  BY <1>1 DEF Leave, ProxyFinish, ProxyDrop, ProxyStep, Typed
<1>3. PICK a :
        /\ req' = [req EXCEPT ![r] = [req[r] EXCEPT !.pc = "done", !.ans = a]]
        /\ a = "none" \/ (a = Outcome(r, req[r].result)
                          /\ (req[r].result # "none" \/ gen[g].state = "revoked"))
  <2>1. CASE ProxyFinish(r)
    BY <1>1, <2>1 DEF ProxyFinish, Typed
  <2>2. CASE ProxyDrop(r)
    <3>1. req[r].ans = "none"
      BY <1>1, <1>2 DEF CallKnown
    <3>2. [req[r] EXCEPT !.pc = "done"] = [req[r] EXCEPT !.pc = "done", !.ans = "none"]
      BY <1>1, <3>1 DEF ReqType
    <3>3. req' = [req EXCEPT ![r] = [req[r] EXCEPT !.pc = "done"]]
      BY <2>2 DEF ProxyDrop
    <3>. QED  BY <3>2, <3>3
  <2>. QED  BY <2>1, <2>2 DEF Leave
<1>. DEFINE q == [req[r] EXCEPT !.pc = "done", !.ans = a]
<1>4. /\ q.pc = "done" /\ q.gen = g /\ q.ans = a /\ q.left = req[r].left
      /\ q.result = req[r].result
  BY <1>1 DEF ReqType
<1>5. x \in PxType /\ x.at = "over" /\ x.res = px[r].res /\ x.conn = NoConn /\ x.try = 1
  <2>1. px[r].res \in Results
    BY <1>1 DEF PxType
  <2>. QED  BY <2>1, OverFacts
<1>6. PICK n \in Seq(Gens) :
        /\ seen' = [seen EXCEPT ![r] = n] /\ Received(req[r], n, r \in Safe)
        /\ n = seen[r] \/ (px[r].at \in {"reused", "fresh"} /\ n # <<>>)
  <2>1. CASE UNCHANGED seen
    BY <1>1, <2>1 DEF SeenKnown
  <2>2. CASE px[r].at \in {"reused", "fresh"} /\ Deliver(r)
    <3>. DEFINE n == Append(seen[r], conn[px[r].conn].gen)
    <3>1. n \in Seq(Gens) /\ n # <<>> /\ Received(req[r], n, r \in Safe)
      BY <2>2, DeliverFacts
    <3>2. seen' = [seen EXCEPT ![r] = n]
      BY <2>2 DEF Deliver
    <3>. HIDE DEF n
    <3>. QED  BY <2>2, <3>1, <3>2
  <2>. QED  BY <2>1, <2>2 DEF Leave
<1>. HIDE DEF q, x
\* Before it returned, forward has no result; a call that was not sent was not received.
<1>7. /\ px[r].at \notin {"none"}
      /\ px[r].at = "over" /\ req[r].result = "ok" => px[r].res = "ok"
      /\ px[r].at # "over" => req[r].result = "none" /\ px[r].res = "none"
      /\ req[r].pc = "flying" => seen[r] = <<>> /\ px[r].at \notin {"reused", "fresh"}
  <2>1. px[r].at \in Steps
    BY <1>1 DEF PxType
  <2>. QED  BY <1>1, <1>2, <2>1 DEF CallKnown, SeenKnown, Waiting, Sending, Steps
<1>8. CallKnown(x, q)
  BY <1>1, <1>2, <1>4, <1>5 DEF CallKnown, Waiting, Sending, OnConn
<1>9. SeenKnown(x, q, n, r \in Safe)
  <2>1. Received(q, n, r \in Safe)
    BY <1>4, <1>6 DEF Received
  <2>2. x.res \in {"overloaded", "client_body", "unreached"} => n = <<>>
    BY <1>1, <1>5, <1>6, <1>7 DEF SeenKnown
  <2>3. x.res = "ok" => n # <<>>
    BY <1>1, <1>5, <1>6 DEF SeenKnown
  <2>4. a \in {"not_ready", "draining", "stopping"} => n = <<>>
    <3>1. ASSUME a \in {"not_ready", "draining", "stopping"} PROVE req[r].pc = "flying"
      <4>1. a = Outcome(r, req[r].result) /\ req[r].result \in {"none", "ok", "error"}
        BY <1>1, <1>3, <3>1 DEF ReqType
      <4>2. r \notin gen[g].dispatched
        BY <3>1, <4>1 DEF Outcome
      <4>. QED  BY <1>1, <1>2, <4>2
    <3>. QED  BY <1>6, <1>7, <3>1
  <2>5. a = "ok" => n # <<>>
    <3>1. a = "ok" => req[r].result = "ok"
      BY <1>3 DEF Outcome
    <3>2. req[r].result = "ok" => seen[r] # <<>>
      BY <1>1, <1>7 DEF SeenKnown
    <3>. QED  BY <1>6, <3>1, <3>2
  <2>. QED  BY <1>4, <1>5, <2>1, <2>2, <2>3, <2>4, <2>5 DEF SeenKnown, Answered
<1>10. GensKept(r, q)
  BY <1>2, <1>4, SetsKept
<1>11. ConnsKept(r, x, q.gen)
  <2>1. conn' \in [Conns -> ConnType]
    BY <1>1, <1>2, ClosedType DEF Typed
  <2>. QED  BY <1>2, <1>5, <2>1, ClosedKept
<1>12. Wrote(r, x, q, n)
  BY <1>2, <1>3, <1>6 DEF Wrote, q
<1>13. Known(x, q, n, r \in Safe)
  BY <1>8, <1>9 DEF Known
<1>14. Inv'
  BY <1>2, <1>5, <1>6, <1>10, <1>11, <1>12, <1>13, ForwardKeeps
<1>. QED  BY <1>2, <1>14 DEF Outer

-----------------------------------------------------------------------------
(* The driver tasks, the module's end of a connection, the slot's owner.   *)

LEMMA ConnSteps ==
    ASSUME Inv, NEW c \in Conns, DriverWakes(c) \/ ModuleCloses(c)
    PROVE  Inv' /\ UNCHANGED gvars
<1>1. Typed /\ ConnKnown(conn[c], IsRevoked(conn[c].gen)) /\ conn[c] \in ConnType
  BY InvTypes DEF Inv, ConnInv, Typed
<1>2. UNCHANGED <<gvars, px, permits, seen>> /\ conn[c].st = "open"
  BY DEF DriverWakes, ModuleCloses
<1>3. ASSUME NEW k \in ConnType, conn' = [conn EXCEPT ![c] = k], k.st # "none",
             k.gen = conn[c].gen, k.idle = conn[c].idle, k.pooled = conn[c].pooled,
             k.driver = conn[c].driver
             \/ (k.driver = "finishing" /\ ~k.idle /\ IsRevoked(conn[c].gen))
      PROVE  Inv'
  <2>1. ConnKnown(k, IsRevoked(k.gen))
    BY <1>1, <1>2, <1>3 DEF ConnKnown
  <2>2. \A r \in Reqs : Linked(px[r], req[r].gen, conn[c]) => Linked(px[r], req[r].gen, k)
    BY <1>3 DEF Linked
  <2>. QED  BY <1>2, <1>3, <2>1, <2>2, ConnKeeps
\* The connection is closed.
<1>4. ASSUME conn' = [conn EXCEPT ![c].st = "closed"] PROVE Inv'
  <2>. DEFINE k == [conn[c] EXCEPT !.st = "closed"]
  <2>1. k \in ConnType /\ k.st = "closed" /\ k.gen = conn[c].gen /\ k.idle = conn[c].idle
        /\ k.pooled = conn[c].pooled /\ k.driver = conn[c].driver
    BY <1>1 DEF ConnType
  <2>2. conn' = [conn EXCEPT ![c] = k]
    BY <1>4
  <2>. HIDE DEF k
  <2>. QED  BY <1>3, <2>1, <2>2
<1>5. CASE DriverWakes(c)
  <2>1. CASE conn[c].idle
    <3>1. conn' = [conn EXCEPT ![c].st = "closed"]
      BY <1>5, <2>1 DEF DriverWakes
    <3>. QED  BY <1>2, <1>4, <3>1
  <2>2. CASE ~conn[c].idle
    <3>. DEFINE k == [conn[c] EXCEPT !.driver = "finishing"]
    <3>1. k \in ConnType /\ k.st = conn[c].st /\ k.gen = conn[c].gen /\ k.idle = conn[c].idle
          /\ k.pooled = conn[c].pooled /\ k.driver = "finishing"
      BY <1>1 DEF ConnType
    <3>2. conn' = [conn EXCEPT ![c] = k] /\ IsRevoked(conn[c].gen)
      BY <1>5, <2>2 DEF DriverWakes, IsRevoked
    <3>. HIDE DEF k
    <3>. QED  BY <1>2, <1>3, <2>2, <3>1, <3>2
  <2>. QED  BY <2>1, <2>2
<1>6. CASE ModuleCloses(c)
  BY <1>2, <1>4, <1>6 DEF ModuleCloses
<1>. QED  BY <1>2, <1>5, <1>6

LEMMA BytesGoneKeeps ==
    ASSUME Inv, NEW r \in Reqs, BytesGone(r)
    PROVE  Inv' /\ UNCHANGED gvars
<1>1. Typed /\ UNCHANGED <<gen, slot, req, px, conn, seen>> /\ permits' \subseteq permits
  BY InvTypes DEF BytesGone, gvars
<1>2. Typed'
  BY <1>1 DEF Typed
<1>3. RequestInv' /\ ConnInv'
  BY <1>1 DEF Inv, RequestInv, ConnInv, IsRevoked
<1>. QED  BY <1>1, <1>2, <1>3 DEF Inv, BytesGone

LEMMA OwnerMovesKeeps ==
    ASSUME Inv, OwnerMoves
    PROVE  Inv'
<1>1. /\ Typed /\ GTypeOK /\ OwnerStep /\ UNCHANGED <<px, conn, permits, seen>>
      /\ \A c \in Conns : conn[c].st # "none" =>
            (gen'[conn[c].gen].state = "starting" => gen[conn[c].gen].state = "starting")
  BY InvTypes DEF OwnerMoves, pvars
<1>2. /\ GTypeOK'
      /\ \A r \in Reqs : /\ req'[r].pc = req[r].pc /\ req'[r].gen = req[r].gen
                         /\ req'[r].ans = req[r].ans /\ req'[r].left = req[r].left
                         /\ req'[r].result = req[r].result
      /\ \A r \in Reqs : req[r].pc = "sent" /\ req[r].gen \in Gens =>
             gen'[req[r].gen].dispatched = gen[req[r].gen].dispatched
      /\ \A h \in Gens : gen[h].state = "revoked" /\ gen'[h].state # "starting" =>
             gen'[h].state = "revoked"
  BY <1>1, OwnerFacts
<1>3. Typed'
  BY <1>1, <1>2 DEF Typed, GTypeOK, GenType, ReqType
<1>4. RequestInv'
  <2>1. ASSUME NEW r \in Reqs
        PROVE  /\ Known(px[r], req'[r], seen[r], r \in Safe)
               /\ req'[r].pc = "sent" => r \in gen'[req'[r].gen].dispatched
    <3>1. CallKnown(px[r], req'[r])
      <4>1. CallKnown(px[r], req[r])
        BY UnderWay
      <4>. QED  BY <1>2, <4>1 DEF CallKnown
    <3>2. SeenKnown(px[r], req'[r], seen[r], r \in Safe)
      <4>1. SeenKnown(px[r], req[r], seen[r], r \in Safe)
        BY UnderWay
      <4>. QED  BY <1>2, <4>1 DEF SeenKnown, Received
    <3>3. req[r].pc = "sent" => req[r].gen \in Gens /\ r \in gen[req[r].gen].dispatched
      BY UnderWay
    <3>. QED  BY <1>2, <3>1, <3>2, <3>3 DEF Known
  <2>. QED  BY <1>1, <2>1 DEF RequestInv
<1>5. ConnInv'
  <2>1. ASSUME NEW c \in Conns
        PROVE  ConnKnown(conn[c], gen'[conn[c].gen].state = "revoked")
    <3>1. ConnKnown(conn[c], gen[conn[c].gen].state = "revoked")
      BY DEF Inv, ConnInv, IsRevoked
    <3>. QED  BY <1>1, <1>2, <3>1 DEF ConnKnown
  <2>2. ASSUME NEW r \in Reqs, px[r].conn # NoConn
        PROVE  Linked(px[r], req'[r].gen, conn[px[r].conn])
    BY <1>2, <2>2 DEF Inv, ConnInv
  <2>3. \A r, s \in Reqs : px[r].conn # NoConn /\ px[r].conn = px[s].conn => r = s
    BY DEF Inv, ConnInv
  <2>. QED  BY <1>1, <2>1, <2>2, <2>3 DEF ConnInv, IsRevoked
<1>. QED  BY <1>3, <1>4, <1>5 DEF Inv

-----------------------------------------------------------------------------
(* The theorems.                                                           *)

\* The first generation of a slot is a name.
LEMMA FirstGen ==
    (CHOOSE g \in Gens : \A h \in Gens : g <= h) \in Gens
<1>1. PICK g \in Gens : \A h \in Gens : ~(<<h, g>> \in OpToRel(<, Nat))
  BY GensAssumption, NatLessThanWellFounded, WFMin
<1>2. \A h \in Gens : g <= h
  <2>1. TAKE h \in Gens
  <2>2. h \in Nat /\ g \in Nat
    BY GensAssumption
  <2>3. ~(h < g)
    BY <1>1, <2>2 DEF OpToRel
  <2>. QED  BY <2>2, <2>3
<1>. QED  BY <1>2

LEMMA InitInv == Init => Inv
<1>. SUFFICES ASSUME Init PROVE Inv
  OBVIOUS
<1>1. slot \in Gens
  BY FirstGen DEF Init, GInit
<1>2. gen \in [Gens -> GenType]
  <2>1. \A k \in Kinds : Generation(k) \in GenType
    BY DEF Generation, GenType, States
  <2>2. gen = [g \in Gens |-> Generation(IF g = slot THEN "placeholder" ELSE "none")]
    BY DEF Init, GInit
  <2>3. \A g \in Gens : (IF g = slot THEN "placeholder" ELSE "none") \in Kinds
    BY DEF Kinds
  <2>. QED  BY <2>1, <2>2, <2>3
<1>3. req \in [Reqs -> ReqType] /\ \A r \in Reqs : req[r] = NewReq
  <2>1. NewReq \in ReqType
    BY DEF NewReq, ReqType, Answers
  <2>. QED  BY <2>1 DEF Init, GInit
<1>4. px \in [Reqs -> PxType] /\ \A r \in Reqs : px[r] = Idle
  <2>1. Idle \in PxType
    <3>1. "none" \in Steps /\ "none" \in Results /\ 1 \in 1..2
      BY DEF Steps, Results
    <3>. QED  BY <3>1 DEF Idle, PxType
  <2>. QED  BY <2>1 DEF Init
<1>5. conn \in [Conns -> ConnType] /\ \A c \in Conns : conn[c] = Closed
  BY ClosedType DEF Init
<1>6. permits \subseteq Reqs \cup Others /\ seen \in [Reqs -> Seq(Gens)]
      /\ \A r \in Reqs : seen[r] = <<>>
  BY DEF Init
<1>7. Typed
  BY <1>1, <1>2, <1>3, <1>4, <1>5, <1>6 DEF Typed
<1>8. \A b : Known(Idle, NewReq, <<>>, b)
  <2>1. CallKnown(Idle, NewReq)
    BY DEF CallKnown, Idle, NewReq, Waiting, Sending, OnConn
  <2>2. Len(<<>>) = 0
    OBVIOUS
  <2>3. \A b : SeenKnown(Idle, NewReq, <<>>, b)
    BY <2>2 DEF SeenKnown, Received, Idle, NewReq, Answered
  <2>. QED  BY <2>1, <2>3 DEF Known
<1>9. RequestInv
  <2>1. NewReq.pc # "sent"
    BY DEF NewReq
  <2>. QED  BY <1>3, <1>4, <1>6, <1>8, <2>1 DEF RequestInv
<1>10. ConnInv
  BY <1>4, <1>5 DEF ConnInv, ConnKnown, Closed, Idle
<1>. QED  BY <1>7, <1>9, <1>10 DEF Inv

\* Every step keeps the invariant, and is to the generations a step of a proxy call, one of
\* the slot's owner, or none.
LEMMA StepFacts ==
    ASSUME Inv, [Next]_vars
    PROVE  Inv' /\ Outer
<1>1. CASE UNCHANGED vars
  <2>1. UNCHANGED <<gen, slot, req, px, conn, permits, seen>>
    BY <1>1 DEF vars, gvars, pvars
  <2>2. Typed' /\ RequestInv' /\ ConnInv'
    BY <2>1 DEF Inv, Typed, RequestInv, ConnInv, IsRevoked
  <2>. QED  BY <2>1, <2>2 DEF Inv, Outer, gvars
<1>2. ASSUME NEW r \in Reqs,
             \/ (ProxyGet(r) \/ ProxyRefused(r)) /\ UNCHANGED pvars
             \/ Enter(r) \/ Forward(r) \/ Leave(r) \/ BytesGone(r)
      PROVE  Inv' /\ Outer
  <2>1. CASE Overloaded(r) \/ DispatchRefused(r) \/ ConnectFails(r) \/ HeadTimeout(r)
             \/ BadAnswer(r)
    BY <2>1, ReturningSteps
  <2>2. CASE TakePermit(r) \/ ReadBody(r) \/ Guard(r) \/ ReadAnswer(r) \/ CheckRevoked(r)
    BY <2>2, AheadSteps
  <2>3. CASE Again(r) \/ SendReused(r) \/ SendFresh(r)
    BY <2>3, AgainKeeps, SendSteps
  <2>4. CASE TakeIdle(r) \/ Connect(r)
    BY <2>4, TakeIdleKeeps, ConnectKeeps
  <2>5. CASE MarkIdle(r) \/ Push(r)
    BY <2>5, MarkIdleKeeps, PushKeeps
  <2>6. CASE Dispatch(r) \/ Leave(r)
    BY <2>6, DispatchKeeps, LeaveKeeps
  <2>7. CASE BytesGone(r)
    BY <2>7, BytesGoneKeeps DEF Outer
  <2>8. CASE \/ (ProxyGet(r) \/ ProxyRefused(r)) /\ UNCHANGED pvars
             \/ Enter(r)
    BY <2>8, CallSteps
  <2>. QED  BY <1>2, <2>1, <2>2, <2>3, <2>4, <2>5, <2>6, <2>7, <2>8 DEF Forward
<1>3. ASSUME NEW c \in Conns, DriverWakes(c) \/ ModuleCloses(c) PROVE Inv' /\ Outer
  BY <1>3, ConnSteps DEF Outer
<1>4. CASE OwnerMoves
  BY <1>4, OwnerMovesKeeps DEF OwnerMoves, Outer
<1>. QED  BY <1>1, <1>2, <1>3, <1>4 DEF Next

\* What every step of forward knows of its call, its connection and what the module received:
\* the inductive invariant of the proxy (forward, exchange, IdleConnections).
THEOREM ProxyInvariant == Spec => []Inv
<1>1. Inv /\ [Next]_vars => Inv'
  BY StepFacts
<1>. QED  BY InitInv, <1>1, PTL DEF Spec

\* The types of the calls, the connections and the permits; no request is sent three times.
THEOREM ProxyTypeCorrect == Spec => []TypeOK
<1>1. Inv => TypeOK
  <2>. SUFFICES ASSUME Inv PROVE TypeOK
    OBVIOUS
  <2>1. \A r \in Reqs : Len(seen[r]) <= 2
    BY DEF Inv, RequestInv, Known, SeenKnown, Received
  <2>2. GTypeOK /\ Typed
    BY InvTypes
  <2>. QED  BY <2>1, <2>2 DEF TypeOK, Typed, PxType, ConnType
<1>. QED  BY ProxyInvariant, <1>1, PTL

\* A request reaches only the run it was admitted into, only after its dispatch, and twice
\* only if it is safe to repeat (exchange, forward).
THEOREM RequestsAreSentRight == Spec => []SentRight
<1>1. Inv => SentRight
  <2>. SUFFICES ASSUME Inv, NEW r \in Reqs
                PROVE  /\ \A i \in 1..Len(seen[r]) : seen[r][i] = req[r].gen
                       /\ Len(seen[r]) > 0 => req[r].left
                       /\ Len(seen[r]) > 1 => r \in Safe
    BY DEF SentRight
  <2>1. Received(req[r], seen[r], r \in Safe) /\ seen[r] \in Seq(Gens)
    BY UnderWay DEF SeenKnown
  <2>2. Len(seen[r]) > 0 => seen[r] # <<>>
    BY <2>1
  <2>. QED  BY <2>1, <2>2 DEF Received
<1>. QED  BY ProxyInvariant, <1>1, PTL

\* An answer that says or implies that the module never saw the request is true, and a
\* success was really answered by the module (ExchangeError, maybe_sent_response).
THEOREM AnswersAreHonest == Spec => []AnswerHonest
<1>1. Inv => AnswerHonest
  <2>. SUFFICES ASSUME Inv, NEW r \in Reqs, req[r].pc = "done"
                PROVE  /\ req[r].ans \in {"not_ready", "draining", "stopping"} =>
                              seen[r] = <<>>
                       /\ req[r].ans = "error"
                          /\ px[r].res \in {"overloaded", "client_body", "unreached"} =>
                              seen[r] = <<>>
                       /\ req[r].ans = "ok" => seen[r] # <<>>
    BY DEF AnswerHonest
  <2>. QED  BY UnderWay DEF SeenKnown
<1>. QED  BY ProxyInvariant, <1>1, PTL

\* No idle connection to a revoked run is left in the pool for good: its driver has yet to
\* see the revocation (IdleConnections::put).
THEOREM PoolLetsGo == Spec => []NoIdleLeft
<1>1. Inv => NoIdleLeft
  BY DEF Inv, ConnInv, ConnKnown, NoIdleLeft
<1>. QED  BY ProxyInvariant, <1>1, PTL

\* Every step between admission and answer is one of the proxy call the generations allow, or
\* none: a forward with its pool and its retry implements the result in between (proxy).
THEOREM ForwardImplementsCall == Spec => GSpec
<1>1. Init => GInit
  BY DEF Init
<1>2. Inv /\ [Next]_vars => [GNext]_gvars
  BY StepFacts DEF Outer, GNext
<1>. QED  BY <1>1, <1>2, ProxyInvariant, PTL DEF Spec, GSpec

=============================================================================
