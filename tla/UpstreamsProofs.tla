-------------------------- MODULE UpstreamsProofs ---------------------------
(***************************************************************************)
(* What holds of the requests that wait for ClickHouse and Airflow, for    *)
(* any number of requests, any pool and any number of outages.             *)
(***************************************************************************)
EXTENDS Upstreams, FiniteSetTheorems, TLAPS

\* A call is made by a request that waits for it.
CallsInv ==
    \A r \in Request :
        /\ req[r].step # "query" => call[r] = Idle
        /\ call[r].step \in {"look", "build", "rows", "error"} => call[r].held = NoClient
        /\ req[r].alone => InFlight(r)

\* A client that was built and is not assigned yet is nobody else's, and open.
BuiltInv ==
    \A r \in Request : call[r].step = "assign" =>
        /\ call[r].held \in Client \ closed
        /\ call[r].held # client
        /\ \A p \in Request \ {r} : call[p].held # call[r].held

\* The module's client is a closed one only while close_clickhouse runs.
ClosedInv == client \in closed => \E r \in Request : call[r].step = "closing"

\* A request that has ClickHouse to itself leaves it with a client that works
\* or with none.
AloneInv ==
    \A r \in Request : req[r].alone =>
        /\ up
        /\ \A p \in Request \ {r} : ~InFlight(p)
        /\ call[r].step = "use" => call[r].held = client
        /\ call[r].step = "rows" => client \notin stale
        /\ call[r].step = "error" => client = NoClient
        /\ call[r].step = "return" => client # NoClient

\* From then on whatever client is found, or is about to be, works.
HealedInv ==
    /\ healed => /\ up
                 /\ client \notin stale
                 /\ \A r \in Request : call[r].step = "assign" => call[r].held \notin stale
    /\ \A r \in Request : req[r].alone /\ req[r].knew =>
           /\ healed
           /\ call[r].step \notin {"failed", "closing", "error"}
           /\ call[r].step = "use" => call[r].held \notin stale \cup closed

UpstreamsInv == TypeOK /\ CallsInv /\ BuiltInv /\ ClosedInv /\ AloneInv /\ HealedInv

-----------------------------------------------------------------------------
CallState == [step : CallStep, held : Client \cup {NoClient}]

LEMMA IdleIsState == Idle \in CallState /\ Idle.step = "idle" /\ Idle.held = NoClient
BY DEF Idle, CallState, CallStep

LEMMA NewReqIsReq == NewReq \in ReqState /\ NewReq.step = "new" /\ ~NewReq.alone
BY DEF NewReq, ReqState, Kind, Ended

LEMMA KindState ==
  ASSUME NEW q \in ReqState, NEW k \in Kind
  PROVE  /\ [q EXCEPT !.kind = k] \in ReqState
         /\ [q EXCEPT !.kind = k].step = q.step
         /\ [q EXCEPT !.kind = k].alone = q.alone
BY DEF ReqState

\* A client object is free for whoever builds one: the others hold one each,
\* and the variable one more.
LEMMA FreeClient ==
  ASSUME TypeOK, NEW r \in Request, call[r].held = NoClient
  PROVE  \E x \in Client : x \notin InUse
<1> DEFINE f == [p \in Request \ {r} |-> call[p].held]
           T == {f[p] : p \in Request \ {r}}
           U == T \cup {client}
<1>1. IsFiniteSet(Request) /\ IsFiniteSet(Client) /\ Cardinality(Client) > Cardinality(Request)
  BY ClientAssumption, UpstreamsAssumption
<1>2. /\ IsFiniteSet(Request \ {r}) /\ Cardinality(Request \ {r}) = Cardinality(Request) - 1
  BY <1>1, FS_RemoveElement
<1>3. f \in Surjection(Request \ {r}, T)
  BY DEF Surjection
<1>4. IsFiniteSet(T) /\ Cardinality(T) <= Cardinality(Request \ {r})
  BY <1>2, <1>3, FS_Surjection
<1>5. /\ IsFiniteSet(U)
      /\ Cardinality(U) = IF client \in T THEN Cardinality(T) ELSE Cardinality(T) + 1
  BY <1>4, FS_AddElement
<1>6. /\ Cardinality(T) \in Nat /\ Cardinality(U) \in Nat
      /\ Cardinality(Request) \in Nat /\ Cardinality(Client) \in Nat
  BY <1>1, <1>4, <1>5, FS_CardinalityType
<1>7. Cardinality(U) < Cardinality(Client)
  BY <1>1, <1>2, <1>4, <1>5, <1>6
<1>8. ~(Client \subseteq U)
  BY <1>5, <1>6, <1>7, FS_Subset
<1>9. InUse \subseteq U
  <2>1. InUse = ({client} \cup {call[p].held : p \in Request}) \ {NoClient}
    BY UpstreamsAssumption DEF InUse
  <2> SUFFICES ASSUME NEW x \in InUse PROVE x \in U
    OBVIOUS
  <2>2. CASE x = client
    BY <2>2
  <2>3. ASSUME NEW p \in Request, x = call[p].held PROVE x \in U
    <3>1. p # r
      BY <2>1, <2>3
    <3>2. f[p] = x /\ p \in Request \ {r}
      BY <2>3, <3>1
    <3> QED
      BY <3>2
  <2> QED
    BY <2>1, <2>2, <2>3
<1> QED
  BY <1>8, <1>9

-----------------------------------------------------------------------------
\* Init establishes the invariant.
LEMMA UpstreamsInit == Init => UpstreamsInv
<1> SUFFICES ASSUME Init PROVE UpstreamsInv
  OBVIOUS
<1>1. /\ client = NoClient /\ stale = {} /\ closed = {} /\ up = TRUE /\ outages = 0
      /\ call = [c \in Request |-> Idle] /\ healed = TRUE
  BY UpstreamsAssumption DEF Init, ChInit
<1>2. PICK asked \in Asked : /\ req = [r \in Request |-> [NewReq EXCEPT !.kind = asked[1][r]]]
                             /\ config = asked[2]
  BY DEF Init
<1>3. asked[1] \in [Request -> Kind] /\ config \in BOOLEAN
  BY <1>2, UpstreamsAssumption
<1>4. \A r \in Request : /\ req[r] \in ReqState
                         /\ req[r].step = "new" /\ ~req[r].alone
  <2> SUFFICES ASSUME NEW r \in Request
               PROVE  req[r] \in ReqState /\ req[r].step = "new" /\ ~req[r].alone
    OBVIOUS
  <2>1. asked[1][r] \in Kind
    BY <1>3
  <2>2. \A k \in Kind : /\ [NewReq EXCEPT !.kind = k] \in ReqState
                         /\ [NewReq EXCEPT !.kind = k].step = "new"
                         /\ ~[NewReq EXCEPT !.kind = k].alone
    BY NewReqIsReq, KindState DEF NewReq
  <2> QED
    BY <1>2, <2>1, <2>2
<1>5. req \in [Request -> ReqState]
  BY <1>2, <1>4
<1>6. call \in [Request -> [step : CallStep, held : Client \cup {NoClient}]]
  <2>1. Idle \in [step : CallStep, held : Client \cup {NoClient}]
    BY IdleIsState DEF CallState
  <2> QED
    BY <1>1, <2>1
<1>7. TypeOK
  <2>1. /\ outages \in 0 .. MaxOutages /\ client \in Client \cup {NoClient}
        /\ stale \subseteq Client /\ closed \subseteq Client
    BY <1>1, ClientAssumption
  <2>2. up \in BOOLEAN /\ healed \in BOOLEAN
    BY <1>1
  <2> QED
    BY <1>1, <1>3, <1>5, <1>6, <2>1, <2>2, UpstreamsAssumption DEF TypeOK, ChTypeOK
<1>8. \A r \in Request : call[r] = Idle /\ call[r].step = "idle" /\ ~req[r].alone
  BY <1>1, <1>4, IdleIsState
<1>9. CallsInv /\ BuiltInv
  BY <1>8 DEF CallsInv, BuiltInv
<1>10. ClosedInv /\ AloneInv /\ HealedInv
  <2>1. client \notin closed /\ client \notin stale /\ up
    BY <1>1
  <2> QED
    BY <1>8, <2>1 DEF ClosedInv, AloneInv, HealedInv
<1> QED
  BY <1>7, <1>9, <1>10 DEF UpstreamsInv

-----------------------------------------------------------------------------
(* The threads. *)

\* A request that is in a call has nobody alone beside it.
LEMMA InCall ==
  ASSUME UpstreamsInv, NEW r \in Request, call[r].step # "idle"
  PROVE  /\ req[r].step = "query"
         /\ \A p \in Request \ {r} : ~req[p].alone
         /\ req[r].alone => \A p \in Request \ {r} : call[p] = Idle
<1> USE DEF UpstreamsInv
<1>1. req[r].step = "query"
  BY IdleIsState DEF CallsInv
<1>2. InFlight(r)
  BY <1>1 DEF InFlight, Ended
<1>3. \A p \in Request \ {r} : ~req[p].alone
  BY <1>2 DEF AloneInv
<1>4. req[r].alone => \A p \in Request \ {r} : call[p] = Idle
  BY DEF AloneInv, CallsInv, InFlight, Ended
<1> QED
  BY <1>1, <1>3, <1>4

\* What each step of a call has to keep, of the call and of the client.
LEMMA ThreadStep ==
  ASSUME UpstreamsInv, NEW r \in Request, call[r].step # "idle",
         UNCHANGED <<req, config, healed, up, outages>>,
         NEW s \in CallState, call' = [call EXCEPT ![r] = s],
         client' \in Client \cup {NoClient}, stale' \subseteq stale, closed' \subseteq Client,
         s.step \in {"look", "build", "rows", "error"} => s.held = NoClient,
         \A p \in Request : call'[p].step = "assign" =>
             /\ call'[p].held \in Client \ closed'
             /\ call'[p].held # client'
             /\ \A o \in Request \ {p} : call'[o].held # call'[p].held
             /\ \/ call[p].step = "assign" /\ call'[p].held = call[p].held
                \/ call'[p].held \notin stale',
         ClosedInv',
         healed => client' \notin stale',
         req[r].alone =>
             /\ s.step = "use" => s.held = client'
             /\ s.step = "rows" => client' \notin stale'
             /\ s.step = "error" => client' = NoClient
             /\ s.step = "return" => client' # NoClient,
         req[r].alone /\ req[r].knew =>
             /\ s.step \notin {"failed", "closing", "error"}
             /\ s.step = "use" => s.held \notin stale' \cup closed'
  PROVE  UpstreamsInv'
<1>0. /\ req[r].step = "query"
      /\ \A p \in Request \ {r} : ~req[p].alone
  BY InCall
<1> USE DEF UpstreamsInv
<1>1. call \in [Request -> CallState]
  BY UpstreamsAssumption DEF TypeOK, ChTypeOK, CallState
<1>2. call' \in [Request -> CallState] /\ call'[r] = s
      /\ \A p \in Request \ {r} : call'[p] = call[p]
  BY <1>1
<1>3. TypeOK'
  BY <1>2, UpstreamsAssumption DEF TypeOK, ChTypeOK, CallState
<1>4. CallsInv'
  BY <1>0, <1>2 DEF CallsInv, InFlight
<1>5. BuiltInv'
  BY DEF BuiltInv
<1>6. AloneInv'
  BY <1>0, <1>2 DEF AloneInv, InFlight
<1>7. HealedInv'
  <2>1. healed' => /\ up' /\ client' \notin stale'
                   /\ \A p \in Request : call'[p].step = "assign" => call'[p].held \notin stale'
    BY DEF HealedInv
  <2>2. \A p \in Request : req'[p].alone /\ req'[p].knew =>
           /\ healed'
           /\ call'[p].step \notin {"failed", "closing", "error"}
           /\ call'[p].step = "use" => call'[p].held \notin stale' \cup closed'
    BY <1>0, <1>2 DEF HealedInv
  <2> QED
    BY <2>1, <2>2 DEF HealedInv
<1> QED
  BY <1>3, <1>4, <1>5, <1>6, <1>7

LEMMA CallMoved ==
  ASSUME NEW c \in CallState, NEW t \in CallStep
  PROVE  /\ [c EXCEPT !.step = t] \in CallState
         /\ [c EXCEPT !.step = t].step = t /\ [c EXCEPT !.step = t].held = c.held
         /\ [Idle EXCEPT !.step = t] \in CallState
         /\ [Idle EXCEPT !.step = t].step = t /\ [Idle EXCEPT !.step = t].held = NoClient
BY DEF CallState, Idle, CallStep

\* The steps of a thread and of the close, one by one.
LEMMA RunKeeps ==
  ASSUME UpstreamsInv, NEW r \in Request, Run(r), UNCHANGED <<req, config, healed>>
  PROVE  UpstreamsInv'
<1> USE DEF UpstreamsInv
<1>0. /\ call \in [Request -> CallState] /\ call[r] \in CallState
      /\ client \in Client \cup {NoClient} /\ stale \subseteq Client /\ closed \subseteq Client
      /\ NoClient \notin Client
  BY UpstreamsAssumption, ClientAssumption DEF TypeOK, ChTypeOK, CallState
<1>f. \A objects : Freed(objects) \subseteq objects
  BY DEF Freed
<1>i. call[r].step # "idle" => (req[r].alone => \A p \in Request \ {r} : call[p] = Idle)
  BY InCall
<1>d. Idle.step = "idle"
  BY IdleIsState
\* Steps that leave the client and the other calls alone.
<1>q. ASSUME NEW s \in CallState, call' = [call EXCEPT ![r] = s],
             UNCHANGED <<client, up, outages>>, stale' \subseteq stale, closed' \subseteq closed,
             call[r].step \notin {"idle", "closing"},
             s.step \notin {"idle", "look", "assign"},
             s.step \in {"build", "rows", "error"} => s.held = NoClient,
             s.held \in {NoClient, call[r].held, client},
             req[r].alone =>
                 /\ s.step = "use" => s.held = client
                 /\ s.step = "rows" => client \notin stale'
                 /\ s.step = "error" => client = NoClient
                 /\ s.step = "return" => client # NoClient,
             req[r].alone /\ req[r].knew =>
                 /\ s.step \notin {"failed", "closing", "error"}
                 /\ s.step = "use" => s.held \notin stale' \cup closed'
      PROVE  UpstreamsInv'
  <2>1. call'[r] = s /\ \A p \in Request \ {r} : call'[p] = call[p]
    BY <1>0, <1>q
  <2>2. ASSUME NEW p \in Request, call'[p].step = "assign"
        PROVE  /\ call'[p].held \in Client \ closed'
               /\ call'[p].held # client'
               /\ \A o \in Request \ {p} : call'[o].held # call'[p].held
               /\ call[p].step = "assign" /\ call'[p].held = call[p].held
    <3>1. p # r /\ call'[p] = call[p]
      BY <1>q, <2>1, <2>2
    <3>2. /\ call[p].held \in Client \ closed /\ call[p].held # client
          /\ \A o \in Request \ {p} : call[o].held # call[p].held
      BY <2>2, <3>1 DEF BuiltInv
    <3>3. s.held # call[p].held
      BY <1>0, <1>q, <3>1, <3>2
    <3> QED
      BY <1>q, <2>1, <2>2, <3>1, <3>2, <3>3
  <2>3. ClosedInv'
    BY <1>q, <2>1 DEF ClosedInv
  <2>4. healed => client' \notin stale'
    BY <1>q DEF HealedInv
  <2> QED
    BY <1>0, <1>q, <2>2, <2>3, <2>4, ThreadStep
<1>1. CASE Look(r)
  <2> DEFINE t == IF client = NoClient THEN "build" ELSE "return"
             s == [call[r] EXCEPT !.step = t]
  <2>1. /\ call' = [call EXCEPT ![r] = s] /\ call[r].step = "look"
        /\ UNCHANGED <<client, stale, closed, up, outages>>
    BY <1>1 DEF Look, CallMoves
  <2>2. s \in CallState /\ s.step = t /\ s.held = call[r].held /\ s.held = NoClient
    <3>1. call[r].held = NoClient
      BY <2>1 DEF CallsInv
    <3>2. t \in CallStep
      BY DEF CallStep
    <3>3. /\ [call[r] EXCEPT !.step = t] \in CallState
          /\ [call[r] EXCEPT !.step = t].step = t
          /\ [call[r] EXCEPT !.step = t].held = call[r].held
      <4> HIDE DEF t
      <4> QED
        BY <1>0, <3>2, CallMoved
    <3> QED
      BY <3>1, <3>3
  <2> HIDE DEF s
  <2> QED
    BY <1>q, <2>1, <2>2
<1>2. CASE Assign(r)
  <2> DEFINE s == [call[r] EXCEPT !.step = "return"]
  <2>1. /\ call' = [call EXCEPT ![r] = s] /\ call[r].step = "assign"
        /\ UNCHANGED <<up, outages>> /\ client' = call[r].held
        /\ stale' \subseteq stale /\ closed' \subseteq closed
    BY <1>2, <1>f DEF Assign, CallMoves
  <2>2. s \in CallState /\ s.step = "return" /\ s.held = call[r].held
    BY <1>0, CallMoved DEF CallStep
  <2>3. call'[r] = s /\ \A p \in Request \ {r} : call'[p] = call[p]
    BY <1>0, <2>1
  <2> HIDE DEF s
  <2>4. client' \in Client \ closed' /\ (healed => client' \notin stale')
    BY <2>1 DEF BuiltInv, HealedInv
  <2>5. ASSUME NEW p \in Request, call'[p].step = "assign"
        PROVE  /\ call'[p].held \in Client \ closed'
               /\ call'[p].held # client'
               /\ \A o \in Request \ {p} : call'[o].held # call'[p].held
               /\ call[p].step = "assign" /\ call'[p].held = call[p].held
    <3>1. p # r /\ call'[p] = call[p]
      BY <2>2, <2>3, <2>5
    <3>2. /\ call[p].held \in Client \ closed
          /\ \A o \in Request \ {p} : call[o].held # call[p].held
      BY <2>5, <3>1 DEF BuiltInv
    <3>3. \A o \in Request \ {p} : call'[o].held = call[o].held
      BY <2>2, <2>3
    <3> QED
      BY <2>1, <2>5, <3>1, <3>2, <3>3
  <2>6. ClosedInv'
    BY <2>1, <2>4 DEF ClosedInv
  <2> QED
    BY <1>0, <2>1, <2>2, <2>4, <2>5, <2>6, ThreadStep
<1>3. CASE Return(r)
  <2> DEFINE s == [step |-> IF client = NoClient THEN "failed" ELSE "use", held |-> client]
  <2>1. /\ call' = [call EXCEPT ![r] = s] /\ call[r].step = "return"
        /\ UNCHANGED <<client, up, outages>>
        /\ stale' \subseteq stale /\ closed' \subseteq closed
    BY <1>3, <1>f DEF Return
  <2>2. /\ s \in CallState /\ s.held = client
        /\ s.step = IF client = NoClient THEN "failed" ELSE "use"
    BY <1>0 DEF CallState, CallStep
  <2> HIDE DEF s
  <2>3. req[r].alone => client # NoClient
    BY <2>1 DEF AloneInv
  <2>4. req[r].alone => client \notin closed
    BY <1>d, <1>i, <2>1 DEF ClosedInv
  <2>5. req[r].alone /\ req[r].knew => client \notin stale
    BY DEF HealedInv
  <2> QED
    BY <1>q, <2>1, <2>2, <2>3, <2>4, <2>5
<1>4. CASE Rows(r)
  <2> DEFINE s == [Idle EXCEPT !.step = "rows"]
  <2>1. /\ call' = [call EXCEPT ![r] = s] /\ call[r].step = "use"
        /\ stale' \subseteq stale \ {call[r].held} /\ closed' \subseteq closed
        /\ UNCHANGED <<client, up, outages>>
    BY <1>4, <1>f DEF Rows, CallEnds
  <2>2. s \in CallState /\ s.step = "rows" /\ s.held = NoClient
    BY <1>0, CallMoved DEF CallStep
  <2> HIDE DEF s
  <2>3. req[r].alone => client \notin stale'
    BY <2>1 DEF AloneInv
  <2> QED
    BY <1>q, <2>1, <2>2, <2>3
<1>5. CASE Raise(r)
  <2> DEFINE s == [call[r] EXCEPT !.step = "failed"]
  <2>1. /\ call' = [call EXCEPT ![r] = s] /\ call[r].step = "use"
        /\ UNCHANGED <<client, stale, closed, up, outages>>
        /\ ~up \/ call[r].held \in stale \cup closed \/ Shared(r)
    BY <1>5 DEF Raise, CallMoves
  <2>2. s \in CallState /\ s.step = "failed" /\ s.held = call[r].held
    BY <1>0, CallMoved DEF CallStep
  <2> HIDE DEF s
  <2>3. ~(req[r].alone /\ req[r].knew)
    <3> SUFFICES ASSUME req[r].alone, req[r].knew PROVE FALSE
      OBVIOUS
    <3>1. up /\ call[r].held \notin stale \cup closed
      BY <2>1 DEF AloneInv, HealedInv
    <3>2. ~Shared(r)
      BY <1>d, <1>i, <2>1, UpstreamsAssumption DEF Shared
    <3> QED
      BY <2>1, <3>1, <3>2
  <2> QED
    BY <1>q, <2>1, <2>2, <2>3
<1>6. CASE Close(r)
  <2>0. call[r].step = "failed" /\ LoopFree /\ UNCHANGED <<client, up, outages>>
    BY <1>6 DEF Close
  <2>1. ~(req[r].alone /\ req[r].knew)
    BY <2>0 DEF HealedInv
  <2>2. CASE client = NoClient
    <3> DEFINE s == [Idle EXCEPT !.step = "error"]
    <3>1. /\ call' = [call EXCEPT ![r] = s]
          /\ stale' \subseteq stale /\ closed' \subseteq closed
      BY <1>6, <1>f, <2>2 DEF Close, CallEnds
    <3>2. s \in CallState /\ s.step = "error" /\ s.held = NoClient
      BY <1>0, CallMoved DEF CallStep
    <3> HIDE DEF s
    <3> QED
      BY <1>q, <2>0, <2>1, <2>2, <3>1, <3>2
  <2>3. CASE client # NoClient
    <3> DEFINE s == [call[r] EXCEPT !.step = "closing"]
    <3>1. call' = [call EXCEPT ![r] = s] /\ closed' = closed \cup {client} /\ stale' = stale
      BY <1>6, <2>3 DEF Close, CallMoves
    <3>2. s \in CallState /\ s.step = "closing" /\ s.held = call[r].held
      BY <1>0, CallMoved DEF CallStep
    <3>3. call'[r] = s /\ \A p \in Request \ {r} : call'[p] = call[p]
      BY <1>0, <3>1
    <3> HIDE DEF s
    <3>4. ASSUME NEW p \in Request, call'[p].step = "assign"
          PROVE  /\ call'[p].held \in Client \ closed'
                 /\ call'[p].held # client'
                 /\ \A o \in Request \ {p} : call'[o].held # call'[p].held
                 /\ call[p].step = "assign" /\ call'[p].held = call[p].held
      <4>1. p # r /\ call'[p] = call[p]
        BY <3>2, <3>3, <3>4
      <4>2. /\ call[p].held \in Client \ closed /\ call[p].held # client
            /\ \A o \in Request \ {p} : call[o].held # call[p].held
        BY <3>4, <4>1 DEF BuiltInv
      <4>3. \A o \in Request : call'[o].held = call[o].held
        BY <3>2, <3>3
      <4> QED
        BY <2>0, <3>1, <3>4, <4>1, <4>2, <4>3
    <3>5. ClosedInv'
      BY <3>2, <3>3 DEF ClosedInv
    <3>6. healed => client' \notin stale'
      BY <2>0, <3>1 DEF HealedInv
    <3>7. closed' \subseteq Client
      BY <1>0, <2>3, <3>1
    <3> QED
      BY <1>0, <2>0, <2>1, <3>1, <3>2, <3>4, <3>5, <3>6, <3>7, ThreadStep
  <2> QED
    BY <2>2, <2>3
<1>7. CASE Forget(r)
  <2> DEFINE s == [Idle EXCEPT !.step = "error"]
  <2>1. /\ call' = [call EXCEPT ![r] = s] /\ call[r].step = "closing" /\ client' = NoClient
        /\ UNCHANGED <<up, outages>> /\ stale' \subseteq stale /\ closed' \subseteq closed
    BY <1>7, <1>f DEF Forget, CallEnds
  <2>2. s \in CallState /\ s.step = "error" /\ s.held = NoClient
    BY <1>0, CallMoved DEF CallStep
  <2>3. call'[r] = s /\ \A p \in Request \ {r} : call'[p] = call[p]
    BY <1>0, <2>1
  <2> HIDE DEF s
  <2>4. ~(req[r].alone /\ req[r].knew)
    BY <2>1 DEF HealedInv
  <2>5. ASSUME NEW p \in Request, call'[p].step = "assign"
        PROVE  /\ call'[p].held \in Client \ closed'
               /\ call'[p].held # client'
               /\ \A o \in Request \ {p} : call'[o].held # call'[p].held
               /\ call[p].step = "assign" /\ call'[p].held = call[p].held
    <3>1. p # r /\ call'[p] = call[p]
      BY <2>2, <2>3, <2>5
    <3>2. /\ call[p].held \in Client \ closed
          /\ \A o \in Request \ {p} : call[o].held # call[p].held
      BY <2>5, <3>1 DEF BuiltInv
    <3> QED
      BY <1>0, <2>1, <2>2, <2>3, <2>5, <3>1, <3>2
  <2>6. ClosedInv' /\ client' \notin stale'
    BY <1>0, <2>1 DEF ClosedInv
  <2> QED
    BY <1>0, <2>1, <2>2, <2>4, <2>5, <2>6, ThreadStep
<1>8. CASE Build(r)
  <2> DEFINE new == CHOOSE x \in Client : x \notin InUse
  <2>0. call[r].step = "build" /\ UNCHANGED <<client, up, outages>> /\ call[r].held = NoClient
    BY <1>8 DEF Build, CallsInv
  <2>1. new \in Client /\ new \notin InUse
    BY <2>0, FreeClient
  <2>2. new # client /\ \A o \in Request : call[o].held # new
    BY <1>0, <2>1, UpstreamsAssumption DEF InUse
  <2>3. CASE up
    <3> DEFINE s == [step |-> "assign", held |-> new]
    <3>1. /\ call' = [call EXCEPT ![r] = s]
          /\ stale' = stale \ {new} /\ closed' = closed \ {new}
      BY <1>8, <2>3 DEF Build
    <3> HIDE DEF new
    <3>2. s \in CallState /\ s.step = "assign" /\ s.held = new
      BY <2>1 DEF CallState, CallStep
    <3>3. call'[r] = s /\ \A p \in Request \ {r} : call'[p] = call[p]
      BY <1>0, <3>1
    <3> HIDE DEF s
    <3>4. ASSUME NEW p \in Request, call'[p].step = "assign"
          PROVE  /\ call'[p].held \in Client \ closed'
                 /\ call'[p].held # client'
                 /\ \A o \in Request \ {p} : call'[o].held # call'[p].held
                 /\ \/ call[p].step = "assign" /\ call'[p].held = call[p].held
                    \/ call'[p].held \notin stale'
      <4>1. CASE p = r
        BY <2>0, <2>1, <2>2, <3>1, <3>2, <3>3, <4>1
      <4>2. CASE p # r
        <5>1. call'[p] = call[p]
          BY <3>3, <4>2
        <5>2. /\ call[p].held \in Client \ closed /\ call[p].held # client
              /\ \A o \in Request \ {p} : call[o].held # call[p].held
          BY <3>4, <5>1 DEF BuiltInv
        <5> QED
          BY <2>0, <2>2, <3>1, <3>2, <3>3, <3>4, <4>2, <5>1, <5>2
      <4> QED
        BY <4>1, <4>2
    <3>5. ClosedInv'
      BY <2>0, <3>1, <3>2, <3>3 DEF ClosedInv
    <3>6. healed => client' \notin stale'
      BY <2>0, <3>1 DEF HealedInv
    <3>7. stale' \subseteq stale /\ closed' \subseteq Client
      BY <1>0, <3>1
    <3> QED
      BY <1>0, <2>0, <3>1, <3>2, <3>4, <3>5, <3>6, <3>7, ThreadStep
  <2>4. CASE ~up
    <3> DEFINE s == [call[r] EXCEPT !.step = "failed"]
    <3>1. call' = [call EXCEPT ![r] = s] /\ UNCHANGED <<stale, closed>>
      BY <1>8, <2>4 DEF Build, CallMoves
    <3>2. s \in CallState /\ s.step = "failed" /\ s.held = call[r].held
      BY <1>0, CallMoved DEF CallStep
    <3> HIDE DEF s
    <3>3. ~req[r].alone
      BY <2>4 DEF AloneInv
    <3> QED
      BY <1>q, <2>0, <3>1, <3>2, <3>3
  <2> QED
    BY <2>3, <2>4
<1> QED
  BY <1>0, <1>1, <1>2, <1>3, <1>4, <1>5, <1>6, <1>7, <1>8 DEF Run

\* A rejected query leaves nobody alone.
LEMMA RejectKeeps ==
  ASSUME UpstreamsInv, NEW r \in Request, Reject(r), UNCHANGED <<config, healed>>,
         req' = [req EXCEPT ![r].alone = FALSE]
  PROVE  UpstreamsInv'
<1> USE DEF UpstreamsInv
<1>0. /\ call \in [Request -> CallState] /\ req \in [Request -> ReqState]
      /\ UNCHANGED <<client, stale, closed, up, outages>>
      /\ call[r].step \in {"build", "use"} /\ "failed" \in CallStep
  BY UpstreamsAssumption DEF TypeOK, ChTypeOK, CallState, Reject, CallStep
<1>1. req[r].step = "query" /\ \A p \in Request \ {r} : ~req[p].alone
  BY <1>0, InCall
<1>2. /\ call' \in [Request -> CallState]
      /\ call'[r].step = "failed" /\ call'[r].held = call[r].held
      /\ \A p \in Request \ {r} : call'[p] = call[p]
  <2>1. call' = [call EXCEPT ![r] = [call[r] EXCEPT !.step = "failed"]]
    BY <1>0 DEF Reject, CallMoves
  <2>2. /\ [call[r] EXCEPT !.step = "failed"] \in CallState
        /\ [call[r] EXCEPT !.step = "failed"].step = "failed"
        /\ [call[r] EXCEPT !.step = "failed"].held = call[r].held
    BY <1>0, CallMoved
  <2> QED
    BY <1>0, <2>1, <2>2
<1>3. /\ req' \in [Request -> ReqState] /\ req'[r].step = req[r].step /\ ~req'[r].alone
      /\ \A p \in Request \ {r} : req'[p] = req[p]
  <2> DEFINE u == req[r]
  <2>1. u \in ReqState /\ req' = [req EXCEPT ![r] = [u EXCEPT !.alone = FALSE]]
    BY <1>0
  <2> HIDE DEF u
  <2>2. /\ [u EXCEPT !.alone = FALSE] \in ReqState
        /\ [u EXCEPT !.alone = FALSE].step = u.step /\ ~[u EXCEPT !.alone = FALSE].alone
    BY <2>1 DEF ReqState
  <2>3. req' \in [Request -> ReqState] /\ req'[r].step = u.step /\ ~req'[r].alone
    BY <1>0, <2>1, <2>2
  <2> QED
    BY <1>0, <2>1, <2>3 DEF u
<1>4. TypeOK'
  BY <1>0, <1>2, <1>3, UpstreamsAssumption DEF TypeOK, ChTypeOK, CallState
<1>5. CallsInv'
  BY <1>1, <1>2, <1>3 DEF CallsInv, InFlight
<1>6. BuiltInv'
  <2>1. \A p \in Request : call'[p].held = call[p].held
    BY <1>2
  <2>2. \A p \in Request : call'[p].step = "assign" => call[p].step = "assign"
    BY <1>2
  <2> QED
    BY <1>0, <2>1, <2>2 DEF BuiltInv
<1>7. ClosedInv'
  BY <1>0, <1>2 DEF ClosedInv
<1>8. \A p \in Request : ~req'[p].alone
  BY <1>1, <1>3
<1>9. AloneInv' /\ HealedInv'
  <2>1. healed => \A p \in Request : call'[p].step = "assign" => call'[p].held \notin stale
    BY <1>2 DEF HealedInv
  <2> QED
    BY <1>0, <1>8, <2>1 DEF AloneInv, HealedInv
<1> QED
  BY <1>4, <1>5, <1>6, <1>7, <1>9

LEMMA ThreadKeeps ==
  ASSUME UpstreamsInv, NEW r \in Request, Thread(r)
  PROVE  UpstreamsInv'
BY RunKeeps, RejectKeeps DEF Thread

-----------------------------------------------------------------------------
(* The event loop. *)

\* What each step of a handler has to keep.
LEMMA ServeStep ==
  ASSUME UpstreamsInv, NEW r \in Request, InFlight(r), LoopFree, KeepsClient,
         NEW q \in ReqState, req' = [req EXCEPT ![r] = q],
         NEW s \in CallState, call' = [call EXCEPT ![r] = s],
         s.step \in {"idle", "look"}, s.held = NoClient, q.step # "query" => s = Idle,
         q.alone => /\ req[r].alone /\ q.knew = req[r].knew
                    /\ q.step \notin {"new"} \cup Ended,
         config' \in BOOLEAN,
         \/ healed' = healed
         \/ /\ healed' = TRUE /\ req[r].alone /\ ~q.alone
            /\ call[r].step \in {"rows", "error"}
  PROVE  UpstreamsInv'
<1> USE DEF UpstreamsInv
<1>0. /\ call \in [Request -> CallState] /\ req \in [Request -> ReqState]
      /\ client \in Client \cup {NoClient} /\ stale \subseteq Client /\ closed \subseteq Client
      /\ NoClient \notin Client /\ UNCHANGED <<client, stale, closed, up, outages>>
  BY UpstreamsAssumption, ClientAssumption DEF TypeOK, ChTypeOK, CallState, KeepsClient
<1>1. /\ call' \in [Request -> CallState] /\ call'[r] = s
      /\ \A p \in Request \ {r} : call'[p] = call[p]
      /\ req' \in [Request -> ReqState] /\ req'[r] = q
      /\ \A p \in Request \ {r} : req'[p] = req[p]
  BY <1>0
<1>2. \A p \in Request \ {r} : ~req[p].alone
  BY DEF AloneInv
<1>3. TypeOK'
  <2>1. healed' \in BOOLEAN
    BY DEF TypeOK
  <2> QED
    BY <1>0, <1>1, <2>1, UpstreamsAssumption DEF TypeOK, ChTypeOK, CallState
<1>4. CallsInv'
  BY <1>1 DEF CallsInv, InFlight
<1>5. BuiltInv'
  <2> SUFFICES ASSUME NEW p \in Request, call'[p].step = "assign"
               PROVE  /\ call'[p].held \in Client \ closed'
                      /\ call'[p].held # client'
                      /\ \A o \in Request \ {p} : call'[o].held # call'[p].held
    BY DEF BuiltInv
  <2>1. p # r /\ call'[p] = call[p]
    BY <1>1
  <2>2. /\ call[p].held \in Client \ closed /\ call[p].held # client
        /\ \A o \in Request \ {p} : call[o].held # call[p].held
    BY <2>1 DEF BuiltInv
  <2> QED
    BY <1>0, <1>1, <2>1, <2>2
<1>6. ClosedInv'
  BY <1>0, UpstreamsAssumption DEF ClosedInv, LoopFree
<1>7. AloneInv'
  <2> SUFFICES ASSUME NEW p \in Request, req'[p].alone
               PROVE  /\ up'
                      /\ \A o \in Request \ {p} : ~InFlight(o)'
                      /\ call'[p].step = "use" => call'[p].held = client'
                      /\ call'[p].step = "rows" => client' \notin stale'
                      /\ call'[p].step = "error" => client' = NoClient
                      /\ call'[p].step = "return" => client' # NoClient
    BY DEF AloneInv
  <2>1. p = r /\ req[r].alone
    BY <1>1, <1>2
  <2>2. up /\ \A o \in Request \ {r} : ~InFlight(o)
    BY <2>1 DEF AloneInv
  <2> QED
    BY <1>0, <1>1, <2>1, <2>2 DEF InFlight
<1>8. HealedInv'
  <2>1. CASE healed' = healed
    <3>1. healed' => /\ up' /\ client' \notin stale'
                     /\ \A p \in Request : call'[p].step = "assign" => call'[p].held \notin stale'
      BY <1>0, <1>1, <2>1 DEF HealedInv
    <3>2. \A p \in Request : req'[p].alone /\ req'[p].knew =>
             /\ healed'
             /\ call'[p].step \notin {"failed", "closing", "error"}
             /\ call'[p].step = "use" => call'[p].held \notin stale' \cup closed'
      BY <1>1, <1>2, <2>1 DEF HealedInv
    <3> QED
      BY <3>1, <3>2 DEF HealedInv
  <2>2. CASE /\ healed' = TRUE /\ req[r].alone /\ ~q.alone
             /\ call[r].step \in {"rows", "error"}
    <3>1. up /\ client \notin stale
      BY <1>0, <2>2 DEF AloneInv
    <3>2. \A p \in Request : call'[p].step # "assign"
      BY <1>1, <2>2, InCall, IdleIsState
    <3>3. \A p \in Request : ~req'[p].alone
      BY <1>1, <1>2, <2>2
    <3> QED
      BY <1>0, <3>1, <3>2, <3>3, <2>2 DEF HealedInv
  <2> QED
    BY <2>1, <2>2
<1> QED
  BY <1>3, <1>4, <1>5, <1>6, <1>7, <1>8

LEMMA EndedState ==
  ASSUME NEW answer \in Ended, NEW u \in ReqState
  PROVE  /\ [NewReq EXCEPT !.step = answer, !.dag = u.dag] \in ReqState
         /\ [NewReq EXCEPT !.step = answer, !.dag = u.dag].step = answer
         /\ ~[NewReq EXCEPT !.step = answer, !.dag = u.dag].alone
         /\ ~[NewReq EXCEPT !.step = answer, !.dag = u.dag].adds
<1> DEFINE d == u.dag
<1>1. d \in {"none", "sent", "started", "refused"}
  BY DEF ReqState
<1> HIDE DEF d
<1>2. \A q \in ReqState : /\ [q EXCEPT !.step = answer, !.dag = d] \in ReqState
                          /\ [q EXCEPT !.step = answer, !.dag = d].step = answer
                          /\ [q EXCEPT !.step = answer, !.dag = d].alone = q.alone
                          /\ [q EXCEPT !.step = answer, !.dag = d].adds = q.adds
  BY <1>1 DEF ReqState
<1>3. NewReq \in ReqState /\ ~NewReq.alone /\ ~NewReq.adds
  BY NewReqIsReq DEF NewReq
<1> QED
  BY <1>2, <1>3 DEF d

\* A request ends.
LEMMA EndsKeeps ==
  ASSUME UpstreamsInv, NEW r \in Request, InFlight(r), LoopFree, KeepsClient,
         NEW answer \in Ended, Ends(r, answer),
         \/ healed' = healed
         \/ Heals(r) /\ call[r].step \in {"rows", "error"}
  PROVE  UpstreamsInv'
<1> DEFINE q == [NewReq EXCEPT !.step = answer, !.dag = req[r].dag]
<1>1. /\ req' = [req EXCEPT ![r] = q] /\ call' = [call EXCEPT ![r] = Idle]
      /\ config' = (config \/ req[r].adds)
  BY DEF Ends
<1>2. q \in ReqState /\ q.step = answer /\ ~q.alone
  <2>1. req[r] \in ReqState
    BY DEF UpstreamsInv, TypeOK
  <2> QED
    BY <2>1, EndedState
<1>3. config' \in BOOLEAN
  BY <1>1
<1>4. \/ healed' = healed
      \/ /\ healed' = TRUE /\ req[r].alone /\ ~q.alone
         /\ call[r].step \in {"rows", "error"}
  <2>1. req[r].alone \in BOOLEAN /\ healed \in BOOLEAN
    BY DEF UpstreamsInv, TypeOK, ReqState
  <2> HIDE DEF q
  <2> QED
    BY <1>2, <2>1 DEF Heals
<1> HIDE DEF q
<1> QED
  BY <1>1, <1>2, <1>3, <1>4, IdleIsState, ServeStep

\* A request goes on.
LEMMA AsksKeeps ==
  ASSUME UpstreamsInv, NEW r \in Request, InFlight(r), LoopFree, KeepsClient,
         NEW t \in {"config", "insert", "query", "post"}, NEW l \in 1 .. 3, Asks(r, t, l),
         UNCHANGED <<config, healed>>
  PROVE  UpstreamsInv'
<1> DEFINE d == IF t = "post" /\ AirflowEnabled THEN "sent" ELSE req[r].dag
           q == [req[r] EXCEPT !.step = t, !.left = l, !.dag = d]
           s == IF t = "query" THEN [Idle EXCEPT !.step = "look"] ELSE Idle
<1>0. req \in [Request -> ReqState] /\ config \in BOOLEAN
  BY DEF UpstreamsInv, TypeOK
<1>1. req' = [req EXCEPT ![r] = q] /\ call' = [call EXCEPT ![r] = s]
  BY <1>0 DEF Asks
<1>2. q \in ReqState /\ q.step = t /\ q.alone = req[r].alone /\ q.knew = req[r].knew
  <2> DEFINE u == req[r]
  <2>1. u \in ReqState /\ d \in {u.dag, "sent"}
    BY <1>0
  <2>2. q = [u EXCEPT !.step = t, !.left = l, !.dag = d]
    OBVIOUS
  <2> HIDE DEF d, u, q
  <2>3. /\ q \in ReqState /\ q.step = t /\ q.alone = u.alone /\ q.knew = u.knew
    BY <2>1, <2>2 DEF ReqState
  <2> QED
    BY <2>3 DEF u
<1>3. /\ s \in CallState /\ s.step \in {"idle", "look"} /\ s.held = NoClient
      /\ t # "query" => s = Idle
  BY IdleIsState, CallMoved DEF CallStep
<1> HIDE DEF q, s
<1>4. t \notin {"new"} \cup Ended
  BY DEF Ended
<1> QED
  BY <1>0, <1>1, <1>2, <1>3, <1>4, ServeStep

\* A configuration that is inserted, and a probe that found no database, go on
\* with the query, or with the read of the row.
LEMMA GoesOnState ==
  ASSUME NEW q \in ReqState, NEW t \in {"config", "query"}
  PROVE  /\ [q EXCEPT !.adds = TRUE, !.step = t] \in ReqState
         /\ [q EXCEPT !.adds = TRUE, !.step = t].step = t
         /\ [q EXCEPT !.adds = TRUE, !.step = t].alone = q.alone
         /\ [q EXCEPT !.adds = TRUE, !.step = t].knew = q.knew
         /\ [q EXCEPT !.step = t, !.db = FALSE] \in ReqState
         /\ [q EXCEPT !.step = t, !.db = FALSE].step = t
         /\ [q EXCEPT !.step = t, !.db = FALSE].alone = q.alone
         /\ [q EXCEPT !.step = t, !.db = FALSE].knew = q.knew
BY DEF ReqState

LEMMA ServeKeeps ==
  ASSUME UpstreamsInv, NEW r \in Request, Serve(r)
  PROVE  UpstreamsInv'
<1>0. /\ req \in [Request -> ReqState] /\ req[r] \in ReqState /\ config \in BOOLEAN
      /\ call \in [Request -> CallState]
      /\ req[r].step # "query" => call[r] = Idle
  BY UpstreamsAssumption
     DEF UpstreamsInv, TypeOK, ChTypeOK, CallState, CallsInv
<1>n. \A n \in {1, 2, 3} : n \in 1 .. 3
  OBVIOUS
<1>l. /\ Idle \in CallState /\ [Idle EXCEPT !.step = "look"] \in CallState
      /\ Idle.step = "idle" /\ [Idle EXCEPT !.step = "look"].step = "look"
      /\ Idle.held = NoClient /\ [Idle EXCEPT !.step = "look"].held = NoClient
  BY IdleIsState, CallMoved DEF CallStep
<1>1. CASE Connect(r)
  <2>1. /\ LoopFree /\ KeepsClient /\ UNCHANGED <<config, healed>> /\ req[r].step = "connect"
    BY <1>1 DEF Connect
  <2>2. InFlight(r)
    BY <2>1 DEF InFlight, Ended
  <2>3. \/ \E n \in {1, 3} : Asks(r, "config", n)
        \/ Asks(r, "post", 1) \/ Asks(r, "query", 1)
    BY <1>1 DEF Connect, Queries
  <2> QED
    BY <1>n, <2>1, <2>2, <2>3, AsksKeeps
<1>2. CASE PoolTimeout(r)
  <2>1. /\ LoopFree /\ KeepsClient /\ healed' = healed /\ req[r].step = "connect"
    BY <1>2 DEF PoolTimeout
  <2>2. InFlight(r)
    BY <2>1 DEF InFlight, Ended
  <2>3. CASE Ends(r, "failed")
    BY <2>1, <2>2, <2>3, EndsKeeps DEF Ended
  <2>4. CASE ~Ends(r, "failed")
    <3> DEFINE q == [req[r] EXCEPT !.step = "query", !.db = FALSE]
               s == [Idle EXCEPT !.step = "look"]
    <3>1. req' = [req EXCEPT ![r] = q] /\ config' = config
      BY <1>0, <1>2, <2>4 DEF PoolTimeout
    <3>2. call' = [call EXCEPT ![r] = s]
      BY <1>0, <1>2, <2>1, <2>4 DEF PoolTimeout
    <3>3. q \in ReqState /\ q.step = "query" /\ q.alone = req[r].alone /\ q.knew = req[r].knew
      BY <1>0, GoesOnState
    <3> HIDE DEF q, s
    <3> QED
      BY <1>0, <1>l, <2>1, <2>2, <3>1, <3>2, <3>3, ServeStep DEF s, Ended
  <2> QED
    BY <2>3, <2>4
<1>3. CASE ReadConfig(r)
  <2>1. /\ LoopFree /\ KeepsClient /\ healed' = healed /\ req[r].step = "config"
    BY <1>3 DEF ReadConfig
  <2>2. InFlight(r)
    BY <2>1 DEF InFlight, Ended
  <2>3. req[r].left \in 1 .. 3
    BY <1>0 DEF ReqState
  <2>4. \/ Asks(r, "query", 3) /\ UNCHANGED config
        \/ Ends(r, "live")
        \/ Asks(r, "insert", req[r].left) /\ UNCHANGED config
    BY <1>3 DEF ReadConfig
  <2>5. CASE Ends(r, "live")
    BY <2>1, <2>2, <2>5, EndsKeeps DEF Ended
  <2>6. CASE Asks(r, "query", 3) /\ UNCHANGED config
    BY <1>n, <2>1, <2>2, <2>6, AsksKeeps
  <2>7. CASE Asks(r, "insert", req[r].left) /\ UNCHANGED config
    BY <2>1, <2>2, <2>3, <2>7, AsksKeeps
  <2> QED
    BY <2>4, <2>5, <2>6, <2>7
<1>4. CASE AddConfig(r)
  <2>1. /\ LoopFree /\ KeepsClient /\ healed' = healed /\ req[r].step = "insert"
    BY <1>4 DEF AddConfig
  <2>2. InFlight(r)
    BY <2>1 DEF InFlight, Ended
  <2>3. CASE Ends(r, "failed")
    BY <2>1, <2>2, <2>3, EndsKeeps DEF Ended
  <2>4. CASE ~Ends(r, "failed")
    <3> DEFINE t == IF req[r].kind = "kpis" THEN "query" ELSE "config"
               q == [req[r] EXCEPT !.adds = TRUE, !.step = t]
               s == IF req[r].kind = "kpis" THEN [Idle EXCEPT !.step = "look"] ELSE Idle
    <3>1. req' = [req EXCEPT ![r] = q] /\ config' = config
      BY <1>0, <1>4, <2>4 DEF AddConfig
    <3>2. call' = [call EXCEPT ![r] = s]
      <4>1. call' = [call EXCEPT ![r] = [call[r] EXCEPT !.step =
                        IF req[r].kind = "kpis" THEN "look" ELSE call[r].step]]
        BY <1>0, <1>4, <2>4 DEF AddConfig
      <4>2. call[r] = Idle
        BY <1>0, <2>1
      <4>3. [Idle EXCEPT !.step = Idle.step] = Idle
        BY DEF Idle
      <4> QED
        BY <4>1, <4>2, <4>3
    <3>3. q \in ReqState /\ q.step = t /\ q.alone = req[r].alone /\ q.knew = req[r].knew
      <4> DEFINE u == req[r]
      <4>1. u \in ReqState /\ q = [u EXCEPT !.adds = TRUE, !.step = t]
            /\ req[r].alone = u.alone /\ req[r].knew = u.knew /\ t \in {"config", "query"}
        BY <1>0
      <4> HIDE DEF u, q, t
      <4> QED
        BY <4>1 DEF ReqState
    <3>4. /\ s \in CallState /\ s.step \in {"idle", "look"} /\ s.held = NoClient
          /\ t # "query" => s = Idle
      BY <1>l
    <3>5. t \notin {"new"} \cup Ended
      BY DEF Ended
    <3> HIDE DEF q, s, t
    <3> QED
      BY <1>0, <2>1, <2>2, <3>1, <3>2, <3>3, <3>4, <3>5, ServeStep
  <2> QED
    BY <2>3, <2>4
<1>5. CASE AnswerConfig(r)
  <2>1. /\ LoopFree /\ KeepsClient /\ healed' = healed /\ req[r].step = "config"
        /\ Ends(r, "live")
    BY <1>5 DEF AnswerConfig
  <2> QED
    BY <2>1, EndsKeeps DEF InFlight, Ended
<1>6. CASE QueryReturns(r)
  <2>1. /\ LoopFree /\ KeepsClient /\ req[r].step = "query" /\ call[r].step = "rows"
    BY <1>6 DEF QueryReturns
  <2>2. InFlight(r)
    BY <2>1 DEF InFlight, Ended
  <2>3. CASE /\ req[r].left > 1 /\ Asks(r, "query", req[r].left - 1)
             /\ UNCHANGED <<config, healed>>
    <3>1. req[r].left - 1 \in 1 .. 3
      BY <1>0, <2>3 DEF ReqState
    <3> QED
      BY <2>1, <2>2, <2>3, <3>1, AsksKeeps
  <2>4. CASE \E answer \in Ended : Heals(r) /\ Ends(r, answer)
    BY <2>1, <2>2, <2>4, EndsKeeps
  <2>5. (IF req[r].kind = "ready" THEN ProbeAnswer(r) ELSE "live") \in Ended
    BY DEF ProbeAnswer, Ended
  <2> QED
    BY <1>6, <2>3, <2>4, <2>5 DEF QueryReturns
<1>7. CASE QueryFails(r)
  <2>1. /\ LoopFree /\ KeepsClient /\ req[r].step = "query" /\ call[r].step = "error"
        /\ Heals(r)
    BY <1>7 DEF QueryFails
  <2>2. InFlight(r)
    BY <2>1 DEF InFlight, Ended
  <2>3. \E answer \in Ended : Ends(r, answer)
    <3>1. ProbeAnswer(r) \in Ended /\ "degraded" \in Ended
      BY DEF ProbeAnswer, Ended
    <3> QED
      BY <1>7, <3>1 DEF QueryFails, FallsBack
  <2> QED
    BY <2>1, <2>2, <2>3, EndsKeeps
<1>8. CASE Triggered(r) \/ Skipped(r)
  <2>1. /\ LoopFree /\ KeepsClient /\ req[r].step = "post" /\ healed' = healed
    BY <1>8 DEF Triggered, Skipped
  <2>2. \E answer \in Ended : Ends(r, answer)
    BY <1>8 DEF Triggered, Skipped, Ended
  <2>3. InFlight(r)
    BY <2>1 DEF InFlight, Ended
  <2> QED
    BY <2>1, <2>2, <2>3, EndsKeeps
<1> QED
  BY <1>1, <1>2, <1>3, <1>4, <1>5, <1>6, <1>7, <1>8 DEF Serve

\* Steps that change neither the calls nor what the invariant says of requests.
LEMMA NothingMoves ==
  ASSUME UpstreamsInv, UNCHANGED <<client, stale, closed, call>>,
         up' \in BOOLEAN, up => up', outages' \in 0 .. MaxOutages,
         UNCHANGED <<config, healed>>, req' \in [Request -> ReqState],
         \A p \in Request : /\ req'[p].step = req[p].step
                            /\ req'[p].alone = req[p].alone
                            /\ req'[p].knew = req[p].knew
  PROVE  UpstreamsInv'
<1> USE DEF UpstreamsInv
<1>1. TypeOK'
  BY DEF TypeOK, ChTypeOK
<1>2. CallsInv' /\ BuiltInv' /\ ClosedInv'
  BY DEF CallsInv, BuiltInv, ClosedInv, InFlight
<1>3. AloneInv'
  BY DEF AloneInv, InFlight
<1>4. HealedInv'
  BY DEF HealedInv
<1> QED
  BY <1>1, <1>2, <1>3, <1>4

LEMMA DagState ==
  ASSUME NEW q \in ReqState, NEW d \in {"started", "refused"}
  PROVE  /\ [q EXCEPT !.dag = d] \in ReqState
         /\ [q EXCEPT !.dag = d].step = q.step
         /\ [q EXCEPT !.dag = d].alone = q.alone
         /\ [q EXCEPT !.dag = d].knew = q.knew
BY DEF ReqState

LEMMA ActsKeeps ==
  ASSUME UpstreamsInv, NEW r \in Request, AirflowActs(r)
  PROVE  UpstreamsInv'
<1>1. req \in [Request -> ReqState] /\ up \in BOOLEAN /\ outages \in 0 .. MaxOutages
  BY DEF UpstreamsInv, TypeOK, ChTypeOK
<1>2. PICK d \in {"started", "refused"} : req' = [req EXCEPT ![r] = [req[r] EXCEPT !.dag = d]]
  BY <1>1 DEF AirflowActs
<1>3. \A p \in Request : /\ req'[p] \in ReqState
                         /\ req'[p].step = req[p].step
                         /\ req'[p].alone = req[p].alone
                         /\ req'[p].knew = req[p].knew
  BY <1>1, <1>2, DagState
<1>4. req' \in [Request -> ReqState]
  BY <1>1, <1>2, <1>3
<1> QED
  BY <1>1, <1>3, <1>4, NothingMoves DEF AirflowActs, chVars

\* Who comes in while others are there is not alone, and they no longer.
LEMMA ArriveKeeps ==
  ASSUME UpstreamsInv, NEW r \in Request, Arrive(r)
  PROVE  UpstreamsInv'
<1> USE DEF UpstreamsInv
<1> DEFINE a == up /\ \A p \in Request : ~InFlight(p)
<1>0. /\ req \in [Request -> ReqState] /\ healed \in BOOLEAN /\ a \in BOOLEAN
      /\ UNCHANGED <<client, stale, closed, up, outages, call, config, healed>>
      /\ req[r].step = "new" /\ call[r] = Idle
  BY DEF TypeOK, Arrive, chVars, CallsInv
<1>1. /\ req' = [q \in Request |->
           IF q = r THEN [req[r] EXCEPT !.step = "connect", !.knew = healed, !.alone = a]
           ELSE IF InFlight(q) THEN [req[q] EXCEPT !.alone = FALSE] ELSE req[q]]
  BY DEF Arrive
<1>2. /\ req'[r].step = "connect" /\ req'[r].alone = a /\ req'[r].knew = healed
      /\ req'[r] \in ReqState
  <2> DEFINE u == req[r]
  <2>1. req'[r] = [u EXCEPT !.step = "connect", !.knew = healed, !.alone = a]
    BY <1>1
  <2>2. u \in ReqState
    BY <1>0
  <2> HIDE DEF a, u
  <2> QED
    BY <1>0, <2>1, <2>2 DEF ReqState
<1>3. \A p \in Request \ {r} : /\ req'[p].step = req[p].step /\ ~req'[p].alone
                               /\ req'[p] \in ReqState
  <2> SUFFICES ASSUME NEW p \in Request \ {r}
               PROVE  /\ req'[p].step = req[p].step /\ ~req'[p].alone
                      /\ req'[p] \in ReqState
    OBVIOUS
  <2>1. CASE InFlight(p)
    <3> DEFINE u == req[p]
    <3>1. req'[p] = [u EXCEPT !.alone = FALSE]
      BY <1>1, <2>1
    <3>2. u \in ReqState /\ req[p].step = u.step
      BY <1>0
    <3> HIDE DEF u
    <3> QED
      BY <3>1, <3>2 DEF ReqState
  <2>2. CASE ~InFlight(p)
    <3>1. req'[p] = req[p]
      BY <1>1, <2>2
    <3> QED
      BY <1>0, <2>2, <3>1 DEF CallsInv
  <2> QED
    BY <2>1, <2>2
<1>4. req' \in [Request -> ReqState]
  BY <1>1, <1>2, <1>3
<1>5. TypeOK'
  BY <1>0, <1>4 DEF TypeOK, ChTypeOK
<1>6. CallsInv'
  BY <1>0, <1>2, <1>3 DEF CallsInv, InFlight, Ended
<1>7. BuiltInv' /\ ClosedInv'
  BY <1>0 DEF BuiltInv, ClosedInv
<1>8. AloneInv'
  BY <1>0, <1>2, <1>3, IdleIsState DEF AloneInv, InFlight
<1>9. HealedInv'
  BY <1>0, <1>2, <1>3, IdleIsState DEF HealedInv
<1> QED
  BY <1>5, <1>6, <1>7, <1>8, <1>9

\* An outage begins: nobody is alone with a server that answers.
LEMMA AwayKeeps ==
  ASSUME UpstreamsInv, GoAway, healed' = FALSE, config' = config,
         req' = [r \in Request |-> [req[r] EXCEPT !.alone = @ /\ ~InFlight(r)]]
  PROVE  UpstreamsInv'
<1> USE DEF UpstreamsInv
<1>1. /\ req \in [Request -> ReqState] /\ outages' \in 0 .. MaxOutages
      /\ UNCHANGED <<client, closed, call>> /\ up' = FALSE /\ stale' = InUse
  BY ClientAssumption DEF TypeOK, ChTypeOK, GoAway
<1>2. \A p \in Request : /\ req'[p] \in ReqState /\ req'[p].step = req[p].step
                         /\ ~req'[p].alone
  <2> SUFFICES ASSUME NEW p \in Request
               PROVE  /\ req'[p] \in ReqState /\ req'[p].step = req[p].step
                      /\ ~req'[p].alone
    OBVIOUS
  <2>1. ~(req[p].alone /\ ~InFlight(p))
    BY DEF CallsInv
  <2> DEFINE u == req[p]
  <2>2. req'[p] = [u EXCEPT !.alone = FALSE]
    BY <2>1
  <2>3. u \in ReqState /\ req[p].step = u.step
    BY <1>1
  <2> HIDE DEF u
  <2> QED
    BY <2>2, <2>3 DEF ReqState
<1>3. req' \in [Request -> ReqState]
  BY <1>2
<1>4. InUse \subseteq Client
  BY UpstreamsAssumption DEF InUse, TypeOK, ChTypeOK
<1>5. TypeOK'
  BY <1>1, <1>3, <1>4 DEF TypeOK, ChTypeOK
<1>6. CallsInv' /\ BuiltInv' /\ ClosedInv'
  BY <1>1, <1>2 DEF CallsInv, BuiltInv, ClosedInv
<1>7. AloneInv' /\ HealedInv'
  BY <1>2 DEF AloneInv, HealedInv
<1> QED
  BY <1>5, <1>6, <1>7

LEMMA UpstreamsStep == UpstreamsInv /\ [Next]_vars => UpstreamsInv'
<1> SUFFICES ASSUME UpstreamsInv, [Next]_vars PROVE UpstreamsInv'
  OBVIOUS
<1>1. ASSUME NEW r \in Request, Arrive(r) \/ Serve(r) \/ Thread(r) \/ AirflowActs(r)
      PROVE  UpstreamsInv'
  BY <1>1, ArriveKeeps, ServeKeeps, ThreadKeeps, ActsKeeps
<1>2. CASE Server
  <2>1. CASE ComeBack /\ UNCHANGED <<req, healed, config>>
    <3>1. /\ UNCHANGED <<client, stale, closed, call>> /\ up' = TRUE
          /\ outages' \in 0 .. MaxOutages /\ req' \in [Request -> ReqState] /\ req' = req
      BY <2>1 DEF ComeBack, UpstreamsInv, TypeOK, ChTypeOK
    <3> QED
      BY <2>1, <3>1, NothingMoves
  <2> QED
    BY <1>2, <2>1, AwayKeeps DEF Server
<1>3. CASE UNCHANGED vars
  <2>1. /\ UNCHANGED <<client, stale, closed, call, config, healed>> /\ up' \in BOOLEAN
        /\ up' = up /\ outages' \in 0 .. MaxOutages
        /\ req' \in [Request -> ReqState] /\ req' = req
    BY <1>3 DEF vars, chVars, UpstreamsInv, TypeOK, ChTypeOK
  <2> QED
    BY <2>1, NothingMoves
<1> QED
  BY <1>1, <1>2, <1>3 DEF Next

-----------------------------------------------------------------------------
\* The invariant of clients, calls and requests, for any number of them.
THEOREM UpstreamsInvHolds == Spec => []UpstreamsInv
<1> QED
  BY UpstreamsInit, UpstreamsStep, PTL DEF Spec

\* Type correctness of the client, the calls and the requests.
THEOREM UpstreamsTypeCorrect == Spec => []TypeOK
<1>1. UpstreamsInv => TypeOK
  BY DEF UpstreamsInv
<1> QED
  BY UpstreamsInvHolds, <1>1, PTL

\* What a step makes of the step of a request that is in flight.
LEMMA ServesTo ==
  ASSUME UpstreamsInv, NEW r \in Request, InFlight(r), Serve(r)
  PROVE  req'[r].step = "degraded" => call[r].step = "error"
<1>0. req \in [Request -> ReqState] /\ Request = Caller
  BY UpstreamsAssumption DEF UpstreamsInv, TypeOK
<1>1. ASSUME NEW answer, Ends(r, answer)
      PROVE  req'[r].step = answer
  <2>1. req'[r] = [NewReq EXCEPT !.step = answer, !.dag = req[r].dag]
    BY <1>0, <1>1 DEF Ends
  <2> QED
    BY <2>1 DEF NewReq
<1>2. ASSUME NEW t, NEW l, Asks(r, t, l)
      PROVE  req'[r].step = t
  <2> DEFINE u == req[r]
             d == IF t = "post" /\ AirflowEnabled THEN "sent" ELSE u.dag
  <2>1. req'[r] = [u EXCEPT !.step = t, !.left = l, !.dag = d] /\ u \in ReqState
    BY <1>0, <1>2 DEF Asks
  <2> HIDE DEF u, d
  <2> QED
    BY <2>1 DEF ReqState
<1>3. CASE Connect(r)
  BY <1>2, <1>3 DEF Connect
<1>4. CASE PoolTimeout(r)
  <2>1. CASE Ends(r, "failed")
    BY <1>1, <2>1
  <2>2. CASE req' = [req EXCEPT ![r].step = "query", ![r].db = FALSE]
    <3> DEFINE u == req[r]
    <3>1. req'[r] = [u EXCEPT !.step = "query", !.db = FALSE] /\ u \in ReqState
      BY <1>0, <2>2
    <3> HIDE DEF u
    <3>2. req'[r].step = "query"
      BY <3>1 DEF ReqState
    <3> QED
      BY <3>2
  <2> QED
    BY <1>4, <2>1, <2>2 DEF PoolTimeout
<1>5. CASE ReadConfig(r)
  BY <1>1, <1>2, <1>5 DEF ReadConfig
<1>6. CASE AddConfig(r)
  <2>1. CASE Ends(r, "failed")
    BY <1>1, <2>1
  <2>2. CASE ~Ends(r, "failed")
    <3> DEFINE u == req[r]
               t == IF req[r].kind = "kpis" THEN "query" ELSE "config"
    <3>1. req'[r] = [u EXCEPT !.adds = TRUE, !.step = t] /\ u \in ReqState
          /\ t \in {"query", "config"}
      BY <1>0, <1>6, <2>2 DEF AddConfig
    <3> HIDE DEF u, t
    <3>2. req'[r].step = t
      BY <3>1 DEF ReqState
    <3> QED
      BY <3>1, <3>2
  <2> QED
    BY <2>1, <2>2
<1>7. CASE AnswerConfig(r)
  BY <1>1, <1>7 DEF AnswerConfig
<1>8. CASE QueryReturns(r)
  BY <1>1, <1>2, <1>8 DEF QueryReturns, ProbeAnswer
<1>9. CASE QueryFails(r)
  BY <1>1, <1>9 DEF QueryFails, FallsBack, ProbeAnswer
<1>10. CASE Triggered(r)
  BY <1>1, <1>10 DEF Triggered
<1>11. CASE Skipped(r)
  BY <1>1, <1>11 DEF Skipped
<1> QED
  BY <1>3, <1>4, <1>5, <1>6, <1>7, <1>8, <1>9, <1>10, <1>11 DEF Serve

\* Only its own handler moves a request on.
LEMMA OthersKeepStep ==
  ASSUME UpstreamsInv, Next, NEW r \in Request, InFlight(r), ~Serve(r)
  PROVE  req'[r].step = req[r].step
<1>0. req \in [Request -> ReqState]
  BY DEF UpstreamsInv, TypeOK
<1>1. ASSUME NEW p \in Request, Arrive(p)
      PROVE  req'[r].step = req[r].step
  <2>1. p # r
    BY <1>1 DEF Arrive, InFlight
  <2> DEFINE u == req[r]
  <2>2. req'[r] = [u EXCEPT !.alone = FALSE] /\ u \in ReqState
    BY <1>0, <1>1, <2>1 DEF Arrive
  <2>3. req[r].step = u.step
    OBVIOUS
  <2> HIDE DEF u
  <2> QED
    BY <2>2, <2>3 DEF ReqState
<1>2. ASSUME NEW p \in Request, Serve(p)
      PROVE  req'[r].step = req[r].step
  <2>1. p # r
    BY <1>2
  <2>2. CASE PoolTimeout(p)
    BY <1>0, <2>1, <2>2 DEF PoolTimeout, Ends
  <2>3. CASE AddConfig(p)
    BY <1>0, <2>1, <2>3 DEF AddConfig, Ends
  <2>4. CASE Connect(p) \/ ReadConfig(p) \/ QueryReturns(p)
    BY <1>0, <2>1, <2>4 DEF Connect, ReadConfig, QueryReturns, Asks, Ends
  <2>5. CASE AnswerConfig(p) \/ QueryFails(p) \/ Triggered(p) \/ Skipped(p)
    BY <1>0, <2>1, <2>5 DEF AnswerConfig, QueryFails, FallsBack, Triggered, Skipped, Ends
  <2> QED
    BY <1>2, <2>2, <2>3, <2>4, <2>5 DEF Serve
<1>3. ASSUME NEW p \in Request, AirflowActs(p)
      PROVE  req'[r].step = req[r].step
  <2> DEFINE u == req[r]
  <2>1. PICK d \in {"started", "refused"} : req' = [req EXCEPT ![p].dag = d]
    BY <1>3 DEF AirflowActs
  <2>2. req'[r] = u \/ req'[r] = [u EXCEPT !.dag = d]
    BY <1>0, <2>1
  <2>3. u \in ReqState /\ req[r].step = u.step
    BY <1>0
  <2> HIDE DEF u
  <2> QED
    BY <2>2, <2>3 DEF ReqState
<1>4. CASE Server
  <2>1. CASE UNCHANGED req
    BY <2>1
  <2>2. CASE req' = [q \in Request |-> [req[q] EXCEPT !.alone = @ /\ ~InFlight(q)]]
    <3> DEFINE u == req[r]
               a == u.alone /\ ~InFlight(r)
    <3>1. req'[r] = [u EXCEPT !.alone = a] /\ u \in ReqState /\ req[r].step = u.step
      BY <1>0, <2>2
    <3> HIDE DEF u, a
    <3> QED
      BY <3>1 DEF ReqState
  <2> QED
    BY <1>4, <2>1, <2>2 DEF Server
<1>5. ASSUME NEW p \in Request, Thread(p)
      PROVE  req'[r].step = req[r].step
  <2> DEFINE u == req[r]
  <2>1. req'[r] = u \/ req'[r] = [u EXCEPT !.alone = FALSE]
    BY <1>0, <1>5 DEF Thread
  <2>2. u \in ReqState /\ req[r].step = u.step
    BY <1>0
  <2> HIDE DEF u
  <2> QED
    BY <2>1, <2>2 DEF ReqState
<1> QED
  BY <1>1, <1>2, <1>3, <1>4, <1>5 DEF Next

\* However many threads shared, closed or lost the client, a request that has
\* ClickHouse to itself gets live data, the first after an outage excepted.
THEOREM HealsAfterOneRequestHolds == Spec => HealsAfterOneRequest
<1>1. UpstreamsInv /\ [Next]_vars =>
        [\A r \in Request : (req[r].alone /\ req[r].knew) => req'[r].step # "degraded"]_vars
  <2> SUFFICES ASSUME UpstreamsInv, Next, NEW r \in Request, req[r].alone, req[r].knew,
                      req'[r].step = "degraded"
               PROVE  FALSE
    OBVIOUS
  <2>1. InFlight(r) /\ req[r].step # "degraded"
    BY DEF UpstreamsInv, CallsInv, InFlight, Ended
  <2>2. call[r].step # "error"
    BY DEF UpstreamsInv, HealedInv
  <2> QED
    BY <2>1, <2>2, ServesTo, OthersKeepStep
<1> QED
  BY UpstreamsInvHolds, <1>1, PTL DEF HealsAfterOneRequest, Spec

-----------------------------------------------------------------------------
(* The pool and the key of the configuration. *)

\* The pool lends no more connections than it has (pool_size, max_overflow).
PoolIsBounded == Cardinality(Conns) <= PoolSize

\* The configuration is added by one request at a time, while there is none,
\* and by one that has its connection: whoever waits for that key, or for a
\* connection, waits for a request that is past both (get_or_create_config).
ConfigIsAddedOnce ==
    \A r \in Request : req[r].adds =>
        /\ ~config
        /\ req[r].kind \in {"kpis", "config"} /\ req[r].step \in {"query", "config"}
        /\ \A q \in Request \ {r} : ~req[q].adds

\* Who reads the configuration is no probe, so it holds a connection.
ReaderIsNoProbe ==
    \A r \in Request : req[r].step \in {"config", "insert"} => req[r].kind \in {"kpis", "config"}

PoolInv == UpstreamsInv /\ PoolIsBounded /\ ConfigIsAddedOnce /\ ReaderIsNoProbe

\* What a step leaves of a request, as far as the two queues tell.
Same(r) ==
    /\ req'[r].step = req[r].step /\ req'[r].kind = req[r].kind /\ req'[r].adds = req[r].adds

\* A request comes in, ends, gets a connection, or goes on with the one it has.
ComesIn(r) ==
    /\ req[r].step = "new" /\ req'[r].step = "connect"
    /\ req'[r].kind = req[r].kind /\ req'[r].adds = req[r].adds /\ config' = config
Leaves(r) ==
    /\ req'[r].step \in Ended /\ ~req'[r].adds /\ config' = (config \/ req[r].adds)
GoesOn(r) ==
    /\ req'[r].kind = req[r].kind /\ config' = config
    /\ req[r].step \in {"connect", "config", "insert", "query"}
    /\ req'[r].step \in {"config", "insert", "query", "post"}
    /\ req[r].step = "connect" => \/ Cardinality(Conns) < PoolSize
                                  \/ req[r].kind = "ready" /\ req'[r].step = "query"
    /\ req[r].step = "query" => req'[r].step = "query"
    /\ req'[r].step \in {"config", "insert"} =>
           req[r].step # "connect" \/ req[r].kind \in {"kpis", "config"}
    /\ \/ req'[r].adds = req[r].adds /\ (req[r].adds => req'[r].step = "query")
       \/ /\ req'[r].adds /\ req[r].step = "insert" /\ req'[r].step \in {"query", "config"}
          /\ ~config /\ \A q \in Request \ {r} : ~req[q].adds

\* Asks, seen from the two queues.
LEMMA AsksMoves ==
  ASSUME UpstreamsInv, NEW r \in Request, NEW t, NEW l, Asks(r, t, l)
  PROVE  /\ req'[r].step = t /\ req'[r].kind = req[r].kind /\ req'[r].adds = req[r].adds
         /\ \A p \in Request \ {r} : Same(p)
<1> DEFINE u == req[r]
           d == IF t = "post" /\ AirflowEnabled THEN "sent" ELSE u.dag
<1>1. u \in ReqState /\ req \in [Request -> ReqState]
  BY DEF UpstreamsInv, TypeOK
<1>2. /\ req'[r] = [u EXCEPT !.step = t, !.left = l, !.dag = d]
      /\ \A p \in Request \ {r} : req'[p] = req[p]
  BY <1>1 DEF Asks
<1> HIDE DEF u, d
<1>3. req'[r].step = t /\ req'[r].kind = u.kind /\ req'[r].adds = u.adds
  BY <1>1, <1>2 DEF ReqState
<1> QED
  BY <1>2, <1>3 DEF Same, u

LEMMA EndsMoves ==
  ASSUME UpstreamsInv, NEW r \in Request, NEW answer \in Ended, Ends(r, answer)
  PROVE  Leaves(r) /\ \A p \in Request \ {r} : Same(p)
<1>1. req \in [Request -> ReqState] /\ req[r] \in ReqState
  BY DEF UpstreamsInv, TypeOK
<1>2. /\ req'[r] = [NewReq EXCEPT !.step = answer, !.dag = req[r].dag]
      /\ config' = (config \/ req[r].adds)
      /\ \A p \in Request \ {r} : req'[p] = req[p]
  BY <1>1 DEF Ends
<1>3. req'[r].step = answer /\ ~req'[r].adds
  BY <1>1, <1>2, EndedState
<1> QED
  BY <1>2, <1>3 DEF Leaves, Same

\* A handler's step is one of the three.
LEMMA ServeMoves ==
  ASSUME UpstreamsInv, ConfigIsAddedOnce, NEW r \in Request, Serve(r)
  PROVE  (Leaves(r) \/ GoesOn(r)) /\ \A p \in Request \ {r} : Same(p)
<1> DEFINE u == req[r]
<1>0. req \in [Request -> ReqState] /\ u \in ReqState
  BY DEF UpstreamsInv, TypeOK
<1>1. ASSUME NEW answer \in Ended, Ends(r, answer)
      PROVE  Leaves(r) /\ \A p \in Request \ {r} : Same(p)
  BY <1>1, EndsMoves
<1>a. req[r].adds => req[r].step \in {"query", "config"}
  BY DEF ConfigIsAddedOnce
<1>2. CASE Connect(r)
  <2>1. /\ req[r].step = "connect" /\ Cardinality(Conns) < PoolSize /\ config' = config
        /\ \/ req[r].kind \in {"kpis", "config"} /\ Asks(r, "config", Queries(req[r].kind))
           \/ Asks(r, "post", 1) \/ Asks(r, "query", 1)
    BY <1>2 DEF Connect
  <2>2. /\ req'[r].step \in {"config", "query", "post"}
        /\ req'[r].step = "config" => req[r].kind \in {"kpis", "config"}
        /\ req'[r].kind = req[r].kind /\ req'[r].adds = req[r].adds
        /\ \A p \in Request \ {r} : Same(p)
    BY <2>1, AsksMoves
  <2> QED
    BY <1>a, <2>1, <2>2 DEF GoesOn
<1>3. CASE PoolTimeout(r)
  <2>1. CASE Ends(r, "failed")
    BY <1>1, <2>1 DEF Ended
  <2>2. CASE /\ req[r].kind = "ready" /\ config' = config
             /\ req' = [req EXCEPT ![r].step = "query", ![r].db = FALSE]
    <3>1. /\ req'[r] = [u EXCEPT !.step = "query", !.db = FALSE]
          /\ \A p \in Request \ {r} : req'[p] = req[p]
      BY <1>0, <2>2
    <3> HIDE DEF u
    <3>2. req'[r].step = "query" /\ req'[r].kind = u.kind /\ req'[r].adds = u.adds
      BY <1>0, <3>1 DEF ReqState
    <3> QED
      BY <1>3, <1>a, <2>2, <3>1, <3>2 DEF GoesOn, Same, PoolTimeout, u
  <2> QED
    BY <1>3, <2>1, <2>2 DEF PoolTimeout
<1>4. CASE ReadConfig(r)
  <2>1. CASE Ends(r, "live")
    BY <1>1, <2>1 DEF Ended
  <2>2. CASE config' = config /\ (Asks(r, "query", 3) \/ Asks(r, "insert", req[r].left))
    <3>1. /\ req'[r].step \in {"query", "insert"} /\ req'[r].kind = req[r].kind
          /\ req'[r].adds = req[r].adds /\ \A p \in Request \ {r} : Same(p)
      BY <2>2, AsksMoves
    <3> QED
      BY <1>4, <2>2, <3>1 DEF GoesOn, ReadConfig
  <2> QED
    BY <1>4, <2>1, <2>2 DEF ReadConfig
<1>5. CASE AddConfig(r)
  <2> DEFINE t == IF req[r].kind = "kpis" THEN "query" ELSE "config"
  <2>1. CASE Ends(r, "failed")
    BY <1>1, <2>1 DEF Ended
  <2>2. CASE ~config /\ config' = config /\ req' = [req EXCEPT ![r].adds = TRUE, ![r].step = t]
    <3>0. t \in {"query", "config"}
      OBVIOUS
    <3> HIDE DEF t
    <3>1. /\ req'[r] = [u EXCEPT !.adds = TRUE, !.step = t]
          /\ \A p \in Request \ {r} : req'[p] = req[p]
      BY <1>0, <2>2
    <3> HIDE DEF u
    <3>2. req'[r].step = t /\ req'[r].kind = u.kind /\ req'[r].adds
      BY <1>0, <3>1 DEF ReqState
    <3> QED
      BY <1>5, <2>2, <3>0, <3>1, <3>2 DEF GoesOn, Same, AddConfig, u
  <2> QED
    BY <1>5, <2>1, <2>2 DEF AddConfig
<1>6. CASE AnswerConfig(r)
  BY <1>1, <1>6 DEF AnswerConfig, Ended
<1>7. CASE QueryReturns(r)
  <2>1. CASE config' = config /\ Asks(r, "query", req[r].left - 1)
    <3>1. /\ req'[r].step = "query" /\ req'[r].kind = req[r].kind
          /\ req'[r].adds = req[r].adds /\ \A p \in Request \ {r} : Same(p)
      BY <2>1, AsksMoves
    <3> QED
      BY <1>7, <2>1, <3>1 DEF GoesOn, QueryReturns
  <2> QED
    BY <1>1, <1>7, <2>1 DEF QueryReturns, ProbeAnswer, Ended
<1>8. CASE QueryFails(r)
  BY <1>1, <1>8 DEF QueryFails, FallsBack, ProbeAnswer, Ended
<1>9. CASE Triggered(r) \/ Skipped(r)
  BY <1>1, <1>9 DEF Triggered, Skipped, Ended
<1> QED
  BY <1>2, <1>3, <1>4, <1>5, <1>6, <1>7, <1>8, <1>9 DEF Serve

\* Every other step is an arrival, or moves nobody in the two queues.
LEMMA NextMoves ==
  ASSUME UpstreamsInv, ConfigIsAddedOnce, [Next]_vars
  PROVE  \/ config' = config /\ \A p \in Request : Same(p)
         \/ \E r \in Request : /\ ComesIn(r) \/ Leaves(r) \/ GoesOn(r)
                               /\ \A p \in Request \ {r} : Same(p)
<1>0. req \in [Request -> ReqState]
  BY DEF UpstreamsInv, TypeOK
<1>1. ASSUME NEW r \in Request, Arrive(r)
      PROVE  ComesIn(r) /\ \A p \in Request \ {r} : Same(p)
  <2> DEFINE a == up /\ \A p \in Request : ~InFlight(p)
  <2>1. ComesIn(r)
    <3> DEFINE u == req[r]
    <3>1. req'[r] = [u EXCEPT !.step = "connect", !.knew = healed, !.alone = a]
      BY <1>0, <1>1 DEF Arrive
    <3>2. u \in ReqState /\ u.step = "new" /\ config' = config
      BY <1>0, <1>1 DEF Arrive
    <3> HIDE DEF u, a
    <3>3. req'[r].step = "connect" /\ req'[r].kind = u.kind /\ req'[r].adds = u.adds
      BY <3>1, <3>2 DEF ReqState
    <3> QED
      BY <3>2, <3>3 DEF ComesIn, u
  <2>2. ASSUME NEW p \in Request \ {r} PROVE Same(p)
    <3> DEFINE u == req[p]
    <3>1. u \in ReqState /\ (req'[p] = u \/ req'[p] = [u EXCEPT !.alone = FALSE])
      BY <1>0, <1>1 DEF Arrive
    <3> HIDE DEF u
    <3>2. req'[p].step = u.step /\ req'[p].kind = u.kind /\ req'[p].adds = u.adds
      BY <3>1 DEF ReqState
    <3> QED
      BY <3>2 DEF Same, u
  <2> QED
    BY <2>1, <2>2
<1>2. ASSUME NEW r \in Request, AirflowActs(r) PROVE config' = config /\ \A p \in Request : Same(p)
  <2>1. PICK d \in {"started", "refused"} : req' = [req EXCEPT ![r].dag = d]
    BY <1>2 DEF AirflowActs
  <2>2. ASSUME NEW p \in Request PROVE Same(p)
    <3> DEFINE u == req[p]
    <3>1. u \in ReqState /\ (req'[p] = u \/ req'[p] = [u EXCEPT !.dag = d])
      BY <1>0, <2>1
    <3> HIDE DEF u
    <3>2. req'[p].step = u.step /\ req'[p].kind = u.kind /\ req'[p].adds = u.adds
      BY <3>1 DEF ReqState
    <3> QED
      BY <3>2 DEF Same, u
  <2> QED
    BY <1>2, <2>2 DEF AirflowActs
<1>3. CASE Server
  <2>1. ASSUME req' = [q \in Request |-> [req[q] EXCEPT !.alone = @ /\ ~InFlight(q)]],
               NEW p \in Request
        PROVE  Same(p)
    <3> DEFINE u == req[p]
               a == u.alone /\ ~InFlight(p)
    <3>1. u \in ReqState /\ req'[p] = [u EXCEPT !.alone = a]
      BY <1>0, <2>1
    <3> HIDE DEF u, a
    <3>2. req'[p].step = u.step /\ req'[p].kind = u.kind /\ req'[p].adds = u.adds
      BY <3>1 DEF ReqState
    <3> QED
      BY <3>2 DEF Same, u
  <2> QED
    BY <1>3, <2>1 DEF Server, Same
<1>4. CASE UNCHANGED vars
  BY <1>4 DEF vars, Same
<1>5. ASSUME NEW r \in Request, Thread(r) PROVE config' = config /\ \A p \in Request : Same(p)
  <2>1. ASSUME NEW p \in Request PROVE Same(p)
    <3> DEFINE u == req[p]
    <3>1. u \in ReqState /\ (req'[p] = u \/ req'[p] = [u EXCEPT !.alone = FALSE])
      BY <1>0, <1>5 DEF Thread
    <3> HIDE DEF u
    <3>2. req'[p].step = u.step /\ req'[p].kind = u.kind /\ req'[p].adds = u.adds
      BY <3>1 DEF ReqState
    <3> QED
      BY <3>2 DEF Same, u
  <2> QED
    BY <1>5, <2>1 DEF Thread
<1> QED
  BY <1>1, <1>2, <1>3, <1>4, <1>5, ServeMoves DEF Next

LEMMA ConnsAreFinite == IsFiniteSet(Conns) /\ Cardinality(Conns) \in Nat
<1>1. IsFiniteSet(Request) /\ Conns \in SUBSET Request
  BY ClientAssumption, UpstreamsAssumption DEF Conns
<1>2. IsFiniteSet(Conns)
  BY <1>1, FS_Subset
<1> QED
  BY <1>2, FS_CardinalityType

\* A connection is taken by a request that has found one free.
LEMMA PoolStep ==
  ASSUME PoolInv, NEW r \in Request, ComesIn(r) \/ Leaves(r) \/ GoesOn(r),
         \A p \in Request \ {r} : Same(p)
  PROVE  PoolIsBounded'
<1>1. /\ IsFiniteSet(Conns) /\ Cardinality(Conns) \in Nat /\ PoolSize \in Nat
      /\ Cardinality(Conns) <= PoolSize
  BY ConnsAreFinite, UpstreamsAssumption DEF PoolInv, PoolIsBounded
<1>2. \A p \in Request \ {r} : p \in Conns' <=> p \in Conns
  BY DEF Same, Conns
<1>3. Conns' \subseteq Request /\ Conns \subseteq Request
  BY DEF Conns
<1>4. CASE r \notin Conns' \/ r \in Conns
  <2>1. Conns' \in SUBSET Conns
    BY <1>2, <1>3, <1>4
  <2>2. IsFiniteSet(Conns') /\ Cardinality(Conns') <= Cardinality(Conns)
    BY <1>1, <2>1, FS_Subset
  <2>3. Cardinality(Conns') \in Nat
    BY <2>2, FS_CardinalityType
  <2> QED
    BY <1>1, <2>2, <2>3 DEF PoolIsBounded
<1>5. CASE r \in Conns' /\ r \notin Conns
  <2>1. GoesOn(r) /\ req[r].step = "connect" /\ req[r].kind # "ready"
    BY <1>5 DEF ComesIn, Leaves, GoesOn, Conns, Ended
  <2>2. Cardinality(Conns) < PoolSize
    BY <2>1 DEF GoesOn
  <2>3. Conns' = Conns \cup {r}
    BY <1>2, <1>3, <1>5
  <2>4. Cardinality(Conns') = Cardinality(Conns) + 1
    BY <1>1, <1>5, <2>3, FS_AddElement
  <2> QED
    BY <1>1, <2>2, <2>4 DEF PoolIsBounded
<1> QED
  BY <1>4, <1>5

\* The key goes to a request that has seen nobody else add it, and back with
\* its commit or rollback.
LEMMA KeyStep ==
  ASSUME PoolInv, NEW r \in Request, ComesIn(r) \/ Leaves(r) \/ GoesOn(r),
         \A p \in Request \ {r} : Same(p)
  PROVE  ConfigIsAddedOnce' /\ ReaderIsNoProbe'
<1>1. ConfigIsAddedOnce /\ ReaderIsNoProbe
  BY DEF PoolInv
<1>2. CASE ComesIn(r)
  <2>1. ~req'[r].adds
    BY <1>1, <1>2 DEF ComesIn, ConfigIsAddedOnce
  <2> QED
    BY <1>1, <1>2, <2>1 DEF ComesIn, Same, ConfigIsAddedOnce, ReaderIsNoProbe
<1>3. CASE Leaves(r)
  <2>1. \A p \in Request \ {r} : req[p].adds => config' = config
    <3> SUFFICES ASSUME NEW p \in Request \ {r}, req[p].adds PROVE config' = config
      OBVIOUS
    <3>1. ~req[r].adds /\ ~config
      BY <1>1 DEF ConfigIsAddedOnce
    <3>2. config \in BOOLEAN /\ req[r].adds \in BOOLEAN
      BY DEF PoolInv, UpstreamsInv, TypeOK, ReqState
    <3> QED
      BY <1>3, <3>1, <3>2 DEF Leaves
  <2> QED
    BY <1>1, <1>3, <2>1 DEF Leaves, Ended, Same, ConfigIsAddedOnce, ReaderIsNoProbe
<1>4. CASE GoesOn(r)
  <2>1. ReaderIsNoProbe'
    <3>1. req'[r].step \in {"config", "insert"} => req'[r].kind \in {"kpis", "config"}
      <4>1. CASE req[r].step = "query"
        BY <1>1, <1>4, <4>1 DEF GoesOn, ReaderIsNoProbe
      <4>2. CASE req[r].step # "query"
        BY <1>1, <1>4, <4>2 DEF GoesOn, ReaderIsNoProbe
      <4> QED
        BY <4>1, <4>2
    <3> QED
      BY <1>1, <3>1 DEF Same, ReaderIsNoProbe
  <2>2. ConfigIsAddedOnce'
    <3>1. ASSUME req'[r].adds = req[r].adds, req[r].adds => req'[r].step = "query"
          PROVE  ConfigIsAddedOnce'
      BY <1>1, <1>4, <3>1 DEF GoesOn, Same, ConfigIsAddedOnce
    <3>2. ASSUME req'[r].adds, req[r].step = "insert", req'[r].step \in {"query", "config"},
                 ~config, \A q \in Request \ {r} : ~req[q].adds
          PROVE  ConfigIsAddedOnce'
      BY <1>1, <1>4, <3>2 DEF GoesOn, Same, ConfigIsAddedOnce, ReaderIsNoProbe
    <3> QED
      BY <1>4, <3>1, <3>2 DEF GoesOn
  <2> QED
    BY <2>1, <2>2
<1> QED
  BY <1>2, <1>3, <1>4

LEMMA PoolInit == Init => PoolInv
<1> SUFFICES ASSUME Init PROVE PoolInv
  OBVIOUS
<1>1. PICK asked \in Asked : req = [r \in Request |-> [NewReq EXCEPT !.kind = asked[1][r]]]
  BY DEF Init
<1>2. \A r \in Request : req[r].step = "new" /\ ~req[r].adds
  BY <1>1 DEF NewReq
<1>3. Conns = {}
  BY <1>2 DEF Conns
<1>4. PoolIsBounded
  BY <1>3, FS_EmptySet, UpstreamsAssumption DEF PoolIsBounded
<1> QED
  BY <1>2, <1>4, UpstreamsInit DEF PoolInv, ConfigIsAddedOnce, ReaderIsNoProbe

LEMMA PoolNext == PoolInv /\ [Next]_vars => PoolInv'
<1> SUFFICES ASSUME PoolInv, [Next]_vars PROVE PoolInv'
  OBVIOUS
<1>1. UpstreamsInv'
  BY UpstreamsStep DEF PoolInv
<1>2. CASE config' = config /\ \A p \in Request : Same(p)
  <2>1. Conns' = Conns
    BY <1>2 DEF Conns, Same
  <2> QED
    BY <1>1, <1>2, <2>1 DEF PoolInv, PoolIsBounded, ConfigIsAddedOnce, ReaderIsNoProbe, Same
<1>3. ASSUME NEW r \in Request, ComesIn(r) \/ Leaves(r) \/ GoesOn(r),
             \A p \in Request \ {r} : Same(p)
      PROVE  PoolInv'
  BY <1>1, <1>3, PoolStep, KeyStep DEF PoolInv
<1> QED
  BY <1>2, <1>3, NextMoves DEF PoolInv

LEMMA PoolInvHolds == Spec => []PoolInv
  BY PoolInit, PoolNext, PTL DEF Spec

\* However many requests wait for silent upstreams, no more than PoolSize keep
\* a connection (database.py, get_current_principal).
THEOREM PoolIsBoundedHolds == Spec => []PoolIsBounded
<1>1. PoolInv => PoolIsBounded
  BY DEF PoolInv
<1> QED
  BY PoolInvHolds, <1>1, PTL

\* The one row of the configuration is added once, whoever asks first
\* (get_kpis, get_system_config).
THEOREM ConfigIsAddedOnceHolds == Spec => []ConfigIsAddedOnce
<1>1. PoolInv => ConfigIsAddedOnce
  BY DEF PoolInv
<1> QED
  BY PoolInvHolds, <1>1, PTL

\* A request that keeps an uncommitted row while it queries ClickHouse cannot
\* be waiting for one that waits for it, through the pool or otherwise.
THEOREM WaitsEndAtUpstreamHolds == Spec => []WaitsEndAtUpstream
<1>1. PoolInv => WaitsEndAtUpstream
  <2> SUFFICES ASSUME PoolInv, NEW r \in Request, Stalled(r)
               PROVE  \E q \in Conns \ {r} : ~Stalled(q)
    BY DEF WaitsEndAtUpstream
  <2>1. ASSUME NEW q \in Request, req[q].adds
        PROVE  q \in Conns /\ ~Stalled(q) /\ q # r
    BY <2>1 DEF PoolInv, ConfigIsAddedOnce, Conns, Stalled
  <2>2. CASE req[r].step = "insert"
    BY <2>1, <2>2 DEF Stalled
  <2>3. CASE req[r].step = "connect"
    <3>1. Conns # {}
      BY <2>3, FS_EmptySet, UpstreamsAssumption DEF Stalled
    <3>2. PICK q \in Conns : TRUE
      BY <3>1
    <3>3. q \in Request /\ q # r /\ req[q].step # "connect"
      BY <2>3 DEF Conns
    <3> QED
      BY <2>1, <3>3 DEF Stalled
  <2> QED
    BY <2>2, <2>3 DEF Stalled
<1> QED
  BY PoolInvHolds, <1>1, PTL
=============================================================================
