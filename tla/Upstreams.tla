------------------------------ MODULE Upstreams -----------------------------
(***************************************************************************)
(* Handlers that wait for a system of the ra-platform: ClickHouse (KPIs,   *)
(* the stages, runs and summaries with their fallback data, the records,   *)
(* the readiness probe) and Airflow (retry and replay).  Every one of them *)
(* keeps the pooled database connection its principal was read with until  *)
(* it has answered, the probe excepted; get_kpis may keep an uncommitted   *)
(* row of the system configuration besides.                                *)
(***************************************************************************)
EXTENDS ClickHouseClient

CONSTANTS
    Request,        \* requests, each of them made once at most
    Asked,          \* bound: which request is of which kind, and whether there is a
                    \* configuration, in what an instance tries
    PoolSize,       \* pool_size + max_overflow
    AirflowEnabled

\* "view" stands for stages, runs, recon_summary and dashboard_kpis; "none" is
\* never made.
Kind == {"kpis", "view", "records", "config", "trigger", "ready", "none"}

ASSUME UpstreamsAssumption ==
    /\ Caller = Request
    /\ Asked \subseteq [Request -> Kind] \X BOOLEAN
    /\ PoolSize \in Nat \ {0}
    /\ AirflowEnabled \in BOOLEAN

VARIABLES
    req,        \* req[r]: the state of a request
    config,     \* the row of the system configuration is committed
    healed      \* history: since the last outage a request had ClickHouse to itself

vars == <<chVars, req, config, healed>>

\* alone is history: no other request was there, and ClickHouse was up and took
\* its queries, all the time; knew: healed when the request came in.  dag: what
\* Airflow did of the POST.
NewReq == [kind |-> "config", step |-> "new", left |-> 1, adds |-> FALSE, db |-> TRUE,
           dag |-> "none", alone |-> FALSE, knew |-> FALSE]
\* How it ends: live data, fallback data or 503, "Triggered", "Queued", a 500 or 409
\* or a probe without the database.
Ended == {"live", "degraded", "triggered", "queued", "failed"}
InFlight(r) == req[r].step \notin {"new"} \cup Ended
\* Requests that hold a connection of the pool.
Conns == {r \in Request : /\ req[r].step \in {"config", "insert", "query", "post"}
                          /\ req[r].kind # "ready"}
Queries(kind) == IF kind = "kpis" THEN 3 ELSE 1

Init ==
    /\ ChInit
    /\ \E asked \in Asked :
           /\ req = [r \in Request |-> [NewReq EXCEPT !.kind = asked[1][r]]]
           /\ config = asked[2]
    /\ healed = TRUE

\* The response, the commit or rollback, the connection given back.
Ends(r, answer) ==
    /\ req' = [req EXCEPT ![r] = [NewReq EXCEPT !.step = answer, !.dag = req[r].dag]]
    /\ call' = [call EXCEPT ![r] = Idle]
    /\ config' = (config \/ req[r].adds)

\* The next query goes to a thread.
Asks(r, step, left) ==
    /\ req' = [req EXCEPT ![r].step = step, ![r].left = left,
                          ![r].dag = IF step = "post" /\ AirflowEnabled THEN "sent" ELSE @]
    /\ call' = [call EXCEPT ![r] = IF step = "query" THEN [Idle EXCEPT !.step = "look"] ELSE Idle]

KeepsClient == UNCHANGED <<client, stale, closed, up, outages>>
-----------------------------------------------------------------------------
Arrive(r) ==
    /\ req[r].step = "new" /\ req[r].kind # "none" /\ LoopFree
    /\ req' = [q \in Request |->
           IF q = r THEN [req[r] EXCEPT !.step = "connect", !.knew = healed,
                              !.alone = up /\ \A p \in Request : ~InFlight(p)]
           ELSE IF InFlight(q) THEN [req[q] EXCEPT !.alone = FALSE] ELSE req[q]]
    /\ UNCHANGED <<chVars, config, healed>>

\* get_current_principal, or the SELECT 1 of the probe.
Connect(r) ==
    /\ req[r].step = "connect" /\ LoopFree
    /\ Cardinality(Conns) < PoolSize
    /\ CASE req[r].kind \in {"kpis", "config"} -> Asks(r, "config", Queries(req[r].kind))
         [] req[r].kind = "trigger" -> Asks(r, "post", 1)
         [] OTHER -> Asks(r, "query", 1)
    /\ UNCHANGED <<config, healed>> /\ KeepsClient

\* No connection in time: 500, or a probe without the database.
PoolTimeout(r) ==
    /\ req[r].step = "connect" /\ LoopFree
    /\ Cardinality(Conns) = PoolSize
    /\ \/ req[r].kind # "ready" /\ Ends(r, "failed")
       \/ /\ req[r].kind = "ready"
          /\ req' = [req EXCEPT ![r].step = "query", ![r].db = FALSE]
          /\ call' = [call EXCEPT ![r].step = "look"]
          /\ UNCHANGED config
    /\ UNCHANGED healed /\ KeepsClient

\* get_or_create_config
ReadConfig(r) ==
    /\ req[r].step = "config" /\ ~req[r].adds /\ LoopFree
    /\ \/ config /\ req[r].kind = "kpis" /\ Asks(r, "query", 3) /\ UNCHANGED config
       \/ config /\ req[r].kind = "config" /\ Ends(r, "live")
       \/ ~config /\ Asks(r, "insert", req[r].left) /\ UNCHANGED config
    /\ UNCHANGED healed /\ KeepsClient

\* Defect: it goes on with another connection, its row uncommitted.
AddConfigApart(r) ==
    /\ req[r].step = "insert" /\ LoopFree
    /\ \A q \in Request \ {r} : ~req[q].adds
    /\ \/ config /\ Ends(r, "failed")
       \/ /\ ~config /\ UNCHANGED <<config, call>>
          /\ req' = [req EXCEPT ![r].adds = TRUE, ![r].step = "connect"]
    /\ UNCHANGED healed /\ KeepsClient

\* The INSERT waits for the transaction that has inserted the same key.
AddConfig(r) ==
    /\ req[r].step = "insert" /\ LoopFree
    /\ \A q \in Request \ {r} : ~req[q].adds
    /\ \/ config /\ Ends(r, "failed")
       \/ /\ ~config /\ UNCHANGED config
          /\ req' = [req EXCEPT ![r].adds = TRUE,
                                ![r].step = IF req[r].kind = "kpis" THEN "query" ELSE "config"]
          /\ call' = [call EXCEPT ![r].step = IF req[r].kind = "kpis" THEN "look" ELSE @]
    /\ UNCHANGED healed /\ KeepsClient

\* get_system_config with the row it has added.
AnswerConfig(r) ==
    /\ req[r].step = "config" /\ req[r].adds /\ LoopFree
    /\ Ends(r, "live")
    /\ UNCHANGED healed /\ KeepsClient

Heals(r) == healed' = (healed \/ req[r].alone)
ProbeAnswer(r) == IF req[r].db THEN "live" ELSE "failed"

\* Defect: one query more than get_kpis makes.
QueryReturnsLate(r) ==
    /\ req[r].step = "query" /\ call[r].step = "rows" /\ LoopFree
    /\ \/ /\ req[r].left > 0 /\ Asks(r, "query", req[r].left - 1)
          /\ UNCHANGED <<config, healed>>
       \/ req[r].left = 0 /\ Ends(r, "live") /\ Heals(r)
    /\ KeepsClient

QueryReturns(r) ==
    /\ req[r].step = "query" /\ call[r].step = "rows" /\ LoopFree
    /\ \/ /\ req[r].left > 1 /\ Asks(r, "query", req[r].left - 1)
          /\ UNCHANGED <<config, healed>>
       \/ /\ req[r].left = 1 /\ Heals(r)
          /\ Ends(r, IF req[r].kind = "ready" THEN ProbeAnswer(r) ELSE "live")
    /\ KeepsClient

\* Stages, runs, summaries and KPIs: the whole answer is fallback data, whichever
\* query failed.
FallsBack(r) == req[r].kind \in {"kpis", "view"} /\ Ends(r, "degraded")

\* UpstreamUnavailableError: recon_records does not catch it (503); the probe
\* notes it.
QueryFails(r) ==
    /\ req[r].step = "query" /\ call[r].step = "error" /\ LoopFree
    /\ Heals(r)
    /\ \/ FallsBack(r)
       \/ req[r].kind = "records" /\ Ends(r, "degraded")
       \/ req[r].kind = "ready" /\ Ends(r, ProbeAnswer(r))
    /\ KeepsClient

\* Airflow takes the POST, or refuses it, in time or after the request has given
\* it up (timeout 10 s) and answered.
AirflowActs(r) ==
    /\ req[r].dag = "sent"
    /\ \E d \in {"started", "refused"} : req' = [req EXCEPT ![r].dag = d]
    /\ UNCHANGED <<chVars, config, healed>>

\* A success; its body that is no JSON is not caught: 500.
Triggered(r) ==
    /\ req[r].step = "post" /\ req[r].dag = "started" /\ LoopFree
    /\ \E answer \in {"triggered", "failed"} : Ends(r, answer)
    /\ UNCHANGED healed /\ KeepsClient

\* Disabled, refused, unreachable or late: "Queued ...", though nothing is.
Skipped(r) ==
    /\ req[r].step = "post" /\ LoopFree
    /\ Ends(r, "queued")
    /\ UNCHANGED healed /\ KeepsClient

Serve(r) == \/ Connect(r) \/ PoolTimeout(r) \/ ReadConfig(r) \/ AddConfig(r) \/ AnswerConfig(r)
            \/ QueryReturns(r) \/ QueryFails(r) \/ Triggered(r) \/ Skipped(r)

\* A request whose query the server rejects has had no ClickHouse to itself.
Thread(r) ==
    /\ \/ Run(r) /\ UNCHANGED req
       \/ Reject(r) /\ req' = [req EXCEPT ![r].alone = FALSE]
    /\ UNCHANGED <<config, healed>>

Server ==
    /\ \/ GoAway /\ healed' = FALSE
                 /\ req' = [r \in Request |-> [req[r] EXCEPT !.alone = @ /\ ~InFlight(r)]]
       \/ ComeBack /\ UNCHANGED <<req, healed>>
    /\ UNCHANGED config

Next == \/ \E r \in Request : Arrive(r) \/ Serve(r) \/ Thread(r) \/ AirflowActs(r)
        \/ Server

\* The event loop and its threads run.  Nothing is assumed of the servers.
Fairness == \A r \in Request : WF_vars(Serve(r)) /\ WF_vars(Thread(r))

Spec == Init /\ [][Next]_vars /\ Fairness
-----------------------------------------------------------------------------
ReqState ==
    [kind : Kind, left : 1 .. 3, adds : BOOLEAN, db : BOOLEAN, alone : BOOLEAN, knew : BOOLEAN,
     step : {"new", "connect", "config", "insert", "query", "post"} \cup Ended,
     dag : {"none", "sent", "started", "refused"}]
TypeOK ==
    /\ ChTypeOK
    /\ req \in [Request -> ReqState]
    /\ config \in BOOLEAN /\ healed \in BOOLEAN

\* The process comes back to one client that works, whatever overlapping
\* failures closed, lost or left behind (query, close_clickhouse, _get_client):
\* a request that has ClickHouse to itself, and whose queries the server takes,
\* gets live data, unless it is the first such one since an outage.
HealsAfterOneRequest ==
    [][\A r \in Request : (req[r].alone /\ req[r].knew) => req'[r].step # "degraded"]_vars

\* A request waits for another one of this process: for a connection, or for
\* the commit of an uncommitted configuration.
Stalled(r) ==
    \/ req[r].step = "connect" /\ Cardinality(Conns) = PoolSize
    \/ req[r].step = "insert" /\ \E q \in Request \ {r} : req[q].adds

\* However the two queues mix, no circle of waits closes: somebody who has a
\* connection waits for no other request, only for an upstream, whose answer
\* or timeout comes (get_kpis between its INSERT and its commit).
WaitsEndAtUpstream ==
    \A r \in Request : Stalled(r) => \E q \in Conns \ {r} : ~Stalled(q)

\* However long ClickHouse and Airflow are silent, and whatever waits for the
\* pool or for an uncommitted configuration meanwhile, every request ends.
RequestsEnd == <>[](\A r \in Request : ~InFlight(r))
=============================================================================
