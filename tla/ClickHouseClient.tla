-------------------------- MODULE ClickHouseClient --------------------------
(***************************************************************************)
(* integrations/clickhouse.py: one client for the whole process, built at  *)
(* its first use by the worker thread that needs it (asyncio.to_thread),   *)
(* closed and forgotten on the event loop by whichever call fails.         *)
(*                                                                         *)
(* The threads read and assign the module's variable without a lock.  The  *)
(* driver and the server are external: a query fails when the server is    *)
(* silent or down (connect_timeout 5 s, send_receive_timeout 30 s), may    *)
(* fail on a client that was closed or that lived through an outage, may   *)
(* fail while another query runs in the same client's session, and may     *)
(* always be rejected by the server.                                       *)
(***************************************************************************)
EXTENDS Naturals, FiniteSets

CONSTANTS
    Caller,     \* the calls of query() and ping() there may be at once
    Client,     \* client objects
    NoClient,   \* None
    MaxOutages  \* bound: how often the server goes away

ASSUME ClientAssumption ==
    /\ IsFiniteSet(Caller) /\ IsFiniteSet(Client)
    /\ Cardinality(Client) > Cardinality(Caller)
    /\ NoClient \notin Client /\ MaxOutages \in Nat

VARIABLES
    client,     \* the module's _client
    stale,      \* clients that were there when the server went away
    closed,     \* clients on which close() was called
    up,         \* the server answers
    outages,    \* how often it went away
    call        \* call[c]: where a call is, and the client it works with

chVars == <<client, stale, closed, up, outages, call>>

CallStep == {"idle", "look", "build", "assign", "return", "use",
             "failed", "closing", "rows", "error"}
Idle == [step |-> "idle", held |-> NoClient]

InUse == ({client} \cup {call[c].held : c \in Caller}) \ {NoClient}
\* Objects that nothing refers to any more are gone.
Freed(objects) == objects \cap InUse'
CallMoves(c, step) == call' = [call EXCEPT ![c].step = step]
CallEnds(c, step) == call' = [call EXCEPT ![c] = [Idle EXCEPT !.step = step]]
\* close_clickhouse has no await: the event loop does nothing else meanwhile.
LoopFree == \A c \in Caller : call[c].step # "closing"

ChInit ==
    /\ client = NoClient /\ stale = {} /\ closed = {}
    /\ up = TRUE /\ outages = 0
    /\ call = [c \in Caller |-> Idle]

-----------------------------------------------------------------------------
\* _get_client, in the thread: look, build (which pings the server), assign,
\* and read the variable once more.
Look(c) ==
    /\ call[c].step = "look"
    /\ CallMoves(c, IF client = NoClient THEN "build" ELSE "return")
    /\ UNCHANGED <<client, stale, closed, up, outages>>

Build(c) ==
    LET new == CHOOSE x \in Client : x \notin InUse IN
    /\ call[c].step = "build"
    /\ \/ /\ up
          /\ call' = [call EXCEPT ![c] = [step |-> "assign", held |-> new]]
          /\ stale' = stale \ {new} /\ closed' = closed \ {new}
       \/ ~up /\ CallMoves(c, "failed") /\ UNCHANGED <<stale, closed>>
    /\ UNCHANGED <<client, up, outages>>

Assign(c) ==
    /\ call[c].step = "assign"
    /\ client' = call[c].held
    /\ CallMoves(c, "return")
    /\ stale' = Freed(stale) /\ closed' = Freed(closed)
    /\ UNCHANGED <<up, outages>>

\* None has no method query: the failure is like any other.
Return(c) ==
    /\ call[c].step = "return"
    /\ call' = [call EXCEPT ![c] = [step |-> IF client = NoClient THEN "failed" ELSE "use",
                                    held |-> client]]
    /\ UNCHANGED <<client, up, outages>>
    /\ stale' = Freed(stale) /\ closed' = Freed(closed)

Shared(c) == \E d \in Caller \ {c} : call[d].step = "use" /\ call[d].held = call[c].held

\* client.query(...) returns rows.
Rows(c) ==
    /\ call[c].step = "use"
    /\ up
    /\ UNCHANGED <<client, up, outages>>
    /\ CallEnds(c, "rows")
    /\ stale' = Freed(stale \ {call[c].held}) /\ closed' = Freed(closed)

\* Defect: no timeout, a silent server is waited for.
RaiseUntimed(c) ==
    /\ call[c].step = "use"
    /\ up
    /\ call[c].held \in stale \cup closed \/ Shared(c)
    /\ CallMoves(c, "failed")
    /\ UNCHANGED <<client, stale, closed, up, outages>>

\* client.query(...) raises.
Raise(c) ==
    /\ call[c].step = "use"
    /\ ~up \/ call[c].held \in stale \cup closed \/ Shared(c)
    /\ CallMoves(c, "failed")
    /\ UNCHANGED <<client, stale, closed, up, outages>>

\* The server answers with an error of its own (a table that is missing, too
\* many queries, a client it does not let in): the code treats it as any other.
Reject(c) ==
    /\ call[c].step \in {"build", "use"}
    /\ up
    /\ CallMoves(c, "failed")
    /\ UNCHANGED <<client, stale, closed, up, outages>>

\* close_clickhouse, on the event loop: closes the client that is there now,
\* which need not be the one that failed.
Close(c) ==
    /\ call[c].step = "failed"
    /\ LoopFree
    /\ UNCHANGED <<client, up, outages>>
    /\ \/ /\ client = NoClient /\ CallEnds(c, "error")
          /\ stale' = Freed(stale) /\ closed' = Freed(closed)
       \/ /\ client # NoClient /\ CallMoves(c, "closing")
          /\ closed' = closed \cup {client} /\ UNCHANGED stale

\* Defect: forgets the client only where it is the one that failed.
ForgetOwn(c) ==
    /\ call[c].step = "closing"
    /\ client' = IF client = call[c].held THEN NoClient ELSE client
    /\ CallEnds(c, "error")
    /\ UNCHANGED <<stale, closed, up, outages>>

\* finally: _client = None.  A thread may have assigned another in between.
Forget(c) ==
    /\ call[c].step = "closing"
    /\ client' = NoClient
    /\ CallEnds(c, "error")
    /\ stale' = Freed(stale) /\ closed' = Freed(closed)
    /\ UNCHANGED <<up, outages>>

GoAway ==
    /\ up /\ outages < MaxOutages
    /\ up' = FALSE /\ outages' = outages + 1
    /\ stale' = InUse
    /\ UNCHANGED <<client, closed, call>>

ComeBack ==
    /\ ~up /\ up' = TRUE
    /\ UNCHANGED <<client, stale, closed, outages, call>>

\* Everything of a call but what the server rejects.
Run(c) == \/ Look(c) \/ Build(c) \/ Assign(c) \/ Return(c)
          \/ Rows(c) \/ Raise(c) \/ Close(c) \/ Forget(c)
-----------------------------------------------------------------------------
ChTypeOK ==
    /\ client \in Client \cup {NoClient}
    /\ stale \subseteq Client /\ closed \subseteq Client
    /\ up \in BOOLEAN /\ outages \in 0 .. MaxOutages
    /\ call \in [Caller -> [step : CallStep, held : Client \cup {NoClient}]]
=============================================================================
