----------------------------- MODULE MCUpstreams ----------------------------
(* Over a pool of two connections: four requests that query and nothing else, *)
(* or three of mixed kinds.                                                   *)
(* ClickHouse goes away once and may stay away.                               *)
EXTENDS Upstreams
CONSTANTS r1, r2, r3, r4
Mix(a, b, c, d) == [r \in Request |-> CASE r = r1 -> a [] r = r2 -> b [] r = r3 -> c [] r = r4 -> d]
MCAsked ==
    {<<Mix("records", "records", "records", "records"), TRUE>>,
     <<Mix("ready", "view", "trigger", "none"), TRUE>>,
     <<Mix("records", "trigger", "records", "none"), TRUE>>,
     <<Mix("kpis", "kpis", "config", "none"), FALSE>>,
     <<Mix("kpis", "records", "config", "none"), FALSE>>,
     <<Mix("kpis", "trigger", "view", "none"), FALSE>>,
     <<Mix("config", "config", "ready", "none"), FALSE>>,
     <<Mix("kpis", "config", "ready", "none"), FALSE>>,
     <<Mix("trigger", "trigger", "config", "none"), TRUE>>}
=============================================================================
