----------------------------- MODULE MCSessions -----------------------------
(* One account, its sessions and a handful of requests in any interleaving; *)
(* a request can be any of the four kinds.                                  *)
EXTENDS Sessions
=============================================================================
