-------------------------- MODULE MCLoginAttempts ---------------------------
(* One account, overlapping logins and password changes, a lock that one    *)
(* tick of the clock ends.  The requests are interchangeable, and every     *)
(* property is a safety property, so they are a symmetry set.               *)
EXTENDS LoginAttempts, TLC

Symmetry == Permutations(Request)
=============================================================================
