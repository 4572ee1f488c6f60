-------------------------- MODULE SessionRegister ---------------------------
(***************************************************************************)
(* What the sessions of an account promise to whoever holds their tokens:  *)
(* a session is open under one token at a time, every token is a new one,  *)
(* and a session that was revoked stays revoked and takes no other token.  *)
(*                                                                         *)
(* Waste is the limit of the promise: a pair that was minted before the    *)
(* revocation may still be stored after it, and opens nothing.             *)
(***************************************************************************)
CONSTANTS
    Session,    \* ids of sessions
    Number,     \* the numbers tokens can have
    NoNumber,   \* the token of a session that has none
    Opened, First   \* the session that is open at first, and its token

VARIABLES
    status,     \* status[s]: absent, open or revoked
    token,      \* token[s]: the refresh token that is good for s
    used        \* the numbers that some session has or had

registerVars == <<status, token, used>>

Init ==
    /\ status = [s \in Session |-> IF s = Opened THEN "open" ELSE "absent"]
    /\ token = [s \in Session |-> IF s = Opened THEN First ELSE NoNumber]
    /\ used = {First}

\* A login or a refresh.
Issue(s) ==
    /\ status[s] \in {"absent", "open"}
    /\ \E n \in Number \ used :
           /\ status' = [status EXCEPT ![s] = "open"]
           /\ token' = [token EXCEPT ![s] = n]
           /\ used' = used \cup {n}

Revoke(s) ==
    /\ status[s] = "open"
    /\ status' = [status EXCEPT ![s] = "revoked"]
    /\ token' = [token EXCEPT ![s] = NoNumber]
    /\ UNCHANGED used

Waste(s) ==
    /\ status[s] = "revoked"
    /\ \E n \in Number \ used : used' = used \cup {n}
    /\ UNCHANGED <<status, token>>

Next == \E s \in Session : Issue(s) \/ Revoke(s) \/ Waste(s)

Spec == Init /\ [][Next]_registerVars
=============================================================================
