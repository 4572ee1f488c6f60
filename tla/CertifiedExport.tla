-------------------------- MODULE CertifiedExport ---------------------------
(***************************************************************************)
(* What the reporting component promises to whoever lists and downloads    *)
(* reports: an export is published in one step.  A Completed report has    *)
(* the whole content of one run; no other status shows any content.  A     *)
(* task may be run again after its report ended (the broker redelivers),   *)
(* which withdraws the old content before the new one appears.             *)
(*                                                                         *)
(* Spoil is the limit of the promise: the code has no answer to a broker   *)
(* that hands one task to two workers at the same time.                    *)
(***************************************************************************)
CONSTANTS
    Report,     \* the reports that may be requested
    Content,    \* the exports a run may produce
    None        \* no content

VARIABLES
    status,     \* status[r]: what GET /reports shows
    published   \* published[r]: what a download of r delivers

vars == <<status, published>>

Live == {"Queued", "Running", "Completed", "Failed"}

Init ==
    /\ status = [r \in Report |-> "Absent"]
    /\ published = [r \in Report |-> None]

Show(r, s, c) ==
    /\ status' = [status EXCEPT ![r] = s]
    /\ published' = [published EXCEPT ![r] = c]

Accept(r) == status[r] = "Absent" /\ Show(r, "Queued", None)
Start(r) == status[r] \in Live /\ Show(r, "Running", None)
Publish(r) == status[r] = "Running" /\ \E c \in Content : Show(r, "Completed", c)
Fail(r) == status[r] \in Live /\ Show(r, "Failed", None)
Spoil(r) == status[r] \in Live /\ Show(r, "Spoiled", None)

Next == \E r \in Report : Accept(r) \/ Start(r) \/ Publish(r) \/ Fail(r) \/ Spoil(r)

Spec == Init /\ [][Next]_vars
=============================================================================
