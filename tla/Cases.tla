-------------------------------- MODULE Cases -------------------------------
(***************************************************************************)
(* The cases of the investigation workbench: create_case allocates a       *)
(* reference and inserts the row (ReferenceNumbers), update_case and the   *)
(* other editors work on rows that are there (SharedRows).  A case exists  *)
(* for an editor from the commit of its create on; its id is the create's  *)
(* name.  The other ids are the rows no create of this module makes: the   *)
(* system configuration and a decoder.                                     *)
(***************************************************************************)
EXTENDS ReferenceNumbers, SharedRows

ASSUME CasesAssumption == Request = CaseId

vars == <<pc, ref, row, edit>>

CasesInit == /\ Init
             /\ RowsInit
             /\ \A r \in Request : row[r] = NoRow

\* create_case up to the end of its transaction.
PrepareCase(r) == (Count(r) \/ Insert(r) \/ Conflict(r) \/ Abort(r)) /\ UNCHANGED rowVars

\* Its commit is what makes the row visible, with what the form held.
CommitCase(r) == /\ Commit(r)
                 /\ row' = [row EXCEPT ![r] = Defaults]
                 /\ UNCHANGED edit

CasesNext == \/ \E r \in Request : PrepareCase(r) \/ CommitCase(r)
             \/ RowsNext /\ UNCHANGED refVars

CasesSafeSpec == CasesInit /\ [][CasesNext]_vars
CasesSpec == CasesSafeSpec /\ RefFairness /\ RowsFairness
-----------------------------------------------------------------------------
CasesTypeOK == RefTypeOK /\ RowsTypeOK

\* Whoever edits, a case is there exactly when its reference was committed: a
\* conflict or a rollback of create_case leaves neither behind, and an editor
\* never meets a case whose number may yet be refused.
CaseHasReference == \A r \in Request : Exists(r) <=> r \in Committed

\* Requests that wait for each other, for the unique key of a reference, for a
\* row or for the key of the configuration, all end.
CasesEnd == CreatesEnd /\ EditsEnd
=============================================================================
