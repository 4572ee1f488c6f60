-------------------------- MODULE ReferenceNumbers --------------------------
(***************************************************************************)
(* The human-readable references (RPT-9901, CASE-2001, Q-501, ...).  Three *)
(* services allocate them in the same way: count the rows of the table,    *)
(* add one, insert a row under that number, and commit when the request    *)
(* ends.  No sequence and no lock is involved: a UNIQUE index is what      *)
(* stops two requests that counted the same rows.                          *)
(*                                                                         *)
(* A number here is the distance from the table's base (9900, 2000, 500).  *)
(* PostgreSQL runs READ COMMITTED: a count sees committed rows only, and   *)
(* an INSERT whose key another open transaction has inserted waits for     *)
(* that transaction to end.                                                *)
(***************************************************************************)
EXTENDS Integers, FiniteSets

CONSTANT
    Request \* create requests; each one is a transaction that adds a row

ASSUME RequestAssumption == IsFiniteSet(Request)

VARIABLES
    pc,     \* pc[r]: how far the handler of r has come
    ref     \* ref[r]: the number r has computed, 0 before it counts

refVars == <<pc, ref>>

Phase == {"start", "counted", "inserted", "committed", "conflict", "aborted"}
Ended == {"committed", "conflict", "aborted"}

\* The rows other transactions see.
Committed == {r \in Request : pc[r] = "committed"}

\* Defects for the mutation checks: the count used as it is, and one subtracted.
NextReferenceIsCount == Cardinality(Committed)
NextReferenceBelow == Cardinality(Committed) - 1

\* select(func.count(...)) + 1
NextReference == Cardinality(Committed) + 1

\* Defect: the reference column without its UNIQUE index.
NeverTaken(r) == r \notin Request

\* The UNIQUE index on the reference column: nobody has committed r's number,
\* or an open transaction holds it, in which case r's INSERT waits.
Taken(r) == \E q \in Committed : ref[q] = ref[r]
HeldByOther(r) == \E q \in Request \ {r} : pc[q] = "inserted" /\ ref[q] = ref[r]

Init ==
    /\ pc = [r \in Request |-> "start"]
    /\ ref = [r \in Request |-> 0]

-----------------------------------------------------------------------------
Count(r) ==
    /\ pc[r] = "start"
    /\ ref' = [ref EXCEPT ![r] = NextReference]
    /\ pc' = [pc EXCEPT ![r] = "counted"]

\* db.add(...); await db.flush()
Insert(r) ==
    /\ pc[r] = "counted"
    /\ ~Taken(r)
    /\ ~HeldByOther(r)
    /\ pc' = [pc EXCEPT ![r] = "inserted"]
    /\ UNCHANGED ref

\* Defect: the insert retried for ever under the number it failed with.
RetrySameNumber(r) ==
    /\ pc[r] = "counted"
    /\ Taken(r)
    /\ UNCHANGED refVars

\* The flush raises IntegrityError; the handler in errors.py answers with a 4xx.
Conflict(r) ==
    /\ pc[r] = "counted"
    /\ Taken(r)
    /\ pc' = [pc EXCEPT ![r] = "conflict"]
    /\ UNCHANGED ref

\* get_session commits when the endpoint returns.
Commit(r) ==
    /\ pc[r] = "inserted"
    /\ pc' = [pc EXCEPT ![r] = "committed"]
    /\ UNCHANGED ref

\* An exception, a lost connection or the death of the process after the
\* transaction began: PostgreSQL rolls it back.
Abort(r) ==
    /\ pc[r] \in {"counted", "inserted"}
    /\ pc' = [pc EXCEPT ![r] = "aborted"]
    /\ UNCHANGED ref

Create(r) == Count(r) \/ Insert(r) \/ Conflict(r) \/ Commit(r)

Next == \E r \in Request : Create(r) \/ Abort(r)

\* A request that can go on does: the event loop resumes every handler whose
\* statement has returned.  Failures are never obliged to happen.
RefFairness == \A r \in Request : WF_refVars(Create(r))

RefSafeSpec == Init /\ [][Next]_refVars
RefSpec == RefSafeSpec /\ RefFairness

-----------------------------------------------------------------------------
RefTypeOK ==
    /\ pc \in [Request -> Phase]
    /\ ref \in [Request -> Nat]

\* The committed references are 1, 2, ..., n with no gap and no duplicate,
\* whatever creates overlapped, conflicted or rolled back.  It is what makes
\* count + 1 a number nobody owns (_next_reference): one gap, and every later
\* create would collide for ever.
NoGap == {ref[r] : r \in Committed} = 1 .. Cardinality(Committed)

\* References are handed out in commit order: a row that commits later bears
\* a larger number than every row committed before it, although the number
\* was computed before the insert, from a count that may have been stale.
IssuedInCommitOrder ==
    [][\A r \in Request :
        (pc[r] # "committed" /\ pc'[r] = "committed")
            => \A q \in Committed : ref[q] < ref'[r]]_refVars

\* Waiting on the UNIQUE index never wedges a request: every create that
\* counted ends, one way or another.
CreatesEnd == <>[](\A r \in Request : pc[r] \in Ended \cup {"start"})
=============================================================================
