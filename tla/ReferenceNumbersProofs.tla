----------------------- MODULE ReferenceNumbersProofs -----------------------
(***************************************************************************)
(* The count-plus-one allocation is gap-free and duplicate-free for every  *)
(* finite set of requests.                                                 *)
(***************************************************************************)
EXTENDS ReferenceNumbers, FiniteSetTheorems, TLAPS

\* The rows of the table as the next request will count them.
Rows == Cardinality(Committed)

\* A number was computed from a count the table has reached or passed.
CountedBehind == \A r \in Request : pc[r] = "counted" => ref[r] \in 1 .. Rows + 1

\* An open transaction holds exactly the next number, so there is one at most:
\* the UNIQUE index turns the inserts into a queue.
OpenHoldsNext == \A r \in Request : pc[r] = "inserted" => ref[r] = Rows + 1
OneOpen == \A q, r \in Request : pc[q] = "inserted" /\ pc[r] = "inserted" => q = r

NoDuplicate == \A q, r \in Committed : ref[q] = ref[r] => q = r

RefInv ==
    /\ RefTypeOK
    /\ NoGap
    /\ NoDuplicate
    /\ CountedBehind
    /\ OpenHoldsNext
    /\ OneOpen

-----------------------------------------------------------------------------
\* The rows are finitely many: the count is a natural number.
LEMMA RowsIsNat == IsFiniteSet(Committed) /\ Rows \in Nat
<1>1. IsFiniteSet(Committed)
  BY RequestAssumption, FS_Subset DEF Committed
<1> QED
  BY <1>1, FS_CardinalityType DEF Rows

\* A step that neither commits nor touches a committed row keeps the table.
LEMMA TableKept ==
  ASSUME RefTypeOK,
         NEW r \in Request, pc[r] # "committed",
         NEW p \in Phase, p # "committed", pc' = [pc EXCEPT ![r] = p],
         NEW n \in Nat, ref' = [ref EXCEPT ![r] = n]
  PROVE  /\ Committed' = Committed
         /\ Rows' = Rows
         /\ \A q \in Committed : ref'[q] = ref[q]
<1>1. Committed' = Committed
  BY DEF Committed, RefTypeOK
<1> QED
  BY <1>1 DEF Committed, RefTypeOK, Rows

\* Init establishes the inductive invariant: the table is empty.
LEMMA RefInitInv == Init => RefInv
<1> SUFFICES ASSUME Init PROVE RefInv
  OBVIOUS
<1>1. Committed = {}
  BY DEF Init, Committed
<1>2. Cardinality(Committed) = 0
  BY <1>1, FS_EmptySet
<1> QED
  BY <1>1, <1>2 DEF Init, RefInv, RefTypeOK, NoGap, NoDuplicate, CountedBehind,
       OpenHoldsNext, OneOpen, Phase

\* Every action, and stuttering, keeps the inductive invariant.
LEMMA RefStepInv == RefInv /\ [Next]_refVars => RefInv'
<1> SUFFICES ASSUME RefInv, [Next]_refVars PROVE RefInv'
  OBVIOUS
<1> USE DEF RefInv
<1>r. Rows \in Nat /\ IsFiniteSet(Committed)
  BY RowsIsNat
<1>1. ASSUME NEW r \in Request, Count(r) PROVE RefInv'
  <2>1. /\ ref' = [ref EXCEPT ![r] = Rows + 1]
        /\ pc' = [pc EXCEPT ![r] = "counted"]
        /\ pc[r] = "start"
    BY <1>1 DEF Count, NextReference, Rows
  <2>2. /\ Committed' = Committed
        /\ Rows' = Rows
        /\ \A q \in Committed : ref'[q] = ref[q]
    <3>1. Rows + 1 \in Nat /\ "counted" \in Phase
      BY <1>r DEF Phase
    <3>2. RefTypeOK
      OBVIOUS
    <3> QED
      BY ONLY <2>1, <3>1, <3>2, TableKept
  <2>3. RefTypeOK'
    BY <1>r, <2>1 DEF RefTypeOK, Phase
  <2>4. NoGap' /\ NoDuplicate'
    BY <2>2 DEF NoGap, NoDuplicate
  <2>5. CountedBehind'
    BY <1>r, <2>1, <2>2 DEF CountedBehind, RefTypeOK
  <2>6. OpenHoldsNext' /\ OneOpen'
    BY <2>1, <2>2 DEF OpenHoldsNext, OneOpen, RefTypeOK
  <2> QED
    BY <2>3, <2>4, <2>5, <2>6
<1>2. ASSUME NEW r \in Request, Insert(r) PROVE RefInv'
  <2>1. /\ pc[r] = "counted" /\ ~Taken(r) /\ ~HeldByOther(r)
        /\ pc' = [pc EXCEPT ![r] = "inserted"] /\ ref' = ref
    BY <1>2 DEF Insert
  <2>2. ref' = [ref EXCEPT ![r] = ref[r]] /\ ref[r] \in Nat
    BY <2>1 DEF RefTypeOK
  <2>3. Committed' = Committed /\ Rows' = Rows
    BY <2>1, <2>2, TableKept DEF Phase
  <2>4. RefTypeOK'
    BY <2>1 DEF RefTypeOK, Phase
  <2>5. NoGap' /\ NoDuplicate'
    BY <2>1, <2>3 DEF NoGap, NoDuplicate
  <2>6. CountedBehind'
    BY <2>1, <2>3 DEF CountedBehind, RefTypeOK
  <2>7. ref[r] = Rows + 1
    <3>1. ref[r] \in 1 .. Rows + 1
      BY <2>1 DEF CountedBehind
    <3>2. ref[r] \notin 1 .. Rows
      BY <2>1 DEF NoGap, Taken, Rows
    <3> QED
      BY <1>r, <3>1, <3>2
  <2>8. OpenHoldsNext'
    BY <2>1, <2>3, <2>7 DEF OpenHoldsNext, RefTypeOK
  <2>9. \A q \in Request \ {r} : pc[q] # "inserted"
    BY <2>1, <2>7 DEF OpenHoldsNext, HeldByOther
  <2>10. OneOpen'
    BY <2>1, <2>9 DEF OneOpen, RefTypeOK
  <2> QED
    BY <2>4, <2>5, <2>6, <2>8, <2>10
<1>3. ASSUME NEW r \in Request, Commit(r) PROVE RefInv'
  <2>1. /\ pc[r] = "inserted" /\ pc' = [pc EXCEPT ![r] = "committed"] /\ ref' = ref
    BY <1>3 DEF Commit
  <2>2. Committed' = Committed \cup {r} /\ r \notin Committed
    BY <2>1 DEF Committed, RefTypeOK
  <2>3. Rows' = Rows + 1
    BY <1>r, <2>2, FS_AddElement DEF Rows
  <2>4. ref[r] = Rows + 1
    BY <2>1 DEF OpenHoldsNext
  <2>5. RefTypeOK'
    BY <2>1 DEF RefTypeOK, Phase
  <2>6. NoGap'
    <3>1. {ref'[q] : q \in Committed'} = {ref[q] : q \in Committed} \cup {Rows + 1}
      BY <2>1, <2>2, <2>4
    <3>2. {ref[q] : q \in Committed} = 1 .. Rows
      BY DEF NoGap, Rows
    <3>3. (1 .. Rows) \cup {Rows + 1} = 1 .. (Rows + 1)
      BY <1>r
    <3>4. {ref'[q] : q \in Committed'} = 1 .. Rows'
      BY <2>3, <3>1, <3>2, <3>3
    <3> QED
      BY <3>4 DEF NoGap, Rows
  <2>7. NoDuplicate'
    <3>1. \A q \in Committed : ref[q] \in 1 .. Rows
      BY DEF NoGap, Rows
    <3> QED
      BY <1>r, <2>1, <2>2, <2>4, <3>1 DEF NoDuplicate
  <2>8. CountedBehind'
    BY <1>r, <2>1, <2>3 DEF CountedBehind, RefTypeOK
  <2>9. OpenHoldsNext' /\ OneOpen'
    BY <2>1 DEF OpenHoldsNext, OneOpen, RefTypeOK
  <2> QED
    BY <2>5, <2>6, <2>7, <2>8, <2>9
<1>4. ASSUME NEW r \in Request, Conflict(r) \/ Abort(r) PROVE RefInv'
  <2>1. PICK p \in {"conflict", "aborted"} :
          pc[r] \in {"counted", "inserted"} /\ pc' = [pc EXCEPT ![r] = p] /\ ref' = ref
    BY <1>4 DEF Conflict, Abort
  <2>2. ref' = [ref EXCEPT ![r] = ref[r]] /\ ref[r] \in Nat
    BY <2>1 DEF RefTypeOK
  <2>3. Committed' = Committed /\ Rows' = Rows
    BY <2>1, <2>2, TableKept DEF Phase
  <2>4. RefTypeOK'
    BY <2>1 DEF RefTypeOK, Phase
  <2>5. NoGap' /\ NoDuplicate'
    BY <2>1, <2>3 DEF NoGap, NoDuplicate
  <2>6. CountedBehind' /\ OpenHoldsNext' /\ OneOpen'
    BY <2>1, <2>3 DEF CountedBehind, OpenHoldsNext, OneOpen, RefTypeOK
  <2> QED
    BY <2>4, <2>5, <2>6
<1>5. CASE UNCHANGED refVars
  BY <1>5 DEF refVars, RefTypeOK, NoGap, NoDuplicate, CountedBehind, OpenHoldsNext,
       OneOpen, Committed, Rows
<1> QED
  BY <1>1, <1>2, <1>3, <1>4, <1>5 DEF Next, Create

-----------------------------------------------------------------------------
\* The allocation as a safety specification: liveness is not needed below.
THEOREM RefInvHolds == RefSafeSpec => []RefInv
<1> QED
  BY RefInitInv, RefStepInv, PTL DEF RefSafeSpec

\* Type correctness of the allocation, for any finite set of create requests.
THEOREM RefTypeCorrect == RefSafeSpec => []RefTypeOK
<1>1. RefInv => RefTypeOK
  BY DEF RefInv
<1> QED
  BY RefInvHolds, <1>1, PTL

\* The committed references of a table are exactly 1 .. n at all times, so that
\* count + 1 is always a number no row has (_next_reference and its siblings).
THEOREM NoGapHolds == RefSafeSpec => []NoGap
<1>1. RefInv => NoGap
  BY DEF RefInv
<1> QED
  BY RefInvHolds, <1>1, PTL

\* No two committed rows share a reference.
THEOREM NoDuplicateHolds == RefSafeSpec => []NoDuplicate
<1>1. RefInv => NoDuplicate
  BY DEF RefInv
<1> QED
  BY RefInvHolds, <1>1, PTL

\* References are issued in commit order, although each was computed from a
\* count that other commits may have overtaken.
THEOREM CommitOrderHolds == RefSafeSpec => IssuedInCommitOrder
<1>1. ASSUME RefInv, [Next]_refVars, NEW r \in Request,
             pc[r] # "committed", pc'[r] = "committed"
      PROVE  \A q \in Committed : ref[q] < ref'[r]
  <2>1. Commit(r)
    BY <1>1 DEF RefInv, RefTypeOK, Next, Create, Count, Insert, Conflict, Commit, Abort,
         refVars
  <2>2. ref'[r] = Rows + 1
    BY <1>1, <2>1 DEF Commit, RefInv, OpenHoldsNext
  <2>3. \A q \in Committed : ref[q] \in 1 .. Rows
    BY <1>1 DEF RefInv, NoGap, Rows
  <2> QED
    BY <2>2, <2>3, RowsIsNat
<1>2. RefInv /\ [Next]_refVars =>
        [\A r \in Request : (pc[r] # "committed" /\ pc'[r] = "committed")
            => \A q \in Committed : ref[q] < ref'[r]]_refVars
  BY <1>1
<1> QED
  BY RefInvHolds, <1>2, PTL DEF IssuedInCommitOrder, RefSafeSpec
=============================================================================
