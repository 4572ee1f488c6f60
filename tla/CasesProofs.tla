---------------------------- MODULE CasesProofs -----------------------------
(***************************************************************************)
(* Shared rows under any number of editors, and the cases they edit: what  *)
(* the handlers rely on without a version column, for all ids, columns and *)
(* bodies.  ReferenceNumbersProofs gives the invariant of the references.  *)
(***************************************************************************)
EXTENDS Cases, ReferenceNumbersProofs

Open(e) == edit[e].step \in {"dirty", "flushed"}

\* A request adds rows of the upserted tables only; the row it edits is there
\* and stays there, for nothing is ever deleted.
RowIsThere == \A e \in Edit : Open(e) =>
    /\ edit[e].object \in Fields
    /\ Inserts(e) => edit[e].id \in Upserted
    /\ ~Inserts(e) => Exists(edit[e].id)

\* What differs from the row as loaded was sent.
AssignsSent == \A e \in Edit : (Open(e) /\ ~Inserts(e)) =>
    \A c \in Column : edit[e].object[c] # edit[e].loaded[c] =>
        c \in DOMAIN edit[e].sent /\ edit[e].object[c] = edit[e].sent[c]

\* The row lock and the key: between flush and commit one request at most has
\* a row to write, and a key it inserts is not there.
OneWriter == \A e, f \in Edit :
    (e # f /\ edit[e].step = "flushed" /\ edit[f].step = "flushed" /\ Writes(e) /\ Writes(f))
        => edit[e].id # edit[f].id
KeyIsNew == \A e \in Edit : (edit[e].step = "flushed" /\ Inserts(e)) => ~Exists(edit[e].id)

\* So the answer that was read after the flush stays what the commit stores.
AnswerHolds == \A e \in Edit : (edit[e].step = "flushed" /\ Writes(e)) => edit[e].answer = Stored(e)

\* A row that was there when the request came in is there, and was loaded.
SettledIsLoaded == \A e \in Edit : edit[e].settled =>
    /\ Exists(edit[e].id)
    /\ Open(e) => ~Inserts(e)
    /\ edit[e].step \notin {"not_found", "conflict"}

RowsInv == /\ RowsTypeOK /\ RowIsThere /\ AssignsSent /\ OneWriter
           /\ KeyIsNew /\ AnswerHolds /\ SettledIsLoaded

CasesInv == RefInv /\ CaseHasReference /\ RowsInv

-----------------------------------------------------------------------------
\* There is a column, so the absence of a row is not a row.
LEMMA NoRowIsNoFields == NoRow \notin Fields
  BY RowsAssumption DEF NoRow, Fields

\* What the handlers assign comes from a request body.
LEMMA BodiesArePayload == \A i \in Id : Bodies(i) \subseteq Payload
<1>1. [Column -> Value] \subseteq Payload
  BY DEF Payload, Cell
<1>2. DecoderBodies \subseteq Payload /\ CaseBodies \subseteq Payload
  BY DEF DecoderBodies, CaseBodies
<1>3. ConfigBodies \subseteq Payload
  BY DEF ConfigBodies, Payload, Cell
<1> QED
  BY <1>1, <1>2, <1>3 DEF Bodies, Id, AlertBodies

\* An assignment of a body gives the columns of a row.
LEMMA AssignIsFields ==
  ASSUME NEW fields \in Fields, NEW sent \in Payload
  PROVE  Assign(fields, sent) \in Fields
  BY DEF Assign, Fields, Payload

LEMMA DefaultsAreFields == Defaults \in Fields
  BY RowsAssumption DEF Defaults, Fields, Cell

LEMMA NewEditIsState == NewEdit \in EditState
<1>1. (CHOOSE i \in Id : TRUE) \in Id
  BY RowsAssumption DEF Id
<1>2. NoRow \in Payload
  BY DEF NoRow, Payload
<1> QED
  BY <1>1, <1>2 DEF NewEdit, EditState, EditStep

\* What a flushed request stores is a row.
LEMMA StoredIsFields ==
  ASSUME RowsTypeOK, RowIsThere, NEW e \in Edit, Open(e)
  PROVE  Stored(e) \in Fields
<1>1. CASE Inserts(e)
  BY <1>1 DEF RowIsThere, Stored
<1>2. CASE ~Inserts(e)
  <2>1. edit[e].object \in Fields /\ edit[e].loaded \in Fields /\ row[edit[e].id] \in Fields
    BY <1>2 DEF RowIsThere, RowsTypeOK, EditState, Inserts, Exists
  <2> QED
    BY <1>2, <2>1 DEF Stored, Flush, Fields
<1> QED
  BY <1>1, <1>2

-----------------------------------------------------------------------------
\* One request changes state: what the others see of each other.
LEMMA OthersKept ==
  ASSUME RowsTypeOK, NEW e \in Edit, NEW x \in EditState, edit' = [edit EXCEPT ![e] = x]
  PROVE  /\ edit' \in [Edit -> EditState]
         /\ edit'[e] = x
         /\ \A f \in Edit \ {e} : edit'[f] = edit[f]
  BY DEF RowsTypeOK

\* A request that arrives or ends without a commit disturbs nothing.
LEMMA IdleKeeps ==
  ASSUME RowsInv, NEW e \in Edit, NEW x \in EditState,
         edit' = [edit EXCEPT ![e] = x], row' = row,
         x.step \notin {"dirty", "flushed"},
         x.settled => Exists(x.id) /\ x.step \notin {"not_found", "conflict"}
  PROVE  RowsInv'
<1>1. RowsTypeOK
  BY DEF RowsInv
<1>2. /\ edit' \in [Edit -> EditState]
      /\ edit'[e] = x
      /\ \A f \in Edit \ {e} : edit'[f] = edit[f]
  BY <1>1, OthersKept
<1>3. RowsTypeOK'
  BY <1>1, <1>2 DEF RowsTypeOK
<1>4. RowIsThere'
  BY <1>2 DEF RowsInv, RowIsThere, Open, Inserts, Exists
<1>5. AssignsSent'
  BY <1>2 DEF RowsInv, AssignsSent, Open, Inserts
<1>6. OneWriter'
  BY <1>2 DEF RowsInv, OneWriter, Writes
<1>7. KeyIsNew'
  BY <1>2 DEF RowsInv, KeyIsNew, Inserts, Exists
<1>8. AnswerHolds'
  BY <1>2 DEF RowsInv, AnswerHolds, Writes, Stored, Inserts
<1>9. SettledIsLoaded'
  BY <1>2 DEF RowsInv, SettledIsLoaded, Open, Inserts, Exists
<1> QED
  BY <1>3, <1>4, <1>5, <1>6, <1>7, <1>8, <1>9 DEF RowsInv

\* So does a request that ends without a commit.
LEMMA EndKeeps ==
  ASSUME RowsInv, NEW e \in Edit, NEW s \in EditEnded, EndsEdit(e, s), row' = row,
         s \in {"not_found", "conflict"} => ~edit[e].settled
  PROVE  RowsInv'
<1> DEFINE x == [NewEdit EXCEPT !.step = s,
                                !.settled = edit[e].settled /\ s \in {"not_found", "conflict"}]
<1>1. x \in EditState /\ x.step = s /\ ~x.settled
  BY NewEditIsState DEF EditState, EditStep
<1>2. edit' = [edit EXCEPT ![e] = x]
  BY DEF EndsEdit
<1>3. s \notin {"dirty", "flushed"}
  BY DEF EditEnded
<1> HIDE DEF x
<1> QED
  BY <1>1, <1>2, <1>3, IdleKeeps

\* A row is there: the absence of one is not a row.
LEMMA RowsExist ==
  ASSUME RowsTypeOK, NEW i \in Id
  PROVE  Exists(i) <=> row[i] \in Fields
  BY NoRowIsNoFields DEF RowsTypeOK, Exists

-----------------------------------------------------------------------------
\* A request arrives.
LEMMA ArriveKeeps == ASSUME RowsInv, NEW e \in Edit, ArriveEdit(e) PROVE RowsInv'
<1>1. PICK i \in Id : \E sent \in Bodies(i) :
        edit' = [edit EXCEPT ![e] = [NewEdit EXCEPT !.step = "select", !.id = i,
                                       !.sent = sent, !.settled = Exists(i)]]
  BY DEF ArriveEdit
<1>2. PICK sent \in Bodies(i) :
        edit' = [edit EXCEPT ![e] = [NewEdit EXCEPT !.step = "select", !.id = i,
                                       !.sent = sent, !.settled = Exists(i)]]
  BY <1>1
<1> DEFINE x == [NewEdit EXCEPT !.step = "select", !.id = i, !.sent = sent,
                                !.settled = Exists(i)]
<1>3. sent \in Payload /\ Exists(i) \in BOOLEAN
  BY BodiesArePayload DEF Exists
<1>4. x \in EditState /\ x.step = "select" /\ x.id = i /\ x.settled = Exists(i)
  BY <1>3, NewEditIsState DEF EditState, EditStep, EditEnded
<1>5. edit' = [edit EXCEPT ![e] = x] /\ row' = row
  BY <1>2 DEF ArriveEdit
<1> HIDE DEF x
<1> QED
  BY <1>4, <1>5, IdleKeeps

\* The row is found or added, or the answer is 404.
LEMMA SelectKeeps == ASSUME RowsInv, NEW e \in Edit, Select(e) PROVE RowsInv'
<1> DEFINE i == edit[e].id
           base == IF Exists(i) THEN row[i] ELSE Defaults
           object == Assign(base, edit[e].sent)
           x == [edit[e] EXCEPT !.step = "dirty", !.loaded = row[i], !.object = object]
<1>t. RowsTypeOK /\ edit[e] \in EditState /\ edit[e].step = "select"
  BY DEF RowsInv, RowsTypeOK, Select
<1>i. i \in Id /\ edit[e].sent \in Payload
  BY <1>t DEF EditState
<1>1. CASE /\ Exists(i) \/ i \in Upserted
           /\ edit' = [edit EXCEPT ![e].step = "dirty", ![e].loaded = row[i],
                                   ![e].object = object]
  <2>1. base \in Fields
    BY <1>t, <1>i, RowsExist, DefaultsAreFields
  <2>2. object \in Fields
    BY <1>i, <2>1, AssignIsFields
  <2>3. row[i] \in Fields \cup {NoRow}
    BY <1>t, <1>i DEF RowsTypeOK
  <2>o. \A c \in Column : object[c] # base[c] =>
          c \in DOMAIN edit[e].sent /\ object[c] = edit[e].sent[c]
    BY DEF Assign
  <2> HIDE DEF object
  <2>4. /\ x \in EditState /\ x.step = "dirty" /\ x.id = i /\ x.sent = edit[e].sent
        /\ x.loaded = row[i] /\ x.object = object /\ x.settled = edit[e].settled
    BY <1>t, <2>2, <2>3 DEF EditState, EditStep
  <2>5. edit' = [edit EXCEPT ![e] = x] /\ row' = row
    BY <1>1 DEF Select
  <2> HIDE DEF x
  <2>6. /\ edit' \in [Edit -> EditState]
        /\ edit'[e] = x
        /\ \A f \in Edit \ {e} : edit'[f] = edit[f]
    BY <1>t, <2>4, <2>5, OthersKept
  <2>7. RowsTypeOK'
    BY <1>t, <2>5, <2>6 DEF RowsTypeOK
  <2>8. RowIsThere'
    <3>1. \A f \in Edit \ {e} : Open(f)' =>
            /\ edit'[f].object \in Fields
            /\ Inserts(f)' => edit'[f].id \in Upserted
            /\ ~Inserts(f)' => Exists(edit[f].id)'
      BY <2>5, <2>6 DEF RowsInv, RowIsThere, Open, Inserts, Exists
    <3>2. /\ edit'[e].object \in Fields
          /\ Inserts(e)' => edit'[e].id \in Upserted
          /\ ~Inserts(e)' => Exists(edit[e].id)'
      BY <1>1, <2>2, <2>4, <2>5, <2>6 DEF Inserts, Exists
    <3> QED
      BY <2>4, <2>6, <3>1, <3>2 DEF RowIsThere
  <2>9. AssignsSent'
    <3>1. \A f \in Edit \ {e} : (Open(f)' /\ ~Inserts(f)') => \A c \in Column :
            edit'[f].object[c] # edit'[f].loaded[c] =>
                c \in DOMAIN edit'[f].sent /\ edit'[f].object[c] = edit'[f].sent[c]
      BY <2>6 DEF RowsInv, AssignsSent, Open, Inserts
    <3>2. ~Inserts(e)' => base = row[i]
      BY <2>4, <2>6 DEF Inserts, Exists
    <3> QED
      BY <2>4, <2>6, <2>o, <3>1, <3>2 DEF AssignsSent
  <2>10. OneWriter' /\ KeyIsNew' /\ AnswerHolds'
    <3>1. \A f \in Edit : edit'[f].step = "flushed" => edit'[f] = edit[f]
      BY <2>4, <2>6
    <3>2. OneWriter'
      BY <3>1 DEF RowsInv, OneWriter, Writes
    <3>3. KeyIsNew'
      BY <2>5, <3>1 DEF RowsInv, KeyIsNew, Inserts, Exists
    <3>4. AnswerHolds'
      BY <2>5, <3>1 DEF RowsInv, AnswerHolds, Writes, Stored, Inserts
    <3> QED
      BY <3>2, <3>3, <3>4
  <2>11. SettledIsLoaded'
    <3>1. \A f \in Edit \ {e} : edit'[f].settled =>
            /\ Exists(edit[f].id)'
            /\ Open(f)' => ~Inserts(f)'
            /\ edit'[f].step \notin {"not_found", "conflict"}
      BY <2>5, <2>6 DEF RowsInv, SettledIsLoaded, Open, Inserts, Exists
    <3>2. edit[e].settled => Exists(i)
      BY DEF RowsInv, SettledIsLoaded
    <3> QED
      BY <2>4, <2>5, <2>6, <3>1, <3>2 DEF SettledIsLoaded, Inserts, Exists
  <2> QED
    BY <2>7, <2>8, <2>9, <2>10, <2>11 DEF RowsInv
<1>2. CASE ~Exists(i) /\ i \notin Upserted /\ EndsEdit(e, "not_found")
  <2>1. ~edit[e].settled
    BY <1>2 DEF RowsInv, SettledIsLoaded
  <2> QED
    BY <1>2, <2>1, EndKeeps DEF Select, EditEnded
<1> QED
  BY <1>1, <1>2 DEF Select

\* The write of a request: it takes the row lock or the key, and its answer is
\* what it has stored.
LEMMA FlushKeeps == ASSUME RowsInv, NEW e \in Edit, FlushEdit(e) PROVE RowsInv'
<1> DEFINE nulled == \E c \in Required : edit[e].object[c] = Null
           taken == Inserts(e) /\ Exists(edit[e].id)
           x == [edit[e] EXCEPT !.step = "flushed", !.answer = Stored(e)]
<1>t. RowsTypeOK /\ edit[e] \in EditState /\ edit[e].step = "dirty" /\ row' = row
  BY DEF RowsInv, RowsTypeOK, FlushEdit
<1>1. CASE nulled /\ EndsEdit(e, "refused")
  BY <1>1, <1>t, EndKeeps DEF EditEnded
<1>2. CASE ~nulled /\ taken /\ EndsEdit(e, "conflict")
  <2>1. ~edit[e].settled
    BY <1>2, <1>t DEF RowsInv, SettledIsLoaded, Open
  <2> QED
    BY <1>2, <1>t, <2>1, EndKeeps DEF EditEnded
<1>3. CASE /\ ~taken
           /\ edit' = [edit EXCEPT ![e].step = "flushed", ![e].answer = Stored(e)]
  <2>1. Stored(e) \in Fields
    BY <1>t, StoredIsFields DEF RowsInv, Open
  <2>2. /\ x \in EditState /\ x.step = "flushed" /\ x.answer = Stored(e)
        /\ x.id = edit[e].id /\ x.sent = edit[e].sent /\ x.loaded = edit[e].loaded
        /\ x.object = edit[e].object /\ x.settled = edit[e].settled
    BY <1>t, <2>1 DEF EditState, EditStep
  <2>3. edit' = [edit EXCEPT ![e] = x]
    BY <1>3
  <2> HIDE DEF x
  <2>4. /\ edit' \in [Edit -> EditState]
        /\ edit'[e] = x
        /\ \A f \in Edit \ {e} : edit'[f] = edit[f]
    BY <1>t, <2>2, <2>3, OthersKept
  <2>5. \A f \in Edit : /\ edit'[f].id = edit[f].id /\ edit'[f].sent = edit[f].sent
                         /\ edit'[f].loaded = edit[f].loaded
                         /\ edit'[f].object = edit[f].object
                         /\ edit'[f].settled = edit[f].settled
                         /\ Open(f)' = Open(f)
    BY <1>t, <2>2, <2>4 DEF Open
  <2>6. RowsTypeOK'
    BY <1>t, <2>4 DEF RowsTypeOK
  <2>7. RowIsThere'
    BY <1>t, <2>5 DEF RowsInv, RowIsThere, Inserts, Exists
  <2>8. AssignsSent'
    BY <2>5 DEF RowsInv, AssignsSent, Inserts
  <2>9. OneWriter'
    <3>1. \A f \in Edit \ {e} : (edit[f].step = "flushed" /\ Writes(f) /\ Writes(e))
            => edit[f].id # edit[e].id
      BY DEF FlushEdit, Held
    <3> QED
      BY <2>4, <2>5, <3>1 DEF RowsInv, OneWriter, Writes
  <2>10. KeyIsNew'
    BY <1>3, <1>t, <2>4, <2>5 DEF RowsInv, KeyIsNew, Inserts, Exists
  <2>11. AnswerHolds'
    <3>1. \A f \in Edit : Stored(f)' = Stored(f)
      BY <1>t, <2>5 DEF Stored, Inserts
    <3> QED
      BY <2>2, <2>4, <2>5, <3>1 DEF RowsInv, AnswerHolds, Writes
  <2>12. SettledIsLoaded'
    <3>1. \A f \in Edit : edit'[f].step \in {"not_found", "conflict"} => edit'[f] = edit[f]
      BY <2>2, <2>4
    <3> QED
      BY <1>t, <2>5, <3>1 DEF RowsInv, SettledIsLoaded, Inserts, Exists
  <2> QED
    BY <2>6, <2>7, <2>8, <2>9, <2>10, <2>11, <2>12 DEF RowsInv
<1> QED
  BY <1>1, <1>2, <1>3 DEF FlushEdit

\* A request that changed nothing commits nothing.
LEMMA ReaderStoresNothing ==
  ASSUME RowsInv, NEW e \in Edit, CommitEdit(e), ~Writes(e)
  PROVE  row' = row
<1>1. RowsTypeOK /\ edit[e] \in EditState /\ edit[e].step = "flushed" /\ Open(e)
  BY DEF RowsInv, RowsTypeOK, CommitEdit, Open
<1>2. edit[e].object \in Fields /\ edit[e].object = edit[e].loaded
  BY <1>1 DEF RowsInv, RowIsThere, Writes
<1>3. ~Inserts(e) /\ row[edit[e].id] \in Fields
  BY <1>1, <1>2, NoRowIsNoFields, RowsExist DEF Inserts, RowsInv, RowIsThere, EditState
<1>4. Stored(e) = Flush(row[edit[e].id], edit[e].loaded, edit[e].object)
  BY <1>3 DEF Stored
<1>5. Stored(e) = row[edit[e].id]
  BY <1>2, <1>3, <1>4 DEF Flush, Fields
<1>6. row' = [row EXCEPT ![edit[e].id] = row[edit[e].id]]
  BY <1>5 DEF CommitEdit
<1> QED
  BY <1>1, <1>6 DEF RowsTypeOK

\* The commit of one request leaves the others the row they have written, the
\* row they have loaded and the key they have inserted.
LEMMA CommitKeeps == ASSUME RowsInv, NEW e \in Edit, CommitEdit(e) PROVE RowsInv'
<1> DEFINE i == edit[e].id
           x == [NewEdit EXCEPT !.step = "committed",
                   !.settled = edit[e].settled /\ "committed" \in {"not_found", "conflict"}]
<1>1. RowsTypeOK /\ edit[e] \in EditState /\ edit[e].step = "flushed" /\ Open(e) /\ i \in Id
  BY DEF RowsInv, RowsTypeOK, CommitEdit, Open, EditState
<1>2. Stored(e) \in Fields /\ row' = [row EXCEPT ![i] = Stored(e)]
  BY <1>1, StoredIsFields DEF RowsInv, CommitEdit
<1>3. x \in EditState /\ x.step = "committed" /\ ~x.settled
  BY NewEditIsState DEF EditState, EditStep, EditEnded
<1>4. edit' = [edit EXCEPT ![e] = x]
  BY DEF CommitEdit, EndsEdit
<1> HIDE DEF x
<1>5. /\ edit' \in [Edit -> EditState]
      /\ edit'[e] = x
      /\ \A f \in Edit \ {e} : edit'[f] = edit[f]
  BY <1>1, <1>3, <1>4, OthersKept
<1>6. \A f \in Edit : (Open(f)' \/ edit'[f].step = "flushed" \/ edit'[f].settled)
        => f # e /\ edit'[f] = edit[f]
  BY <1>3, <1>5 DEF Open
<1>7. row' \in [Id -> Fields \cup {NoRow}]
  BY <1>1, <1>2 DEF RowsTypeOK
<1>8. \A j \in Id : Exists(j) => Exists(j)'
  BY <1>1, <1>2, NoRowIsNoFields DEF Exists, RowsTypeOK
<1>9. \A f \in Edit \ {e} : (edit[f].step = "flushed" /\ Writes(f))
        => row'[edit[f].id] = row[edit[f].id]
  <2>1. CASE Writes(e)
    BY <1>1, <1>2, <2>1 DEF RowsInv, OneWriter, RowsTypeOK
  <2>2. CASE ~Writes(e)
    BY <2>2, ReaderStoresNothing
  <2> QED
    BY <2>1, <2>2
<1>10. RowsTypeOK'
  BY <1>5, <1>7 DEF RowsTypeOK
<1>11. RowIsThere'
  <2>1. \A f \in Edit : edit[f].id \in Id
    BY <1>1 DEF RowsTypeOK, EditState
  <2> QED
    BY <1>6, <1>8, <2>1 DEF RowsInv, RowIsThere, Inserts, Open
<1>12. AssignsSent'
  BY <1>6 DEF RowsInv, AssignsSent, Inserts, Open
<1>13. OneWriter'
  BY <1>6 DEF RowsInv, OneWriter, Writes
<1>14. KeyIsNew'
  <2>1. \A f \in Edit : (edit[f].step = "flushed" /\ Inserts(f)) => Writes(f)
    BY NoRowIsNoFields DEF RowsInv, RowIsThere, Inserts, Writes, Open
  <2> QED
    BY <1>6, <1>9, <2>1 DEF RowsInv, KeyIsNew, Inserts, Exists
<1>15. AnswerHolds'
  <2>1. \A f \in Edit : (edit'[f].step = "flushed" /\ Writes(f)') => Stored(f)' = Stored(f)
    BY <1>6, <1>9 DEF Stored, Inserts, Writes
  <2> QED
    BY <1>6, <2>1 DEF RowsInv, AnswerHolds, Writes
<1>16. SettledIsLoaded'
  <2>1. \A f \in Edit : edit[f].id \in Id
    BY <1>1 DEF RowsTypeOK, EditState
  <2> QED
    BY <1>6, <1>8, <2>1 DEF RowsInv, SettledIsLoaded, Inserts, Open
<1> QED
  BY <1>10, <1>11, <1>12, <1>13, <1>14, <1>15, <1>16 DEF RowsInv

-----------------------------------------------------------------------------
\* Every step of an editor keeps the invariant of the rows, and adds no case
\* and removes none.
LEMMA EditorKeeps ==
  ASSUME RowsInv, RowsNext
  PROVE  RowsInv' /\ \A r \in CaseId : Exists(r)' <=> Exists(r)
<1>1. PICK e \in Edit : ArriveEdit(e) \/ HandleEdit(e) \/ AbortEdit(e)
  BY DEF RowsNext
<1>2. CASE ArriveEdit(e)
  BY <1>2, ArriveKeeps DEF ArriveEdit, Exists
<1>3. CASE Select(e)
  BY <1>3, SelectKeeps DEF Select, Exists
<1>4. CASE FlushEdit(e)
  BY <1>4, FlushKeeps DEF FlushEdit, Exists
<1>5. CASE AbortEdit(e)
  BY <1>5, EndKeeps DEF AbortEdit, EditEnded, Exists
<1>6. CASE CommitEdit(e)
  <2>1. RowsTypeOK /\ edit[e] \in EditState /\ Open(e)
    BY <1>6 DEF RowsInv, RowsTypeOK, CommitEdit, Open
  <2>2. Stored(e) \in Fields /\ row' = [row EXCEPT ![edit[e].id] = Stored(e)]
    BY <1>6, <2>1, StoredIsFields DEF RowsInv, CommitEdit
  <2>3. edit[e].id \in CaseId => Exists(edit[e].id)
    BY <2>1, RowsAssumption DEF RowsInv, RowIsThere, Upserted
  <2>4. \A r \in CaseId : Exists(r)' <=> Exists(r)
    BY <2>1, <2>2, <2>3, NoRowIsNoFields DEF RowsTypeOK, Exists, Id
  <2> QED
    BY <1>6, <2>4, CommitKeeps
<1> QED
  BY <1>1, <1>2, <1>3, <1>4, <1>5, <1>6 DEF HandleEdit

\* A new case appears under no editor's hands.
LEMMA CreateKeeps ==
  ASSUME CasesInv, NEW r \in Request, CommitCase(r)
  PROVE  RowsInv' /\ CaseHasReference'
<1> USE CasesAssumption DEF CasesInv
<1>1. /\ row' = [row EXCEPT ![r] = Defaults] /\ edit' = edit
      /\ pc[r] = "inserted" /\ pc' = [pc EXCEPT ![r] = "committed"]
      /\ RowsTypeOK /\ RefTypeOK
  BY DEF CommitCase, Commit, RowsInv, RefInv
<1>2. r \in Id /\ r \notin Upserted
  BY RowsAssumption DEF Id, Upserted
<1>3. ~Exists(r)
  BY <1>1 DEF CaseHasReference, Committed
<1>4. \A e \in Edit : Open(e) => row'[edit[e].id] = row[edit[e].id]
  BY <1>1, <1>2, <1>3 DEF RowsInv, RowIsThere, RowsTypeOK
<1>5. \A i \in Id : Exists(i)' <=> (i = r \/ Exists(i))
  BY <1>1, <1>2, DefaultsAreFields, NoRowIsNoFields DEF Exists, RowsTypeOK
<1>6. \A e \in Edit : edit[e].id \in Id
  BY <1>1 DEF RowsTypeOK, EditState
<1>7. RowsTypeOK'
  BY <1>1, DefaultsAreFields DEF RowsTypeOK
<1>8. RowIsThere' /\ SettledIsLoaded'
  BY <1>1, <1>5, <1>6 DEF RowsInv, RowIsThere, SettledIsLoaded, Open, Inserts
<1>9. AssignsSent' /\ OneWriter'
  BY <1>1 DEF RowsInv, AssignsSent, OneWriter, Open, Inserts, Writes
<1>10. KeyIsNew'
  BY <1>1, <1>4 DEF RowsInv, KeyIsNew, Open, Inserts, Exists
<1>11. AnswerHolds'
  BY <1>1, <1>4 DEF RowsInv, AnswerHolds, Open, Inserts, Writes, Stored
<1>12. CaseHasReference'
  BY <1>1, <1>5, RowsAssumption DEF CaseHasReference, Committed, RefTypeOK, Id
<1> QED
  BY <1>7, <1>8, <1>9, <1>10, <1>11, <1>12 DEF RowsInv

\* The rows of the other tables may be there at the start; no request is.
LEMMA CasesInitInv == CasesInit => CasesInv
<1> SUFFICES ASSUME CasesInit PROVE CasesInv
  OBVIOUS
<1>1. RefInv
  BY RefInitInv DEF CasesInit
<1>2. \A e \in Edit : edit[e] = NewEdit
  BY DEF CasesInit, RowsInit
<1>3. NewEdit.step = "new" /\ NewEdit.settled = FALSE
  BY DEF NewEdit
<1>4. RowsTypeOK
  BY DefaultsAreFields, NewEditIsState DEF CasesInit, RowsInit, RowsTypeOK
<1>5. RowIsThere /\ AssignsSent /\ OneWriter /\ KeyIsNew /\ AnswerHolds /\ SettledIsLoaded
  BY <1>2, <1>3 DEF RowIsThere, AssignsSent, OneWriter, KeyIsNew, AnswerHolds,
     SettledIsLoaded, Open
<1>6. CaseHasReference
  BY DEF CasesInit, Init, CaseHasReference, Committed, Exists
<1> QED
  BY <1>1, <1>4, <1>5, <1>6 DEF CasesInv, RowsInv

\* A step of the composition is a step of the allocation, or none of it.
LEMMA CasesStepIsRefStep == [CasesNext]_vars => [Next]_refVars
  BY DEF CasesNext, PrepareCase, CommitCase, Next, Create, vars, refVars

\* Every step keeps the invariant of the composition.
LEMMA CasesStepInv == CasesInv /\ [CasesNext]_vars => CasesInv'
<1> SUFFICES ASSUME CasesInv, [CasesNext]_vars PROVE CasesInv'
  OBVIOUS
<1>1. RefInv'
  BY CasesStepIsRefStep, RefStepInv DEF CasesInv
<1>2. ASSUME NEW r \in Request, PrepareCase(r) PROVE RowsInv' /\ CaseHasReference'
  <2>1. row' = row /\ edit' = edit
    BY <1>2 DEF PrepareCase, rowVars
  <2>2. Committed' = Committed
    BY <1>2 DEF PrepareCase, Count, Insert, Conflict, Abort, Committed, CasesInv, RefInv,
       RefTypeOK
  <2> QED
    BY <2>1, <2>2 DEF CasesInv, RowsInv, RowsTypeOK, RowIsThere, AssignsSent, OneWriter,
       KeyIsNew, AnswerHolds, SettledIsLoaded, CaseHasReference, Open, Inserts, Writes,
       Stored, Exists
<1>3. ASSUME NEW r \in Request, CommitCase(r) PROVE RowsInv' /\ CaseHasReference'
  BY <1>3, CreateKeeps
<1>4. ASSUME RowsNext, UNCHANGED refVars PROVE RowsInv' /\ CaseHasReference'
  <2>1. Committed' = Committed
    BY <1>4 DEF refVars, Committed
  <2> QED
    BY <1>4, <2>1, EditorKeeps, CasesAssumption DEF CasesInv, CaseHasReference
<1>5. ASSUME UNCHANGED vars PROVE RowsInv' /\ CaseHasReference'
  BY <1>5 DEF vars, CasesInv, RowsInv, RowsTypeOK, RowIsThere, AssignsSent, OneWriter,
     KeyIsNew, AnswerHolds, SettledIsLoaded, CaseHasReference, Open, Inserts, Writes,
     Stored, Exists, Committed
<1> QED
  BY <1>1, <1>2, <1>3, <1>4, <1>5 DEF CasesNext, CasesInv

\* The inductive invariant of the composition.
LEMMA CasesInvHolds == CasesSafeSpec => []CasesInv
  BY CasesInitInv, CasesStepInv, PTL DEF CasesSafeSpec

-----------------------------------------------------------------------------
\* Type correctness of the cases and their editors: a row always has every
\* column, whatever subset of them each request sent.
THEOREM CasesTypeCorrect == CasesSafeSpec => []CasesTypeOK
<1>1. CasesInv => CasesTypeOK
  BY DEF CasesInv, RefInv, RowsInv, CasesTypeOK
<1> QED
  BY CasesInvHolds, <1>1, PTL

\* A case is there exactly when its reference was committed, whoever edits it:
\* no editor meets a case whose number may yet be refused (create_case).
THEOREM CaseHasReferenceHolds == CasesSafeSpec => []CaseHasReference
<1>1. CasesInv => CaseHasReference
  BY DEF CasesInv
<1> QED
  BY CasesInvHolds, <1>1, PTL

\* Editing cases leaves the allocation of their references as it is: with
\* NoGapHolds and CommitOrderHolds, the numbers of create_case stay 1 .. n.
THEOREM CasesAllocate == CasesSafeSpec => RefSafeSpec
<1>1. CasesInit => Init
  BY DEF CasesInit
<1> QED
  BY <1>1, CasesStepIsRefStep, PTL DEF CasesSafeSpec, RefSafeSpec

\* A row that was there when the request came in is found, and neither 404 nor
\* 409 is the answer (get_or_create_config, update_case, acknowledge_alert).
THEOREM SettledRowIsFoundHolds == CasesSafeSpec => []SettledRowIsFound
<1>1. CasesInv => SettledRowIsFound
  BY DEF CasesInv, RowsInv, SettledIsLoaded, SettledRowIsFound
<1> QED
  BY CasesInvHolds, <1>1, PTL

\* A request ends in a commit by its own commit step.
LEMMA OnlyCommitsCommit ==
  ASSUME CasesInv, [CasesNext]_vars, NEW e \in Edit, Commits(e)
  PROVE  CommitEdit(e)
<1>1. RowsTypeOK /\ edit[e].step = "flushed" /\ edit'[e].step = "committed"
  BY DEF CasesInv, RowsInv, Commits
<1>2. edit' # edit
  BY <1>1
<1>3. PICK f \in Edit : ArriveEdit(f) \/ HandleEdit(f) \/ AbortEdit(f)
  BY <1>2 DEF CasesNext, PrepareCase, CommitCase, vars, rowVars, RowsNext
<1>4. f = e
  BY <1>1, <1>3 DEF ArriveEdit, HandleEdit, AbortEdit, Select, FlushEdit, CommitEdit,
     EndsEdit, RowsTypeOK
<1>5. ~ArriveEdit(e) /\ ~Select(e) /\ ~FlushEdit(e)
  BY <1>1 DEF ArriveEdit, Select, FlushEdit
<1>6. ~AbortEdit(e)
  BY <1>1 DEF AbortEdit, EndsEdit, NewEdit, RowsTypeOK
<1> QED
  BY <1>3, <1>4, <1>5, <1>6 DEF HandleEdit

\* A row that is there changes in the commit of a request that edits it.
LEMMA OnlyCommitsStore ==
  ASSUME CasesInv, [CasesNext]_vars, NEW i \in Id, Exists(i), row'[i] # row[i]
  PROVE  \E e \in Edit : CommitEdit(e) /\ edit[e].id = i
<1>1. RowsTypeOK
  BY DEF CasesInv, RowsInv
<1>2. \A r \in Request : CommitCase(r) => row'[i] = row[i]
  BY <1>1, CasesAssumption DEF CommitCase, Commit, CasesInv, CaseHasReference, Committed,
     RowsTypeOK
<1>3. RowsNext
  BY <1>2 DEF CasesNext, PrepareCase, vars, rowVars
<1>4. PICK e \in Edit : CommitEdit(e)
  BY <1>3 DEF RowsNext, ArriveEdit, HandleEdit, AbortEdit, Select, FlushEdit
<1>5. edit[e].id = i
  BY <1>1, <1>4 DEF CommitEdit, RowsTypeOK
<1> QED
  BY <1>4, <1>5

\* No request changes a column of a row but those it sent, and to what it sent,
\* however many edit the row at once: the merge of the unit of work reverts
\* nobody (update_case, update_system_config, upsert_decoder).
THEOREM OnlySentColumnsChangeHolds == CasesSafeSpec => OnlySentColumnsChange
<1>1. ASSUME CasesInv, [CasesNext]_vars, NEW i \in Id, NEW c \in Column,
             Exists(i), row'[i][c] # row[i][c]
      PROVE  \E e \in Edit : /\ Commits(e) /\ edit[e].id = i
                              /\ c \in DOMAIN edit[e].sent
                              /\ row'[i][c] = edit[e].sent[c]
  <2>1. PICK e \in Edit : CommitEdit(e) /\ edit[e].id = i
    BY <1>1, OnlyCommitsStore
  <2>2. /\ RowsTypeOK /\ edit[e] \in EditState /\ edit[e].step = "flushed" /\ Open(e)
        /\ row' = [row EXCEPT ![i] = Stored(e)]
    BY <1>1, <2>1 DEF CasesInv, RowsInv, RowsTypeOK, CommitEdit, Open
  <2>3. Commits(e)
    BY <2>1, <2>2, NewEditIsState
       DEF CommitEdit, EndsEdit, Commits, RowsTypeOK, EditState
  <2>4. ~Inserts(e) /\ row[i] \in Fields
    BY <1>1, <2>1, <2>2, RowsExist DEF CasesInv, RowsInv, KeyIsNew
  <2>5. row'[i] = Flush(row[i], edit[e].loaded, edit[e].object)
    BY <2>1, <2>2, <2>4 DEF Stored, RowsTypeOK
  <2>6. edit[e].object[c] # edit[e].loaded[c] /\ row'[i][c] = edit[e].object[c]
    BY <1>1, <2>4, <2>5 DEF Flush, Fields
  <2>7. c \in DOMAIN edit[e].sent /\ edit[e].object[c] = edit[e].sent[c]
    BY <1>1, <2>2, <2>4, <2>6 DEF CasesInv, RowsInv, AssignsSent
  <2> QED
    BY <2>1, <2>3, <2>6, <2>7
<1>2. CasesInv /\ [CasesNext]_vars =>
        [\A i \in Id, c \in Column :
            (Exists(i) /\ row'[i][c] # row[i][c]) =>
                \E e \in Edit : /\ Commits(e) /\ edit[e].id = i
                                /\ c \in DOMAIN edit[e].sent
                                /\ row'[i][c] = edit[e].sent[c]]_rowVars
  BY <1>1
<1> QED
  BY CasesInvHolds, <1>2, PTL DEF OnlySentColumnsChange, CasesSafeSpec

\* What a request answers is what its commit stores, the columns that others
\* changed between its select and its flush included (await db.refresh).
THEOREM AnswerIsStoredHolds == CasesSafeSpec => AnswerIsStored
<1>1. ASSUME CasesInv, [CasesNext]_vars, NEW e \in Edit, Commits(e), Writes(e)
      PROVE  row'[edit[e].id] = edit[e].answer
  <2>1. CommitEdit(e)
    BY <1>1, OnlyCommitsCommit
  <2>2. /\ edit[e].answer = Stored(e) /\ edit[e].id \in Id
        /\ row \in [Id -> Fields \cup {NoRow}]
    BY <1>1 DEF CasesInv, RowsInv, AnswerHolds, Commits, RowsTypeOK, EditState
  <2> QED
    BY <2>1, <2>2 DEF CommitEdit
<1>2. CasesInv /\ [CasesNext]_vars =>
        [\A e \in Edit : (Commits(e) /\ Writes(e)) => row'[edit[e].id] = edit[e].answer]_rowVars
  BY <1>1
<1> QED
  BY CasesInvHolds, <1>2, PTL DEF AnswerIsStored, CasesSafeSpec

-----------------------------------------------------------------------------
\* NULL is in no column that must not hold it.
NotNull(fields) == \A c \in Required : fields[c] # Null

\* An open request has every column it sent on its object, and what it has
\* flushed has passed the NOT NULL columns.
Sound(r) ==
    /\ r.step \in {"dirty", "flushed"} => \A c \in DOMAIN r.sent : r.object[c] = r.sent[c]
    /\ r.step = "flushed" => NotNull(r.object)

\* The check is made on the object of each request, never on the row that the
\* columns of several of them make together; that row holds no NULL either.
RequiredAreThere == \A i \in Id : Exists(i) => NotNull(row[i])

SoundInv == CasesInv /\ RequiredAreThere /\ \A e \in Edit : Sound(edit[e])

\* The other half of OnlySentColumnsChange: what a request sent is in the row
\* its commit leaves, whoever else wrote there, but for the columns it sent as
\* it had loaded them.  Those are no change to the session: another request's
\* value for them, committed in between, stays (model_dump(exclude_unset), setattr).
SentIsStored ==
    [][\A e \in Edit : Commits(e) =>
        \A c \in DOMAIN edit[e].sent :
            \/ row'[edit[e].id][c] = edit[e].sent[c]
            \/ ~Inserts(e) /\ edit[e].sent[c] = edit[e].loaded[c]]_rowVars

LEMMA DefaultsAreNotNull == NotNull(Defaults)
  BY RowsAssumption DEF NotNull, Defaults

LEMMA NewEditIsSound == ASSUME NEW x, x.step \notin {"dirty", "flushed"} PROVE Sound(x)
  BY DEF Sound

\* What a flushed request stores holds no NULL where none may be.
LEMMA StoredIsNotNull ==
  ASSUME SoundInv, NEW e \in Edit, edit[e].step = "flushed"
  PROVE  NotNull(Stored(e))
<1>1. RowsTypeOK /\ edit[e].id \in Id /\ NotNull(edit[e].object)
  BY DEF SoundInv, CasesInv, RowsInv, RowsTypeOK, EditState, Sound
<1>2. CASE Inserts(e)
  BY <1>1, <1>2 DEF Stored
<1>3. CASE ~Inserts(e)
  <2>1. Exists(edit[e].id) /\ row[edit[e].id] \in Fields
    BY <1>1, <1>3, RowsExist DEF SoundInv, CasesInv, RowsInv, RowIsThere, Open
  <2>2. NotNull(row[edit[e].id])
    BY <1>1, <2>1 DEF SoundInv, RequiredAreThere
  <2> QED
    BY <1>1, <1>3, <2>1, <2>2, RowsAssumption DEF Stored, Flush, Fields, NotNull
<1> QED
  BY <1>2, <1>3

\* An editor's step leaves its own request sound and the others as they were.
LEMMA EditorIsSound ==
  ASSUME SoundInv, NEW e \in Edit, ArriveEdit(e) \/ HandleEdit(e) \/ AbortEdit(e)
  PROVE  \A f \in Edit : Sound(edit'[f])
<1>t. RowsTypeOK /\ edit[e] \in EditState /\ Sound(edit[e])
  BY DEF SoundInv, CasesInv, RowsInv, RowsTypeOK
<1>1. ASSUME NEW x, edit' = [edit EXCEPT ![e] = x], Sound(x)
      PROVE  \A f \in Edit : Sound(edit'[f])
  BY <1>t, <1>1 DEF SoundInv, RowsTypeOK
<1>2. ASSUME NEW s \in EditEnded, EndsEdit(e, s) PROVE \A f \in Edit : Sound(edit'[f])
  <2> DEFINE x == [NewEdit EXCEPT !.step = s,
                                  !.settled = edit[e].settled /\ s \in {"not_found", "conflict"}]
  <2>1. x.step \notin {"dirty", "flushed"} /\ edit' = [edit EXCEPT ![e] = x]
    BY <1>2 DEF EndsEdit, EditEnded, NewEdit
  <2> HIDE DEF x
  <2> QED
    BY <1>1, <2>1, NewEditIsSound
<1>3. CASE ArriveEdit(e)
  <2>1. PICK i \in Id : \E sent \in Bodies(i) :
          edit' = [edit EXCEPT ![e] = [NewEdit EXCEPT !.step = "select", !.id = i,
                                         !.sent = sent, !.settled = Exists(i)]]
    BY <1>3 DEF ArriveEdit
  <2>2. PICK sent \in Bodies(i) :
          edit' = [edit EXCEPT ![e] = [NewEdit EXCEPT !.step = "select", !.id = i,
                                         !.sent = sent, !.settled = Exists(i)]]
    BY <2>1
  <2> DEFINE x == [NewEdit EXCEPT !.step = "select", !.id = i, !.sent = sent,
                                  !.settled = Exists(i)]
  <2>3. x.step \notin {"dirty", "flushed"} /\ edit' = [edit EXCEPT ![e] = x]
    BY <2>2 DEF NewEdit
  <2> HIDE DEF x
  <2> QED
    BY <1>1, <2>3, NewEditIsSound
<1>4. CASE Select(e)
  <2> DEFINE i == edit[e].id
             base == IF Exists(i) THEN row[i] ELSE Defaults
             object == Assign(base, edit[e].sent)
             x == [edit[e] EXCEPT !.step = "dirty", !.loaded = row[i], !.object = object]
  <2>1. CASE edit' = [edit EXCEPT ![e].step = "dirty", ![e].loaded = row[i],
                                  ![e].object = object]
    <3>1. \A c \in DOMAIN edit[e].sent : object[c] = edit[e].sent[c]
      BY <1>t DEF Assign, EditState, Payload
    <3> HIDE DEF object
    <3>2. x.step = "dirty" /\ x.object = object /\ x.sent = edit[e].sent
      BY <1>t DEF EditState
    <3>3. edit' = [edit EXCEPT ![e] = x]
      BY <2>1
    <3> HIDE DEF x
    <3>4. Sound(x)
      BY <3>1, <3>2 DEF Sound
    <3> QED
      BY <1>1, <3>3, <3>4
  <2> QED
    BY <1>2, <1>4, <2>1 DEF Select, EditEnded
<1>5. CASE FlushEdit(e)
  <2> DEFINE x == [edit[e] EXCEPT !.step = "flushed", !.answer = Stored(e)]
  <2>1. CASE /\ NotNull(edit[e].object) /\ edit[e].step = "dirty"
             /\ edit' = [edit EXCEPT ![e].step = "flushed", ![e].answer = Stored(e)]
    <3>1. x.step = "flushed" /\ x.object = edit[e].object /\ x.sent = edit[e].sent
      BY <1>t DEF EditState
    <3>2. edit' = [edit EXCEPT ![e] = x]
      BY <2>1
    <3> HIDE DEF x
    <3>3. Sound(x)
      BY <1>t, <2>1, <3>1 DEF Sound
    <3> QED
      BY <1>1, <3>2, <3>3
  <2>2. \/ EndsEdit(e, "refused") \/ EndsEdit(e, "conflict")
        \/ /\ ~(\E c \in Required : edit[e].object[c] = Null) /\ edit[e].step = "dirty"
           /\ edit' = [edit EXCEPT ![e].step = "flushed", ![e].answer = Stored(e)]
    BY <1>5 DEF FlushEdit
  <2>3. ~(\E c \in Required : edit[e].object[c] = Null) => NotNull(edit[e].object)
    BY DEF NotNull
  <2>4. CASE EndsEdit(e, "refused") \/ EndsEdit(e, "conflict")
    BY <1>2, <2>4 DEF EditEnded
  <2> QED
    BY <2>1, <2>2, <2>3, <2>4
<1>6. CASE CommitEdit(e) \/ AbortEdit(e)
  BY <1>2, <1>6 DEF CommitEdit, AbortEdit, EditEnded
<1> QED
  BY <1>3, <1>4, <1>5, <1>6 DEF HandleEdit

\* Nor does it leave a NULL in a row.
LEMMA EditorKeepsRequired ==
  ASSUME SoundInv, NEW e \in Edit, ArriveEdit(e) \/ HandleEdit(e) \/ AbortEdit(e)
  PROVE  RequiredAreThere'
<1>1. RowsTypeOK /\ RequiredAreThere
  BY DEF SoundInv, CasesInv, RowsInv
<1>2. CASE row' = row
  BY <1>1, <1>2 DEF RequiredAreThere, Exists
<1>3. CASE CommitEdit(e)
  <2>1. NotNull(Stored(e)) /\ row' = [row EXCEPT ![edit[e].id] = Stored(e)]
    BY <1>3, StoredIsNotNull DEF CommitEdit
  <2>2. \A i \in Id : row'[i] = row[i] \/ row'[i] = Stored(e)
    BY <1>1, <2>1 DEF RowsTypeOK
  <2> QED
    BY <1>1, <2>1, <2>2 DEF RequiredAreThere, Exists
<1> QED
  BY <1>2, <1>3 DEF HandleEdit, ArriveEdit, Select, FlushEdit, AbortEdit

LEMMA SoundInitInv == CasesInit => SoundInv
<1> SUFFICES ASSUME CasesInit PROVE SoundInv
  OBVIOUS
<1>1. \A e \in Edit : Sound(edit[e])
  BY NewEditIsSound DEF CasesInit, RowsInit, NewEdit
<1>2. RequiredAreThere
  BY DefaultsAreNotNull DEF CasesInit, RowsInit, RequiredAreThere, Exists
<1> QED
  BY <1>1, <1>2, CasesInitInv DEF SoundInv

LEMMA SoundStepInv == SoundInv /\ [CasesNext]_vars => SoundInv'
<1> SUFFICES ASSUME SoundInv, [CasesNext]_vars PROVE SoundInv'
  OBVIOUS
<1>1. CasesInv'
  BY CasesStepInv DEF SoundInv
<1>2. ASSUME rowVars' = rowVars PROVE RequiredAreThere' /\ \A e \in Edit : Sound(edit'[e])
  BY <1>2 DEF rowVars, SoundInv, RequiredAreThere, Exists
<1>3. ASSUME NEW r \in Request, CommitCase(r)
      PROVE  RequiredAreThere' /\ \A e \in Edit : Sound(edit'[e])
  BY <1>3, DefaultsAreNotNull
     DEF CommitCase, SoundInv, RequiredAreThere, Exists, CasesInv, RowsInv, RowsTypeOK
<1>4. ASSUME NEW e \in Edit, ArriveEdit(e) \/ HandleEdit(e) \/ AbortEdit(e)
      PROVE  RequiredAreThere' /\ \A f \in Edit : Sound(edit'[f])
  BY <1>4, EditorIsSound, EditorKeepsRequired
<1>5. RequiredAreThere' /\ \A e \in Edit : Sound(edit'[e])
  BY <1>2, <1>3, <1>4 DEF CasesNext, PrepareCase, RowsNext, vars, rowVars
<1> QED
  BY <1>1, <1>5 DEF SoundInv

LEMMA SoundInvHolds == CasesSafeSpec => []SoundInv
  BY SoundInitInv, SoundStepInv, PTL DEF CasesSafeSpec

\* However many requests write the columns of a row, and though each is checked
\* alone, no column that must not be NULL ever is (update_case sends nulls on).
THEOREM RequiredAreThereHolds == CasesSafeSpec => []RequiredAreThere
<1>1. SoundInv => RequiredAreThere
  BY DEF SoundInv
<1> QED
  BY SoundInvHolds, <1>1, PTL

\* No edit is lost: what a request sent and changed is in the row its commit
\* leaves, however many others edit the row.
THEOREM SentIsStoredHolds == CasesSafeSpec => SentIsStored
<1>1. ASSUME SoundInv, [CasesNext]_vars, NEW e \in Edit, Commits(e), NEW c \in DOMAIN edit[e].sent,
             ~(~Inserts(e) /\ edit[e].sent[c] = edit[e].loaded[c])
      PROVE  row'[edit[e].id][c] = edit[e].sent[c]
  <2>1. CommitEdit(e)
    BY <1>1, OnlyCommitsCommit DEF SoundInv
  <2>2. /\ RowsTypeOK /\ edit[e] \in EditState /\ edit[e].step = "flushed" /\ Open(e)
        /\ edit[e].id \in Id /\ c \in Column
    BY <1>1, <2>1 DEF SoundInv, CasesInv, RowsInv, RowsTypeOK, CommitEdit, Open, EditState, Payload
  <2>3. row'[edit[e].id] = Stored(e)
    BY <2>1, <2>2 DEF CommitEdit, RowsTypeOK
  <2>4. edit[e].object[c] = edit[e].sent[c]
    BY <1>1, <2>2 DEF SoundInv, Sound
  <2>5. CASE ~Inserts(e)
    <3>1. row[edit[e].id] \in Fields
      BY <2>2, <2>5, RowsExist, <1>1 DEF SoundInv, CasesInv, RowsInv, RowIsThere
    <3> QED
      BY <1>1, <2>2, <2>3, <2>4, <2>5, <3>1 DEF Stored, Flush, Fields
  <2>6. CASE Inserts(e)
    BY <2>3, <2>4, <2>6 DEF Stored
  <2> QED
    BY <2>5, <2>6
<1>2. SoundInv /\ [CasesNext]_vars =>
        [\A e \in Edit : Commits(e) =>
            \A c \in DOMAIN edit[e].sent :
                \/ row'[edit[e].id][c] = edit[e].sent[c]
                \/ ~Inserts(e) /\ edit[e].sent[c] = edit[e].loaded[c]]_rowVars
  BY <1>1
<1> QED
  BY SoundInvHolds, <1>2, PTL DEF SentIsStored, CasesSafeSpec
=============================================================================
