----------------------------- MODULE SharedRows -----------------------------
(***************************************************************************)
(* Rows that several people edit through the API: a case (update_case), an *)
(* alert (acknowledge_alert), a decoder (upsert_decoder) and the one row   *)
(* of the system configuration (get_or_create_config,                      *)
(* update_system_config).  The four handlers have one shape: select the    *)
(* row by id, answer 404 or add it if there is none, assign the fields the *)
(* request sent, flush, read the row back for the answer (all but          *)
(* acknowledge_alert, whose answer names only the id), commit at the end.  *)
(* There is no version column and no SELECT ... FOR UPDATE.                *)
(***************************************************************************)
EXTENDS Naturals, FiniteSets, UnitOfWork

CONSTANTS
    Edit,       \* requests that edit a row, each of them made once
    CaseId, AlertId, DecoderId, ConfigId, \* primary keys of the four tables
    Column,     \* the columns a request may send
    Required,   \* those that are NOT NULL
    Optional,   \* those of a decoder that it keeps when none is sent (its config)
    Value,      \* what a column may hold besides NULL
    Fresh,      \* what a NOT NULL column of a new row holds
    Null,
    Tried       \* bound: the ids and bodies of the requests an instance tries

ASSUME RowsAssumption ==
    /\ Required \cup Optional \subseteq Column /\ Column # {}
    /\ ConfigId # {}
    /\ (CaseId \cup AlertId) \cap (DecoderId \cup ConfigId) = {}
    /\ Fresh \in Value
    /\ Null \notin Value

VARIABLES
    row,    \* row[i]: the committed row of i, or NoRow
    edit    \* edit[e]: the state of a request

rowVars == <<row, edit>>

Cell == Value \cup {Null}
Fields == [Column -> Cell]
NoRow == [c \in {} |-> Null]
Payload == UNION {[C -> Cell] : C \in SUBSET Column}

Id == CaseId \cup AlertId \cup DecoderId \cup ConfigId
\* The rows a request adds when there is none.
Upserted == DecoderId \cup ConfigId

\* What the handlers assign: whatever was sent, null included (exclude_unset);
\* the status and who acknowledged; every column, but the config only when one
\* is sent; the fields that are not None (a GET of the configuration has none).
CaseBodies == Payload
AlertBodies == [Column -> Value]
DecoderBodies == {b \in Payload :
    /\ Column \ Optional \subseteq DOMAIN b
    /\ \A c \in (Required \cup Optional) \cap DOMAIN b : b[c] # Null}
ConfigBodies == UNION {[C -> Value] : C \in SUBSET Column}
Bodies(i) == CASE i \in CaseId -> CaseBodies
               [] i \in AlertId -> AlertBodies
               [] i \in DecoderId -> DecoderBodies
               [] i \in ConfigId -> ConfigBodies
\* The column defaults of the models.
Defaults == [c \in Column |-> IF c \in Required THEN Fresh ELSE Null]

EditEnded == {"committed", "refused", "not_found", "conflict"}
EditStep == {"new", "select", "dirty", "flushed"} \cup EditEnded

\* settled is history: the row was committed when the request came in.
NewEdit == [step |-> "new", id |-> CHOOSE i \in Id : TRUE, sent |-> NoRow,
            loaded |-> NoRow, object |-> NoRow, answer |-> NoRow, settled |-> FALSE]

Exists(i) == row[i] # NoRow
\* setattr for each field that was sent
Assign(fields, sent) == [c \in Column |-> IF c \in DOMAIN sent THEN sent[c] ELSE fields[c]]
Inserts(e) == edit[e].loaded = NoRow
Writes(e) == edit[e].object # edit[e].loaded
\* Another open transaction holds the row: it has updated it or inserted the key.
Held(e) == \E f \in Edit \ {e} :
    edit[f].id = edit[e].id /\ edit[f].step = "flushed" /\ Writes(f)

EndsEdit(e, step) == edit' = [edit EXCEPT ![e] =
    [NewEdit EXCEPT !.step = step,
                     !.settled = edit[e].settled /\ step \in {"not_found", "conflict"}]]

RowsInit ==
    /\ row \in [Id -> {NoRow, Defaults}]
    /\ edit = [e \in Edit |-> NewEdit]

-----------------------------------------------------------------------------
ArriveEdit(e) ==
    /\ edit[e].step = "new"
    /\ \E i \in Id : \E sent \in Bodies(i) :
           /\ <<i, sent>> \in Tried
           /\ edit' = [edit EXCEPT ![e] = [NewEdit EXCEPT
               !.step = "select", !.id = i, !.sent = sent, !.settled = Exists(i)]]
    /\ UNCHANGED row

\* Defect: the configuration is added without a look for it.
SelectBlind(e) ==
    LET i == edit[e].id IN
    /\ edit[e].step = "select"
    /\ IF i \in Upserted
       THEN edit' = [edit EXCEPT ![e].step = "dirty",
                                 ![e].object = Assign(Defaults, edit[e].sent)]
       ELSE IF Exists(i)
       THEN edit' = [edit EXCEPT ![e].step = "dirty", ![e].loaded = row[i],
                                 ![e].object = Assign(row[i], edit[e].sent)]
       ELSE EndsEdit(e, "not_found")
    /\ UNCHANGED row

\* scalar_one_or_none(), and the assignments.
Select(e) ==
    LET i == edit[e].id
        base == IF Exists(i) THEN row[i] ELSE Defaults IN
    /\ edit[e].step = "select"
    /\ \/ /\ Exists(i) \/ i \in Upserted
          /\ edit' = [edit EXCEPT ![e].step = "dirty", ![e].loaded = row[i],
                                  ![e].object = Assign(base, edit[e].sent)]
       \/ ~Exists(i) /\ i \notin Upserted /\ EndsEdit(e, "not_found")
    /\ UNCHANGED row

\* Defect: the row replaced by what was sent.
StoredSentOnly(e) == edit[e].sent

\* The row as this transaction leaves it, and sees it.
Stored(e) == IF Inserts(e) THEN edit[e].object
                           ELSE Flush(row[edit[e].id], edit[e].loaded, edit[e].object)

\* Defect: the answer made from the object as it was loaded and assigned.
FlushAnswersObject(e) ==
    /\ edit[e].step = "dirty"
    /\ Writes(e) => ~Held(e)
    /\ ~(Inserts(e) /\ Exists(edit[e].id))
    /\ edit' = [edit EXCEPT ![e].step = "flushed", ![e].answer = edit[e].object]
    /\ UNCHANGED row

\* await db.flush(): INSERT, UPDATE of the columns that changed, or nothing.
\* await db.refresh(...): the answer is the row as this transaction sees it; no
\* other can change it between the two, so they are one step.
FlushEdit(e) ==
    LET r == edit[e]
        nulled == \E c \in Required : r.object[c] = Null
        taken == Inserts(e) /\ Exists(r.id) IN
    /\ r.step = "dirty"
    /\ Writes(e) => ~Held(e)
    /\ \/ nulled /\ EndsEdit(e, "refused")
       \/ ~nulled /\ taken /\ EndsEdit(e, "conflict")
       \/ /\ ~nulled /\ ~taken
          /\ edit' = [edit EXCEPT ![e].step = "flushed", ![e].answer = Stored(e)]
    /\ UNCHANGED row

CommitEdit(e) ==
    /\ edit[e].step = "flushed"
    /\ row' = [row EXCEPT ![edit[e].id] = Stored(e)]
    /\ EndsEdit(e, "committed")

AbortEdit(e) ==
    /\ edit[e].step \in {"select", "dirty", "flushed"}
    /\ EndsEdit(e, "refused")
    /\ UNCHANGED row

HandleEdit(e) == Select(e) \/ FlushEdit(e) \/ CommitEdit(e)

RowsNext == \E e \in Edit : ArriveEdit(e) \/ HandleEdit(e) \/ AbortEdit(e)

\* A row lock or a key is waited for in turn, and a handler whose statement has
\* returned goes on.
RowsFairness == \A e \in Edit : WF_rowVars(HandleEdit(e))
-----------------------------------------------------------------------------
EditState == [step : EditStep, id : Id, sent : Payload, loaded : Fields \cup {NoRow},
              object : Fields \cup {NoRow}, answer : Fields \cup {NoRow}, settled : BOOLEAN]

RowsTypeOK ==
    /\ row \in [Id -> Fields \cup {NoRow}]
    /\ edit \in [Edit -> EditState]

Commits(e) == edit[e].step = "flushed" /\ edit'[e].step = "committed"

\* A request changes the columns it sent and no other: a form saved from an
\* old page, or two people working on one case, never revert a column they
\* did not touch (update_case, update_system_config, upsert_decoder).
OnlySentColumnsChange ==
    [][\A i \in Id, c \in Column :
        (Exists(i) /\ row'[i][c] # row[i][c]) =>
            \E e \in Edit : /\ Commits(e) /\ edit[e].id = i
                            /\ c \in DOMAIN edit[e].sent
                            /\ row'[i][c] = edit[e].sent[c]]_rowVars

\* The answer to a request that changed something is the row that its commit
\* leaves, the columns other requests changed in between included (refresh
\* reads under the row lock the flush took).
AnswerIsStored ==
    [][\A e \in Edit : (Commits(e) /\ Writes(e)) => row'[edit[e].id] = edit[e].answer]_rowVars

\* A row that was there when the request came in is found: neither 404 nor the
\* conflict of two first readers of the configuration (get_or_create_config).
SettledRowIsFound ==
    \A e \in Edit : edit[e].settled => edit[e].step \notin {"not_found", "conflict"}

\* Requests on one row wait for each other's lock or key, never for ever.
EditsEnd == <>[](\A e \in Edit : edit[e].step \in EditEnded \cup {"new"})
=============================================================================
