----------------------------- MODULE UnitOfWork -----------------------------
(***************************************************************************)
(* What SQLAlchemy's unit of work does with an ORM object, as far as the   *)
(* code under src/ relies on it.  The sessions are built with              *)
(* expire_on_commit=False and autoflush=False (database.py, workers/db.py):*)
(*                                                                         *)
(*   - the first SELECT of a row fixes the object's attributes; a later    *)
(*     SELECT of the same row in the same session does not refresh them;   *)
(*   - a flush issues UPDATE ... WHERE id = ..., with the columns whose    *)
(*     value differs from the one loaded and no others, and no version     *)
(*     check.                                                              *)
(***************************************************************************)

\* Defect: the whole row saved, as an ORM without change tracking would.
FlushWholeRow(stored, loaded, object) == [c \in DOMAIN stored |-> object[c]]

\* The stored row after the flush of an object read as loaded.
Flush(stored, loaded, object) ==
    [c \in DOMAIN stored |->
        IF object[c] # loaded[c] THEN object[c] ELSE stored[c]]
=============================================================================
