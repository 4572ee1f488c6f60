------------------------------- MODULE MCCases ------------------------------
(* Overlapping creates on one table, and two editors on the first case, which *)
(* a handler must find, and on the configuration and a decoder, which it      *)
(* adds: one column, the other, none, both, and a null where the schema lets  *)
(* it through.  An alert goes the way of a case.                              *)
EXTENDS Cases
CONSTANTS Case, Config, Decoder, status, owner, New
MCTried == {<<Case, [c \in {status} |-> New]>>, <<Case, [c \in {owner} |-> New]>>,
            <<Case, [c \in {status} |-> Null]>>,
            <<Config, NoRow>>, <<Config, [c \in {status} |-> New]>>,
            <<Decoder, [c \in {status} |-> New]>>,
            <<Decoder, [c \in {status, owner} |-> New]>>}
=============================================================================
