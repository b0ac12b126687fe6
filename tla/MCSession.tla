------------------------------ MODULE MCSession ------------------------------
(* Model values for checking module Session. *)
EXTENDS Session

CONSTANTS c1, c2, c3

\* c3 belongs to another user than c1 and c2.
MCUserOf == [c \in Conns |-> IF c = c3 THEN "bob" ELSE "alice"]
=============================================================================
