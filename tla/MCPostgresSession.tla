------------------------- MODULE MCPostgresSession --------------------------
(***************************************************************************)
(* Small instances of PostgresSession: two turns, the first of them a      *)
(* stream, in two API processes that share the database.                   *)
(***************************************************************************)
EXTENDS PostgresSession, TLC

CONSTANTS t1, t2, p1, p2

FirstTurn == {t1}
TwoProcesses == {p1, p2}
OnTwoProcesses == [t \in Turns |-> IF t = t2 THEN p2 ELSE p1]

=============================================================================
