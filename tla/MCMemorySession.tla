--------------------------- MODULE MCMemorySession --------------------------
(***************************************************************************)
(* Small instances of MemorySession: three turns, the first one a stream.  *)
(***************************************************************************)
EXTENDS MemorySession

CONSTANTS t1, t2, t3

FirstTurn == {t1}

=============================================================================
