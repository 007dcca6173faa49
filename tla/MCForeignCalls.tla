--------------------------- MODULE MCForeignCalls ---------------------------
(***************************************************************************)
(* Two threads sharing one caller; model values for everything named.      *)
(* Threads and payloads are interchangeable, but liveness is checked too,  *)
(* so no symmetry is declared.                                             *)
(***************************************************************************)
EXTENDS ForeignCalls

CONSTANTS t1, t2

MCThreads == {t1, t2}
=============================================================================
