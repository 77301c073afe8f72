------------------------------- MODULE MCPsx -------------------------------
(***************************************************************************)
(* Psx with three threads, named so that a cfg can say which of them call. *)
(***************************************************************************)
EXTENDS Psx

CONSTANTS main, t2, t3
=============================================================================
