------------------------------- MODULE MCPipe -------------------------------
(* Pipe, with a ring of four bytes. *)
EXTENDS Pipe, TLC
=============================================================================
