------------------------------ MODULE MCServer ------------------------------
(***************************************************************************)
(* A small instance of Server: three connections.                          *)
(***************************************************************************)
EXTENDS Server
=============================================================================
