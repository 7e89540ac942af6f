------------------------------- MODULE MCShim -------------------------------
(***************************************************************************)
(* Small instances of Shim.                                                *)
(***************************************************************************)
EXTENDS Shim
=============================================================================
