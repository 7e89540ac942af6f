----------------------------- MODULE MCFraming -----------------------------
(***************************************************************************)
(* A small instance of Framing: a message that fills the buffer, and one   *)
(* of a client, with another header line, that does not fit it.            *)
(***************************************************************************)
EXTENDS Framing

MCSize == [m \in Messages |-> IF m = "client" THEN 2 ELSE 1]
=============================================================================
