------------------------------ MODULE Channel ------------------------------
(***************************************************************************)
(* What the framing of messages promises: those sent are received whole    *)
(* and in order, as far as the connection lasts and until two are sent     *)
(* into each other; then nothing.                                          *)
(***************************************************************************)
EXTENDS Naturals, Sequences

CONSTANTS Messages

VARIABLES transit,    \* sent and not yet received
          received,
          broken      \* two messages were sent into each other

vars == <<transit, received, broken>>

Init == transit = <<>> /\ received = <<>> /\ broken = FALSE

Send(m) ==
    /\ transit' = Append(transit, m)
    /\ UNCHANGED <<received, broken>>

Receive ==
    /\ transit # <<>>
    /\ received' = Append(received, Head(transit))
    /\ transit' = Tail(transit)
    /\ UNCHANGED broken

Break == broken' = TRUE

Next == (\E m \in Messages : Send(m)) \/ Receive \/ Break

Spec == Init /\ [][Next]_vars
=============================================================================
