----------------------------- MODULE MCSession -----------------------------
(***************************************************************************)
(* Small instances of Session.  Two documents, 1 and 3, may both include   *)
(* the library 2, whose uri sorts between theirs.  "good" compiles without *)
(* a report, "bad" with one message about the document, and "lib" with one *)
(* about the library and one about the document, in that order.            *)
(***************************************************************************)
EXTENDS Session

CONSTANTS good, bad, lib, m1, m2

MCTexts == {good, bad, lib}
MCTextsSmall == {good, bad}
MCNeeds == [t \in Texts |-> IF t = lib THEN {2} ELSE {}]
MCReport == [ft \in Files \X Texts |->
    CASE ft[2] = good -> <<>>
      [] ft[2] = bad  -> <<[uri |-> ft[1], msg |-> m1]>>
      [] ft[2] = lib  -> <<[uri |-> 2, msg |-> IF ft[1] = 1 THEN m1 ELSE m2],
                           [uri |-> ft[1], msg |-> m2]>>]

\* Every document includes the library, which has a report of its own.
MCNeedsAll == [t \in Texts |-> {2}]
=============================================================================
