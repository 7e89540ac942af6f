----------------------------- MODULE MCAnalyzer -----------------------------
(***************************************************************************)
(* Small instances of Analyzer: a content is the set of files it includes. *)
(***************************************************************************)
EXTENDS Analyzer

\* A content that includes nothing, one file, or two of the three: any of them may
\* be the file whose content it is.
MCTexts == {{}, {1}, {2, 3}}
MCIncludes == [t \in Texts |-> t]
MCDisk == [f \in Files |-> IF f = 3 THEN {1} ELSE {}]
=============================================================================
