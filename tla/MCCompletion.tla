---------------------------- MODULE MCCompletion ----------------------------
(***************************************************************************)
(* A small instance of Completion: two documents, which are                *)
(* interchangeable and may include a library.                              *)
(***************************************************************************)
EXTENDS Completion

CONSTANTS doc1, doc2, lib

MCIncludes == {<<doc1, lib>>, <<doc2, lib>>}
DocSymmetry == Permutations({doc1, doc2})

L(n, sem, zero) == [name |-> n, type |-> "label", zero |-> zero, sem |-> sem]

\* Two scopes of which one name begins with the other, their sub-labels, one
\* marked as a subroutine by its name, and a macro
MCSymbols ==
    {L(<<"a">>, "subroutine", FALSE), L(<<"a", "/", "x">>, "variable", FALSE),
     L(<<"a", "/", ">">>, "variable", FALSE), L(<<"a", "b", "/", "x">>, "enum", TRUE),
     [name |-> <<"a", "/", "m">>, type |-> "macro", zero |-> FALSE, sem |-> "subroutine"]}

MCTokens ==
    {<<"a">>, <<"a", "/">>, <<";", "a">>, <<"=", "a", "/">>, <<"!", "a">>, <<"?">>,
     <<".", "a">>, <<"-", "a", "b">>, <<",">>, <<"_", "&">>, <<"/">>, <<"/", "x">>,
     <<"|", "a">>, <<"|", "/">>, <<"$">>, <<";", "&", "x">>, <<".", "&", "x">>, <<"&", "x">>}

MCReset == <<"RESET">>
=============================================================================
