------------------------------- MODULE MCLexer -------------------------------
(* The word "aa" is the keyword of the small instance. *)
EXTENDS Lexer

MCKeywords == {<<"a", "a">>}

=============================================================================
