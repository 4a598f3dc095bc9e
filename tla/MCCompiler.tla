----------------------------- MODULE MCCompiler -----------------------------
(***************************************************************************)
(* What becomes of every program of at most five words behind a variable:  *)
(* its scopes, its tree files and its text.  Two vocabularies: one of      *)
(* definitions and uses of three variables and three functions at the top  *)
(* level, in blocks and in nested functions, and one of statements of all  *)
(* kinds, comparisons, powers, large numbers, strings, calls and returns.  *)
(***************************************************************************)
EXTENDS Compilation

MCNames    == {"v", "x", "y", "z", "f", "g", "h"}
MCNumerals == [t \in {"1", "2", "1234565", "99999950"} |->
                 CASE t = "1" -> 1 [] t = "2" -> 2 [] t = "1234565" -> 1234565 [] OTHER -> 99999950]
MCStrings  == [t \in {"ab"} |-> <<97, 98>>]

Definitions == {
  <<"ID_def", "x", "=", "1", ";">>, <<"ID_def", "y", "=", "x", ";">>,
  <<"def", "f", "{", "x", "}", "{", "{">>, <<"def", "g", "{", "y", ",", "z", "}", "{", "{">>,
  <<"def", "h", "{", "x", "}", "{", "{">>, <<"if", "{", "y", "}", "{", "{">>, <<"}", "}", ";">>,
  <<"f", "{", "y", "}", ";", "read", "{", "y", "}", ";">> }

Statements == {
  <<"v", "=", "v", "^", "2", "-", "1234565", ";", "read", "{", "v", "}", ";">>,
  <<"print", "{", "ab", "}", ";", "print", "{", "Tg", "{", "v", "}", "}", ";">>,
  <<"def", "f", "{", "y", ",", "z", "}", "{", "{">>, <<"def", "g", "{", "}", "{", "{">>,
  <<"if", "{", "v", "<", "99999950", "}", "{", "{">>,
  <<"}", "}", "else", "{", "{">>, <<"}", "}", ";">>, <<"while", "{", "v", "!=", "u-", "1", "}", "{", "{">>,
  <<"f", "{", "u-", "v", ",", "g", "{", "}", "}", ";", "out", "v", ";">> }

MCVocabularies == {Definitions, Statements}

MCPrologue  == <<"ID_def", "v", "=", "1", ";">>
MCEpilogues == {<<"$", "EOF">>}
=============================================================================
