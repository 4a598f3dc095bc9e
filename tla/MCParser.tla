------------------------------ MODULE MCParser ------------------------------
(***************************************************************************)
(* Parser against Grammar on every text of at most five words from one of  *)
(* three vocabularies: for expressions, for calls and their arguments, and *)
(* for statements and blocks.                                              *)
(***************************************************************************)
EXTENDS Grammar

MCNames    == {"x", "f"}
MCNumerals == [t \in {"1"} |-> 1]
MCStrings  == [t \in {"s"} |-> <<65>>]

Expressions ==
  {<<"x">>, <<"1">>, <<"+">>, <<"*">>, <<"^">>, <<"u-">>, <<"(">>, <<")">>, <<"<">>, <<"==">>}

Calls ==
  {<<"x">>, <<"x", "-", "x">>, <<"s">>, <<"-">>, <<"f", "{">>, <<"Sin", "{">>, <<"}">>, <<",">>, <<"read", "{">>}

Structure ==
  {<<"x", "=", "1">>, <<"f", "{", "}">>, <<"out">>, <<";">>, <<"$">>, <<"if", "{", "x", "}">>,
   <<"while", "{", "1", "}">>, <<"{", "{">>, <<"}", "}">>, <<"else">>, <<"}", "}", "else", "{", "{">>,
   <<"def", "f", "{", "x", "}">>}

MCVocabularies == {Expressions, Calls, Structure}
MCPrologue     == << >>
MCEpilogues    == {<<"$", "EOF">>, <<"EOF">>}
=============================================================================
