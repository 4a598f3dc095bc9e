------------------------------- MODULE Source -------------------------------
(***************************************************************************)
(* The texts that the stages behind the lexer are checked on: one word of  *)
(* a vocabulary after the other, a word being a short run of tokens so     *)
(* that whole statements fit the bound.                                    *)
(***************************************************************************)
EXTENDS Parser

CONSTANTS
  Vocabularies,  (* each a set of words                                     *)
  Prologue,      (* the tokens every text begins with                       *)
  Epilogues,     (* what may follow the words, EOF included                 *)
  MaxWords       (* BOUND: on the words of a text                           *)

VARIABLES
  vocabulary,    (* the one this text is written in                         *)
  epilogue,      (* what follows its words                                  *)
  count          (* the number of its words                                 *)

sourceVars == <<tokens, vocabulary, epilogue, count>>

Init ==
  /\ vocabulary \in Vocabularies
  /\ epilogue \in Epilogues
  /\ tokens = Prologue \o epilogue
  /\ count = 0

(* token_list_push for each token of a word.                               *)
Write(word) ==
  /\ count < MaxWords
  /\ count' = count + 1
  /\ tokens' = SubSeq(tokens, 1, Len(tokens) - Len(epilogue)) \o word \o epilogue
  /\ UNCHANGED <<vocabulary, epilogue>>

Next == \E word \in vocabulary : Write(word)

Spec == Init /\ [][Next]_sourceVars
=============================================================================
