------------------------------ MODULE Lexemes ------------------------------
(***************************************************************************)
(* What the words of the language are, said without a pointer: a text is   *)
(* read by taking the longest lexeme it begins with, again and again.      *)
(***************************************************************************)
EXTENDS Lexer

AllIn(s, class) == \A k \in DOMAIN s : s[k] \in class

(* The kinds of token a sequence of characters spells, one at the most
   ("u-" is no identifier).                                                *)
Spelled(s) ==
  {k \in Kinds :
     CASE k = "UNARY_MINUS" -> s = <<"u", "-">>
       [] k = "KEYWORD"     -> s \in Keywords
       [] k = "IDENTIFIER"  -> s[1] \in Letters /\ AllIn(s, Letters \union Digits) /\ s \notin Keywords
       [] k = "NUMBER"      -> AllIn(s, Digits)
       [] k = "STRING"      -> Len(s) > 1 /\ {k2 \in DOMAIN s : s[k2] = Quote} = {1, Len(s)}
       [] k = "SYMBOL"      -> \/ Len(s) = 1 /\ s[1] \in Singles \union Pairs
                               \/ Len(s) = 2 /\ s[1] \in Pairs \union {Bang} /\ s[2] = "="
       [] OTHER             -> FALSE}

(* The lexemes the text t holds at i, by the places they end at.           *)
Ends(t, i) == {j \in i..Len(t) : Spelled(SubSeq(t, i, j)) # {}}

Longest(t, i) == CHOOSE j \in Ends(t, i) : \A k \in Ends(t, i) : k <= j

KindOf(s) == CHOOSE k \in Spelled(s) : TRUE

(* A string is spelled with its quotes and kept without them.              *)
Kept(kind, s) == IF kind = "STRING" THEN SubSeq(s, 2, Len(s) - 1) ELSE s

TokenOf(s) == Token(KindOf(s), Kept(KindOf(s), s))

(* The tokens of t from i on and the error it ends with, given those from
   every later place.                                                      *)
ReadOn(t, i, rest) ==
  IF i > Len(t) THEN [tokens |-> <<EOF>>, error |-> "SUCCESS"]
  ELSE IF t[i] \in Blanks THEN rest[i + 1]
  ELSE IF Ends(t, i) = {}
       THEN [tokens |-> << >>,
             error  |-> IF t[i] = Quote THEN "FORGOTTEN_QUATATION_MARK" ELSE "UNKNOWN_CHAR"]
  ELSE LET after == rest[Longest(t, i) + 1] IN
       [tokens |-> <<TokenOf(SubSeq(t, i, Longest(t, i)))>> \o after.tokens, error |-> after.error]

Readings(t) == LET reading[i \in 1..Len(t) + 1] == ReadOn(t, i, reading) IN reading

Reading(t) == Readings(t)[1]

(* The tokens in the array.                                                *)
Listed == [i \in 1..count |-> data[i - 1]]

(* The lexer reads the longest lexemes: unless an allocation has failed or
   the text could not be loaded, the list holds the tokens of the reading
   and the error is the reading's, for every mixture of words, numbers,
   signs of one and two characters, "u-", strings and blanks.              *)
LongestLexemes ==
  (pc = "return" /\ ~starved /\ error # "LOADING_EXPRESSION_ERROR") =>
    /\ error = Reading(text).error
    /\ error = "SUCCESS" => Listed = Reading(text).tokens
=============================================================================
