------------------------------ MODULE MCLexer ------------------------------
(***************************************************************************)
(* Lexer on every text of at most four characters from one of three        *)
(* alphabets: for words, numbers and "u-", for signs, and for strings and  *)
(* errors; and on longer texts around the sizes 8 and 16 at which the list *)
(* grows, whole, cut short by an error, and ending in a blank.             *)
(***************************************************************************)
EXTENDS Lexemes

MCLetters  == {"i", "f", "u", "_"}
MCDigits   == {"0", "7"}
MCBlanks   == {" ", "\n"}
MCKeywords == {<<"i", "f">>}

Words   == {"i", "f", "u", "-", "7", " "}
Signs   == {"<", "=", "!", "-", "u", "\n"}
Strings == {Quote, "_", " ", "#", ";", "!"}

MaxLength == 4

UpTo(alphabet) == UNION {[1..n -> alphabet] : n \in 0..MaxLength}

Long(n, last) == [i \in 1..n |-> IF i = n THEN last ELSE IF i % 2 = 0 THEN ";" ELSE "7"]

MCTexts ==
  UpTo(Words) \union UpTo(Signs) \union UpTo(Strings)
    \union {Long(n, last) : n \in {7, 8, 9, 10, 16, 17, 18}, last \in {";", " ", "!", "#", Quote}}
=============================================================================
