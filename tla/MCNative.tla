------------------------------ MODULE MCNative ------------------------------
(***************************************************************************)
(* Native on all programs of at most three words behind a prologue that    *)
(* defines two variables and two functions of four parameters, the second  *)
(* calling the first, and on a library of longer ones.                     *)
(***************************************************************************)
EXTENDS Native, SequencesExt

MCNames    == {"x", "n", "a", "b", "c", "d", "e", "f", "g", "h", "p", "r", "s", "t", "i", "q", "j"}
MCNumerals == [t \in {"0", "1", "2", "3", "10"} |->
                 CASE t = "0" -> 0 [] t = "1" -> 1 [] t = "2" -> 2 [] t = "3" -> 3 [] t = "10" -> 10]
MCStrings  == [t \in {"hi"} |-> <<50, 51>>]

MCValue    == -20..60
Clip(n)    == IF n > 60 THEN 60 ELSE IF n < -20 THEN -20 ELSE n
MCArith1   == [x \in {"SQRT", "SIN", "COS", "LN", "EXP"} \X MCValue |->
                 CASE x[1] = "SQRT" -> x[2] \div 2 [] x[1] = "COS" -> 2 [] OTHER -> Clip(x[2] + 1)]
MCArith2   == [x \in {"ADD", "SUB", "MUL", "DIV"} \X MCValue \X MCValue |->
  Clip(CASE x[1] = "ADD" -> x[2] + x[3]
         [] x[1] = "SUB" -> x[2] - x[3]
         [] x[1] = "MUL" -> x[2] * x[3]
         [] x[1] = "DIV" -> IF x[3] = 0 THEN 60 ELSE x[2] \div x[3])]

-----------------------------------------------------------------------------
(* f multiplies, sometimes; g calls f with a variable of its own waiting.  *)
Definitions == <<"ID_def", "x", "=", "2", ";", "ID_def", "n", "=", "0", ";",
  "def", "f", "{", "a", ",", "b", ",", "c", ",", "d", "}", "{", "{",
    "if", "{", "a", ">=", "3", "}", "{", "{", "out", "a", "-", "b", ";", "}", "}", ";",
    "ID_def", "q", "=", "a", "^", "c", "*", "b", ";", "ID_def", "j", "=", "q", "+", "d", ";", "out", "j", ";", "}", "}", ";",
  "def", "g", "{", "p", ",", "a", ",", "r", ",", "s", "}", "{", "{",
    "ID_def", "t", "=", "p", "+", "1", ";", "ID_def", "i", "=", "a", "-", "f", "{", "t", ",", "p", ",", "2", ",", "a", "}", ";",
    "print", "{", "t", "+", "i", "*", "s", "}", ";", "out", "i", ";", "}", "}", ";">>

Words == {
  <<"x", "=", "x", "+", "1", ";">>, <<"print", "{", "x", "}", ";">>,
  <<"if", "{", "x", "<", "3", "}", "{", "{", "print", "{", "n", "}", ";", "}", "}", "else", "{", "{">>,
  <<"if", "{", "x", "==", "n", "}", "{", "{">>, <<"}", "}", ";">>,
  <<"while", "{", "n", "!=", "2", "}", "{", "{", "n", "=", "n", "+", "1", ";">>,
  <<"x", "=", "1", "+", "f", "{", "x", ",", "n", ",", "2", ",", "1", "}", ";">>,
  <<"g", "{", "n", ",", "x", ",", "x", ",", "3", "}", ";">>,
  <<"x", "=", "1", ";", "read", "{", "x", "}", ";">>,
  <<"x", "-", "n", ";">> }

End == <<"$", "EOF">>
Generated == {Definitions \o FlattenSeq(w) \o End : w \in UNION {[1..k -> Words] : k \in 1..3}}

Library == {
  \* a function that calls itself with a product waiting on the stack
  <<"def", "f", "{", "a", ",", "b", ",", "c", ",", "d", "}", "{", "{",
      "if", "{", "a", "<=", "1", "}", "{", "{", "out", "b", ";", "}", "}", ";",
      "ID_def", "x", "=", "a", "-", "1", ";", "out", "a", "*", "f", "{", "x", ",", "b", ",", "c", ",", "d", "}", ";", "}", "}", ";",
    "print", "{", "f", "{", "3", ",", "2", ",", "1", ",", "0", "}", "}", ";", "$", "EOF">>,
  \* every function of the library, and the two signs before a number
  <<"ID_def", "x", "=", "Exp", "{", "2", "}", "/", "Ln", "{", "1", "}", ";", "print", "{", "x", "==", "1", "}", ";",
    "print", "{", "Sin", "{", "Cos", "{", "x", "}", "}", "}", ";", "print", "{", "Tg", "{", "x", "}", "}", ";",
    "print", "{", "Sqrt", "{", "3", "}", "}", ";", "print", "{", "u-", "x", "^", "2", "}", ";",
    "print", "{", "2", "^", "3", "-", "10", "/", "3", "}", ";", "$", "EOF">>,
  \* arguments on the stack, a string, a variable of main in a function
  <<"def", "h", "{", "a", ",", "b", ",", "c", ",", "d", ",", "e", "}", "{", "{", "print", "{", "a", "-", "d", "}", ";", "}", "}", ";",
    "h", "{", "1", ",", "2", ",", "3", ",", "0", ",", "10", "}", ";", "print", "{", "1", "}", ";", "$", "EOF">>,
  <<"ID_def", "x", "=", "1", ";", "print", "{", "hi", "}", ";", "print", "{", "x", "}", ";", "$", "EOF">>,
  <<"ID_def", "x", "=", "1", ";", "def", "f", "{", "a", "}", "{", "{", "out", "a", "+", "x", ";", "}", "}", ";",
    "print", "{", "f", "{", "x", "}", "}", ";", "$", "EOF">>,
  \* operators for statements
  <<"ID_def", "x", "=", "1", ";", "x", "^", "3", ";", "print", "{", "x", "}", ";", "$", "EOF">>,
  <<"ID_def", "x", "=", "1", ";", "Sin", "{", "x", "}", ";", "$", "EOF">>,
  \* a function with more variables than the first one, called under a sum
  <<"def", "f", "{", "a", ",", "b", ",", "c", ",", "d", "}", "{", "{", "out", "a", ";", "}", "}", ";",
    "def", "g", "{", "a", ",", "b", ",", "c", ",", "d", "}", "{", "{", "ID_def", "x", "=", "a", ";", "ID_def", "n", "=", "b", ";",
      "x", "=", "n", "+", "f", "{", "a", ",", "b", ",", "c", ",", "d", "}", ";", "print", "{", "x", "-", "n", "}", ";",
      "out", "n", ";", "}", "}", ";",
    "print", "{", "g", "{", "3", ",", "2", ",", "1", ",", "0", "}", "}", ";", "$", "EOF">>,
  \* a definition below an if, and a recursion without an end
  <<"ID_def", "x", "=", "1", ";", "if", "{", "x", "}", "{", "{",
      "def", "f", "{", "a", ",", "b", ",", "c", ",", "d", "}", "{", "{", "out", "a", ";", "}", "}", ";", "}", "}", ";", "$", "EOF">>,
  <<"def", "f", "{", "a", ",", "b", ",", "c", ",", "d", "}", "{", "{", "print", "{", "a", "}", ";",
      "out", "1", "+", "f", "{", "a", ",", "b", ",", "c", ",", "d", "}", ";", "}", "}", ";",
    "f", "{", "0", ",", "1", ",", "2", ",", "3", "}", ";", "$", "EOF">>,
  <<"def", "f", "{", "a", ",", "b", ",", "c", ",", "d", "}", "{", "{",
      "out", "1", "+", "f", "{", "a", ",", "b", ",", "c", ",", "d", "}", ";", "}", "}", ";",
    "f", "{", "0", ",", "1", ",", "2", ",", "3", "}", ";", "$", "EOF">>,
  \* a definition in the body of another
  <<"def", "f", "{", "a", ",", "b", ",", "c", ",", "d", "}", "{", "{",
      "def", "g", "{", "p", ",", "r", ",", "s", ",", "t", "}", "{", "{", "out", "p", ";", "}", "}", ";",
      "out", "a", ";", "}", "}", ";",
    "print", "{", "f", "{", "3", ",", "2", ",", "1", ",", "0", "}", "}", ";", "$", "EOF">> }

MCSources == Generated \union Library
=============================================================================
