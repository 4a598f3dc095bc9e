---------------------------- MODULE MCToolchain ----------------------------
(***************************************************************************)
(* Toolchain on all programs of at most four words behind a prologue that  *)
(* defines two variables and a function, and on a library of longer ones.  *)
(* Numbers from -20 to 60, arithmetic stopping at these; 8 RAM cells for   *)
(* variables, 8 for strings.                                               *)
(***************************************************************************)
EXTENDS Toolchain, SequencesExt

MCNames    == {"x", "n", "a", "b", "c", "f", "g"}
MCNumerals == [t \in {"0", "1", "2", "3", "10"} |->
                 CASE t = "0" -> 0 [] t = "1" -> 1 [] t = "2" -> 2 [] t = "3" -> 3 [] t = "10" -> 10]
MCStrings  == [t \in {"s", "t"} |-> IF t = "s" THEN <<50, 51>> ELSE <<52>>]

MCValue    == -20..60
Clip(n)    == IF n > 60 THEN 60 ELSE IF n < -20 THEN -20 ELSE n
MCPositive == 1..60
MCLiteral  == [w \in -20..60 |-> w]
MCArith1   == [x \in {"SQRT", "SIN", "COS", "LN", "EXP", "ARCTG"} \X MCValue |->
                 CASE x[1] = "SQRT" -> x[2] \div 2 [] x[1] = "COS" -> 2 [] OTHER -> Clip(x[2] + 1)]
MCArith2   == [x \in {"ADD", "SUB", "MUL", "DIV"} \X MCValue \X MCValue |->
  Clip(CASE x[1] = "ADD" -> x[2] + x[3]
         [] x[1] = "SUB" -> x[2] - x[3]
         [] x[1] = "MUL" -> x[2] * x[3]
         [] x[1] = "DIV" -> IF x[3] = 0 THEN 60 ELSE x[2] \div x[3])]

-----------------------------------------------------------------------------
Prologue == <<"ID_def", "x", "=", "2", ";", "ID_def", "n", "=", "0", ";",
              "def", "f", "{", "a", ",", "b", "}", "{", "{",
                "a", "=", "a", "^", "b", ";",
                "if", "{", "a", ">=", "3", "}", "{", "{", "out", "a", "-", "b", ";", "}", "}", ";",
                "print", "{", "b", "}", ";", "}", "}", ";">>

Words == {
  <<"x", "=", "x", "+", "1", ";">>, <<"print", "{", "x", "}", ";">>,
  <<"if", "{", "x", "<", "3", "}", "{", "{", "print", "{", "s", "}", ";", "}", "}", "else", "{", "{">>,
  <<"if", "{", "x", "==", "n", "}", "{", "{">>, <<"}", "}", ";">>,
  <<"while", "{", "n", "!=", "2", "}", "{", "{", "n", "=", "n", "+", "1", ";">>,
  <<"x", "=", "f", "{", "x", ",", "n", "}", ";">>, <<"f", "{", "n", ",", "x", "}", ";", "print", "{", "t", "}", ";">> }

End == <<"$", "EOF">>
Generated == {Prologue \o FlattenSeq(w) \o End : w \in UNION {[1..k -> Words] : k \in 1..4}}

Library == {
  \* a function that calls itself and still has its parameter on the stack
  <<"def", "g", "{", "a", "}", "{", "{", "if", "{", "a", "<=", "1", "}", "{", "{", "out", "1", ";", "}", "}", ";",
      "ID_def", "x", "=", "a", "-", "1", ";", "out", "a", "*", "g", "{", "x", "}", ";", "}", "}", ";",
    "print", "{", "g", "{", "10", "}", "}", ";", "$", "EOF">>,
  \* what is read, its functions, strings in a loop
  <<"ID_def", "x", "=", "0", ";", "read", "{", "x", "}", ";",
    "while", "{", "x", ">", "0", "}", "{", "{", "print", "{", "s", "}", ";", "print", "{", "t", "}", ";",
      "x", "=", "x", "-", "1", ";", "}", "}", ";", "print", "{", "Tg", "{", "x", "}", "}", ";",
    "print", "{", "x", "}", ";", "print", "{", "Sqrt", "{", "u-", "x", "}", "}", ";",
    "print", "{", "x", "}", ";", "$", "EOF">>,
  <<"ID_def", "x", "=", "Exp", "{", "2", "}", "/", "Ln", "{", "1", "}", ";", "print", "{", "x", "==", "1", "}", ";",
    "print", "{", "(", "u-", "x", ")", "^", "0", "+", "Sin", "{", "Cos", "{", "x", "}", "}", "}", ";",
    "print", "{", "x", "/", "0", "}", ";", "$", "EOF">>,
  \* powers of powers, in exponents, and of calls that compute powers
  <<"def", "g", "{", "a", "}", "{", "{", "out", "a", "^", "2", "+", "1", ";", "}", "}", ";",
    "ID_def", "x", "=", "2", ";", "print", "{", "3", "^", "x", "^", "1", "}", ";",
    "print", "{", "x", "^", "(", "x", "^", "2", ")", "}", ";",
    "print", "{", "x", "*", "g", "{", "x", "}", "^", "g", "{", "0", "}", "^", "2", "-", "1", "^", "x", "}", ";",
    "print", "{", "(", "x", "^", "3", "==", "3", "^", "x", ")", "+", "x", "^", "g", "{", "1", "}", "}", ";", "$", "EOF">>,
  <<"def", "f", "{", "a", ",", "b", "}", "{", "{",
      "if", "{", "a", "^", "b", "<", "10", "}", "{", "{", "out", "b", "^", "a", ";", "}", "}",
      "else", "{", "{", "out", "a", "-", "b", ";", "}", "}", ";", "}", "}", ";",
    "ID_def", "x", "=", "3", ";", "ID_def", "n", "=", "0", ";",
    "while", "{", "n", "^", "2", "<", "f", "{", "x", ",", "2", "}", "^", "1", "}", "{", "{",
      "n", "=", "n", "+", "1", ";", "print", "{", "x", "^", "n", "^", "f", "{", "n", ",", "1", "}", "}", ";", "}", "}", ";",
    "print", "{", "f", "{", "n", ",", "x", "}", "^", "f", "{", "x", ",", "n", "}", "}", ";", "$", "EOF">> }

MCSources == Generated \union Library

MCLocalSources == {
  <<"def", "g", "{", "a", "}", "{", "{", "out", "a", "+", "1", ";", "}", "}", ";",
    "def", "f", "{", "b", "}", "{", "{", "ID_def", "x", "=", "g", "{", arg, "}", ";", "out", "b", ";", "}", "}", ";",
    "print", "{", "f", "{", "2", "}", "}", ";", "$", "EOF">> : arg \in {"b", "1"} }

MCReadAs       == << >>
MCRegisterLike == {}
=============================================================================
