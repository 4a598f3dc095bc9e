------------------------------ MODULE Grammar ------------------------------
(***************************************************************************)
(* What the parser should make of a token list, said without a parser: for *)
(* each nonterminal the set of trees that the tokens i, ..., j - 1 derive. *)
(* It is the grammar at the head of syntax_analysis.cpp with what the      *)
(* comments and the test programs add: read takes an identifier (:490) and *)
(* is a statement (test5.txt), Exp is a function, the last statement of a  *)
(* program or block may do without its ';' (:152, kvadratka.txt).          *)
(*                                                                         *)
(* The parser takes more: an expression where the grammar wants a          *)
(* statement (:203 marks it UNEXPECTED_SYNTAX and falls through to :213).  *)
(* "bare" is TRUE for the language with these statements.                  *)
(***************************************************************************)
EXTENDS Source

LOCAL Text(i, j, text) == j = i + 1 /\ tokens[i] = text

RECURSIVE Level(_, _, _), Expression(_, _), Primary(_, _), FuncCall(_, _), StatementAt(_, _, _), Block(_, _, _)

LOCAL Braced(i, j) == j > i + 2 /\ tokens[i] = "{" /\ tokens[j - 1] = "}"
LOCAL Condition(i, j) == IF Braced(i, j) THEN Expression(i + 1, j - 1) ELSE {}

(* An argument stands below the one before it, on the right: a place that
   is free unless that one is a call or has a second operand.              *)
RECURSIVE ArgList(_, _)
ArgList(i, j) ==
  Expression(i, j) \union
  UNION {{Over(a, a.left, rest) : a \in Expression(i, k), rest \in ArgList(k + 1, j)} :
           k \in {n \in i + 1..j - 2 : tokens[n] = ","}}

FuncCall(i, j) ==
  IF j < i + 3 \/ tokens[i] \notin Names THEN {}
  ELSE {Named("func_call", tokens[i], Nil, Statement("args", Nil, a)) : a \in IF Braced(i + 1, j) THEN ArgList(i + 2, j - 1) ELSE {}}
         \union IF j = i + 3 /\ tokens[i + 1] = "{" /\ tokens[i + 2] = "}"
                  THEN {Named("func_call", tokens[i], Nil, Nil)} ELSE {}

InputStmt(i, j) ==
  IF j = i + 4 /\ tokens[i] = "read" /\ tokens[i + 1] = "{" /\ tokens[i + 2] \in Names /\ tokens[i + 3] = "}"
    THEN {Operator("read", Identifier(tokens[i + 2]), Nil)} ELSE {}

Primary(i, j) ==
  IF j <= i THEN {}
  ELSE {Number(Numerals[t]) : t \in {t \in DOMAIN Numerals : Text(i, j, t)}}
         \union {String(Strings[t]) : t \in {t \in DOMAIN Strings : Text(i, j, t)}}
         \union {Identifier(t) : t \in {t \in Names : Text(i, j, t)}}
         \union FuncCall(i, j) \union InputStmt(i, j)
         \union IF j > i + 2 /\ tokens[i] = "(" /\ tokens[j - 1] = ")" THEN Expression(i + 1, j - 1) ELSE {}

Unary(i, j) ==
  Primary(i, j) \union
  IF j < i + 2 THEN {}
  ELSE CASE tokens[i] = "u-" -> {Operator("u-", Nil, n) : n \in Primary(i + 1, j)}
         [] tokens[i] = "+"  -> Primary(i + 1, j)
         [] tokens[i] \in DOMAIN FunctionOf ->
              {Operator(FunctionOf[tokens[i]], Nil, n) : n \in Condition(i + 1, j)}
         [] OTHER -> {}

(* Operands of the next tighter level, grouped to the left by its signs.   *)
Levels == << {"<", ">", "<=", ">="}, {"+", "-"}, {"*", "/"}, {"^"} >>

Level(n, i, j) ==
  IF n > Len(Levels) THEN Unary(i, j)
  ELSE Level(n + 1, i, j) \union
       UNION {{Operator(tokens[k], l, r) : l \in Level(n, i, k), r \in Level(n + 1, k + 1, j)} :
                k \in {m \in i + 1..j - 2 : tokens[m] \in Levels[n]}}

LOCAL Comp(i, j) == Level(1, i, j)

(* A second comparison for equality needs parentheses.                     *)
Expression(i, j) ==
  Comp(i, j) \union
  UNION {{Operator(tokens[k], l, r) : l \in Comp(i, k), r \in Comp(k + 1, j)} :
           k \in {n \in i + 1..j - 2 : tokens[n] \in {"==", "!="}}}

-----------------------------------------------------------------------------
Branches(bare, i, j) ==
  {Statement("op_statement", b, Nil) : b \in Block(bare, i, j)} \union
  UNION {{Statement("op_statement", a, b) : a \in Block(bare, i, k), b \in Block(bare, k + 1, j)} :
           k \in {n \in i + 1..j - 2 : tokens[n] = "else"}}

RECURSIVE ParamList(_, _)
ParamList(i, j) ==
  {Identifier(t) : t \in {t \in Names : Text(i, j, t)}} \union
  IF j > i + 2 /\ tokens[i] \in Names /\ tokens[i + 1] = ","
    THEN {Over(Identifier(tokens[i]), Nil, rest) : rest \in ParamList(i + 2, j)} ELSE {}

LOCAL Parameters(i, j) ==
  {Statement("params", Nil, n) : n \in IF Braced(i, j) THEN ParamList(i + 1, j - 1) ELSE {}} \union
  IF j = i + 2 /\ tokens[i] = "{" /\ tokens[i + 1] = "}" THEN {Nil} ELSE {}

LOCAL Value(what, i, j) ==
  IF j > i + 2 /\ tokens[i] \in Names /\ tokens[i + 1] = "="
    THEN {Statement(what, Identifier(tokens[i]), e) : e \in Expression(i + 2, j)} ELSE {}

(* An expression that is not the beginning of another kind of statement.   *)
LOCAL ExpressionStatement(i, j) ==
  IF tokens[i] = "read" \/ (tokens[i] \in Names /\ j > i + 1 /\ tokens[i + 1] \in {"=", "{"})
    THEN {} ELSE Expression(i, j)

StatementAt(bare, i, j) ==
  IF j <= i THEN {}
  ELSE CASE tokens[i] = "print"  -> {Statement("print", Nil, e) : e \in Condition(i + 1, j)}
         [] tokens[i] = "out"    -> {Statement("return", Nil, e) : e \in Expression(i + 1, j)}
         [] tokens[i] = "ID_def" -> Value("var_def", i + 1, j)
         [] tokens[i] = "if"     ->
              UNION {{Statement("if", c, b) : c \in Condition(i + 1, k), b \in Branches(bare, k, j)} : k \in i + 2..j - 1}
         [] tokens[i] = "while"  ->
              UNION {{Statement("while", c, b) : c \in Condition(i + 1, k), b \in Block(bare, k, j)} : k \in i + 2..j - 1}
         [] tokens[i] = "def"    ->
              IF j < i + 3 \/ tokens[i + 1] \notin Names THEN {}
              ELSE UNION {{Named("func_def", tokens[i + 1], ps, b) :
                             ps \in Parameters(i + 2, k), b \in Block(bare, k, j)} : k \in i + 3..j - 1}
         [] OTHER -> Value("assignment", i, j) \union FuncCall(i, j) \union InputStmt(i, j)
                       \union IF bare THEN ExpressionStatement(i, j) ELSE {}

RECURSIVE StatementRow(_, _, _)
StatementRow(bare, i, j) ==
  StatementAt(bare, i, j) \union
  UNION {{Statement("op_end", a, b) : a \in StatementRow(bare, i, k), b \in StatementAt(bare, k + 1, j)} :
           k \in {n \in i + 1..j - 2 : tokens[n] = ";"}}

Statements(bare, i, j) ==
  IF i = j THEN {Nil}
  ELSE StatementRow(bare, i, IF tokens[j - 1] = ";" THEN j - 1 ELSE j)

Block(bare, i, j) ==
  IF j < i + 4 \/ tokens[i] # "{" \/ tokens[i + 1] # "{" \/ tokens[j - 1] # "}" \/ tokens[j - 2] # "}" THEN {}
  ELSE {Statement("block", Nil, n) : n \in Statements(bare, i + 2, j - 2)}

(* The trees of the text before the first '$'.                             *)
Derivations(bare) ==
  LET ends == {n \in 1..Len(tokens) : tokens[n] = "$"} IN
  IF ends = {} THEN {}
  ELSE Statements(bare, 1, CHOOSE n \in ends : \A m \in ends : n <= m)

Grammatical == Derivations(FALSE) \ {Nil} # {}

(* The place of an argument is taken: its tree has something on the right
   that the link to the next one replaces (syntax_analysis.cpp:368).       *)
Overwritten ==
  \E k \in {n \in 1..Len(tokens) : tokens[n] = ","} : \E i \in 2..k - 1 :
    tokens[i - 1] \in {"{", ","} /\ \E a \in Expression(i, k) : a.right # Nil

-----------------------------------------------------------------------------
(* The parser (GetProgram and all it calls) takes every text of the
   grammar, except for the empty program.  What it takes beyond the grammar
   are the texts with statements that are only expressions, and no others. *)
AcceptsTheLanguage ==
  /\ Grammatical => Accepted(GetProgram)
  /\ Accepted(GetProgram) <=> Derivations(TRUE) \ {Nil} # {}

(* The tree it builds is the derivation, of which there is one: operators
   group by their level and from left to right, statements by their ';',
   branches and bodies stand where the translators look for them.  Nothing
   is said of a tree in which an argument has been overwritten.            *)
TreeIsTheDerivation ==
  Accepted(GetProgram) /\ ~ Overwritten =>
    /\ Derivations(TRUE) = {GetProgram.node}
    /\ Grammatical => Derivations(FALSE) = {GetProgram.node}
=============================================================================
