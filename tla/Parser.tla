------------------------------- MODULE Parser -------------------------------
(***************************************************************************)
(* source/frontend/syntax_analysis.cpp: recursive descent over the token   *)
(* list, one operator per function.  A token is its text: a keyword, a     *)
(* sign, an identifier, a number or a string, the last of them "EOF".      *)
(*                                                                         *)
(* A function returns its node and the position behind it, or No for NULL. *)
(* The error codes only choose a message: the frontend gives up on each of *)
(* them and on a NULL tree alike.                                          *)
(***************************************************************************)
EXTENDS Tree, FiniteSets

CONSTANTS
  Names,       (* the texts that are identifiers                            *)
  Numerals,    (* the value of each text that is a number                   *)
  Strings      (* the characters of each text that is a string literal      *)

VARIABLE tokens

No           == [ok |-> FALSE, node |-> Nil, pos |-> 0]
Yes(node, p) == [ok |-> TRUE, node |-> node, pos |-> p]

(* current_token, compared with one type or several.                       *)
In(p, texts) == p \in 1..Len(tokens) /\ tokens[p] \in texts
Is(p, text)  == In(p, {text})

(* REQUIRE_TOKEN behind a result, and a node in place of that of a result. *)
Then(r, text) == IF r.ok /\ Is(r.pos, text) THEN [r EXCEPT !.pos = @ + 1] ELSE No
On(r, node)   == IF r.ok THEN Yes(node, r.pos) ELSE No

FunctionOf == [Sin |-> "sin", Cos |-> "cos", Tg |-> "tan",
               Ln |-> "ln", Sqrt |-> "sqrt", Exp |-> "exp"]

RECURSIVE GetBlock(_), GetStatement(_), GetExpression(_), GetComp(_), GetUnary(_),
          GetPrimaryExpression(_), GetFuncCall(_)

-----------------------------------------------------------------------------
(* Expressions.                                                            *)
InBraces(p) == IF Is(p, "{") THEN Then(GetExpression(p + 1), "}") ELSE No

(* The signs of the levels, from the loosest to the tightest.              *)
Signs == << {"==", "!="}, {"<", ">", "<=", ">="}, {"+", "-"}, {"*", "/"}, {"^"} >>

RECURSIVE Chain(_, _), Loop(_, _), Tighter(_, _)
Tighter(level, p) == IF level = Len(Signs) THEN GetUnary(p) ELSE Chain(level + 1, p)

(* l, the operator behind it, r.                                           *)
Joined(l, r) == On(r, Operator(tokens[l.pos], l.node, r.node))

(* Seeded fault: a loop that hangs each operator below the last one.       *)
FaultChain(level, p) ==
  LET RECURSIVE Right(_)
      Right(r) == IF r.ok /\ In(r.pos, Signs[level]) THEN Joined(r, Right(Tighter(level, r.pos + 1))) ELSE r
  IN  Right(Tighter(level, p))

(* The loop of GetComp, GetAddSub, GetMulDiv and GetPow, behind r.         *)
Loop(level, r) ==
  IF r.ok /\ In(r.pos, Signs[level]) THEN Loop(level, Joined(r, Tighter(level, r.pos + 1))) ELSE r

Chain(level, p) == Loop(level, Tighter(level, p))

GetPow(p)    == Chain(5, p)
GetMulDiv(p) == Chain(4, p)
GetAddSub(p) == Chain(3, p)
GetComp(p)   == Chain(2, p)

(* Seeded fault: a while where the code has an if.                         *)
FaultGetEquality(p) == Chain(1, p)

EqualityBehind(r) == IF r.ok /\ In(r.pos, Signs[1]) THEN Joined(r, GetComp(r.pos + 1)) ELSE r
GetEquality(p)    == EqualityBehind(GetComp(p))

GetExpression(p) == GetEquality(p)

(* The next argument becomes the right child of the argument before, over
   whatever was there.  args[1] is the list, args[n] the last argument.    *)
RECURSIVE Linked(_)
Linked(args) ==
  IF Len(args) = 1 THEN args[1]
  ELSE Over(Head(args), Head(args).left, Linked(Tail(args)))

RECURSIVE ArgsFrom(_, _)
ArgsFrom(args, r) ==
  CASE ~ r.ok -> No
    [] r.ok /\ Is(r.pos, ",") -> ArgsFrom(Append(args, r.node), GetExpression(r.pos + 1))
    [] OTHER -> Yes(Statement("args", Nil, Linked(Append(args, r.node))), r.pos)

GetArgs(p) == ArgsFrom(<< >>, GetExpression(p))

Call(name, args) == On(args, Named("func_call", name, Nil, args.node))

GetFuncCall(p) ==
  CASE ~ Is(p + 1, "{") -> No
    [] Is(p + 1, "{") /\ Is(p + 2, "}") -> Call(tokens[p], Yes(Nil, p + 3))
    [] OTHER -> Then(Call(tokens[p], GetArgs(p + 2)), "}")

GetInputStmt(p) ==
  IF Is(p + 1, "{") /\ In(p + 2, Names)
    THEN Then(Yes(Operator("read", Identifier(tokens[p + 2]), Nil), p + 3), "}")
    ELSE No

GetPrimaryExpression(p) ==
  CASE Is(p, "(")               -> Then(GetExpression(p + 1), ")")
    [] In(p, DOMAIN Numerals)   -> Yes(Number(Numerals[tokens[p]]), p + 1)
    [] In(p, DOMAIN Strings)    -> Yes(String(Strings[tokens[p]]), p + 1)
    [] In(p, Names)             -> IF Is(p + 1, "{") THEN GetFuncCall(p)
                                   ELSE Yes(Identifier(tokens[p]), p + 1)
    [] Is(p, "read")            -> GetInputStmt(p)
    [] OTHER                    -> No

(* A sign or a function takes one operand, as its right child.             *)
Prefixed(o, r) == On(r, Operator(o, Nil, r.node))

GetUnary(p) ==
  CASE Is(p, "u-") -> Prefixed("u-", GetPrimaryExpression(p + 1))
    [] Is(p, "+")  -> GetPrimaryExpression(p + 1)
    [] In(p, DOMAIN FunctionOf) -> Prefixed(FunctionOf[tokens[p]], InBraces(p + 1))
    [] OTHER       -> GetPrimaryExpression(p)

-----------------------------------------------------------------------------
(* Statements.  The last part of one is its right child.                   *)
Ended(what, first, r) == On(r, Statement(what, first, r.node))

IdAndValue(what, p) ==
  IF In(p, Names) /\ Is(p + 1, "=") THEN Ended(what, Identifier(tokens[p]), GetExpression(p + 2)) ELSE No

GetAssignment(p) == IdAndValue("assignment", p)
GetVarDef(p)     == IdAndValue("var_def", p + 1)
GetPrintStmt(p)  == Ended("print", Nil, InBraces(p + 1))
GetReturn(p)     == Ended("return", Nil, GetExpression(p + 1))

ElseBehind(body) ==
  IF body.ok /\ Is(body.pos, "else") THEN Ended("op_statement", body.node, GetBlock(body.pos + 1))
  ELSE On(body, Statement("op_statement", body.node, Nil))

IfBehind(condition) ==
  IF condition.ok THEN Ended("if", condition.node, ElseBehind(GetBlock(condition.pos))) ELSE No

WhileBehind(condition) ==
  IF condition.ok THEN Ended("while", condition.node, GetBlock(condition.pos)) ELSE No

GetIfStmt(p)    == IfBehind(InBraces(p + 1))
GetWhileStmt(p) == WhileBehind(InBraces(p + 1))

(* The parameters hang on each other's right, the first on the list.       *)
Chained(node, r) == On(r, Over(node, Nil, r.node))

RECURSIVE ParamsFrom(_)
ParamsFrom(p) ==
  CASE ~ In(p, Names) -> No
    [] In(p, Names) /\ Is(p + 1, ",") -> Chained(Identifier(tokens[p]), ParamsFrom(p + 2))
    [] OTHER -> Yes(Identifier(tokens[p]), p + 1)

GetParams(p) == Ended("params", Nil, ParamsFrom(p))

Function(name, params, body) == On(body, Named("func_def", name, params.node, body.node))
BodyBehind(name, params) == IF params.ok THEN Function(name, params, GetBlock(params.pos)) ELSE No

GetFuncDef(p) ==
  IF In(p + 1, Names) /\ Is(p + 2, "{")
    THEN BodyBehind(tokens[p + 1], IF Is(p + 3, "}") THEN Yes(Nil, p + 4) ELSE Then(GetParams(p + 3), "}"))
    ELSE No

(* The keyword or, for an identifier, the sign behind it decides.          *)
GetStatement(p) ==
  CASE Is(p, "print")  -> GetPrintStmt(p)
    [] Is(p, "if")     -> GetIfStmt(p)
    [] Is(p, "while")  -> GetWhileStmt(p)
    [] Is(p, "def")    -> GetFuncDef(p)
    [] Is(p, "ID_def") -> GetVarDef(p)
    [] Is(p, "out")    -> GetReturn(p)
    [] Is(p, "read")   -> GetInputStmt(p)
    [] In(p, Names) /\ Is(p + 1, "=") -> GetAssignment(p)
    [] In(p, Names) /\ Is(p + 1, "{") -> GetFuncCall(p)
    [] OTHER           -> GetExpression(p)

(* The loop of GetProgram and GetBlock: a ';' between two statements, one
   behind the last if there is one, and the chain grows to the left.       *)
Series(first, s) == IF first = Nil THEN s ELSE Statement("op_end", first, s)

Appended(r, s) ==
  CASE s.ok /\ Is(s.pos, ";") -> Yes(Series(r.node, s.node), s.pos + 1)
    [] s.ok /\ In(s.pos, {"$", "EOF", "}"}) -> Yes(Series(r.node, s.node), s.pos)
    [] OTHER -> No

RECURSIVE StatementsFrom(_, _)
StatementsFrom(r, stop) ==
  IF ~ r.ok \/ In(r.pos, stop) THEN r ELSE StatementsFrom(Appended(r, GetStatement(r.pos)), stop)

GetStatements(p, stop) == StatementsFrom(Yes(Nil, p), stop)

GetBlock(p) ==
  IF Is(p, "{") /\ Is(p + 1, "{")
    THEN Ended("block", Nil, Then(Then(GetStatements(p + 2, {"}", "EOF"}), "}"), "}"))
    ELSE No

(* What follows the '$' is never looked at.                                *)
GetProgram == Then(GetStatements(1, {"$", "EOF"}), "$")
=============================================================================
