--------------------------- MODULE NasmTranslator ---------------------------
(***************************************************************************)
(* source/backend_x86_64/translate_to_nasm.cpp: from the tree to the text  *)
(* for NASM.  An instruction is a record; the few that always come in one  *)
(* order (setting a register to the result of a comparison) are one.  A    *)
(* state of the translation is the text so far, label_counter, the         *)
(* constants, the table of variables and current_func_id, and whether it   *)
(* goes on, returned an error or ran into an assert.                       *)
(***************************************************************************)
EXTENDS NativeVariables, Semantics

CONSTANT MaxConstants   (* MAX_CONSTANTS                                   *)

-----------------------------------------------------------------------------
Begin(vars) == [text |-> << >>, labels |-> 0, consts |-> << >>, vars |-> vars, func |-> 1, end |-> "open"]

(* x and y are numbers of xmm registers, n a constant or a displacement.   *)
Ins(op)          == [op |-> op, x |-> 0, y |-> 0, n |-> 0, base |-> "", name |-> ""]
Fetch(x, b, d)   == [Ins("load") EXCEPT !.x = x, !.base = b, !.n = d]
Keep(b, d, x)    == [Ins("store") EXCEPT !.x = x, !.base = b, !.n = d]
Constant(i)      == [Ins("constant") EXCEPT !.n = i]
Rsp(op, n)       == [Ins(op) EXCEPT !.n = n]
Mov(x, y)        == [Ins("movapd") EXCEPT !.x = x, !.y = y]
Zeroed(x)        == [Ins("xorpd") EXCEPT !.x = x]
Arith(op)        == [Ins("arith") EXCEPT !.name = op]
Comisd(x, y)     == [Ins("comisd") EXCEPT !.x = x, !.y = y]
Truth01(cc)      == [Ins("set") EXCEPT !.name = cc]
ToLabel(op, name, i) == [Ins(op) EXCEPT !.name = name, !.n = i]
LabelAt(name, i) == ToLabel("label", name, i)
CallOf(name)     == ToLabel("call", name, 0)

Emit(s, code) == IF s.end = "open" THEN [s EXCEPT !.text = @ \o code] ELSE s
Stop(s, how)  == IF s.end = "open" THEN [s EXCEPT !.end = how] ELSE s

Prologue(frame) == << Ins("push_rbp"), Ins("mov_rbp_rsp"), Rsp("sub", frame) >>
Epilogue        == << Ins("mov_rsp_rbp"), Ins("pop_rbp"), Ins("ret") >>

(* An operand waits on the stack while the other one is computed.          *)
PushXmm0 == << Rsp("sub", 8), Keep("rsp", 0, 0) >>
PopXmm1  == << Fetch(1, "rsp", 0), Rsp("add", 8) >>

(* The frame of function s.func, which is 1 in every function.             *)
Frame(s) == FrameSize(s.vars, s.func)

AddConstant(s, v) ==
  IF \E i \in 1..Len(s.consts) : s.consts[i] = v
    THEN Emit(s, <<Constant((CHOOSE i \in 1..Len(s.consts) : s.consts[i] = v) - 1)>>)
  ELSE IF Len(s.consts) >= MaxConstants THEN Stop(s, "error")
  ELSE Emit([s EXCEPT !.consts = Append(@, v)], <<Constant(Len(s.consts))>>)

(* get_variable_by_index.                                                  *)
IsVariable(s, node) == node.idx \in 0..Len(s.vars) - 1
StoreTo(s, node, x) ==
  IF IsVariable(s, node) THEN Emit(s, <<Keep("rbp", Offset(s.vars, node.idx), x)>>) ELSE s

-----------------------------------------------------------------------------
(* emit_statement looks at value.stmt whatever the type of the node: the
   number of an operator is that of another statement, a number or an
   identifier is the statement 0.                                          *)
StatementOf ==
  [o \in BinaryOperators \union UnaryOperators |->
     CASE o = "+" -> "program" [] o = "/" -> "op_statement" [] o = "*" -> "op_end" [] o = "-" -> "print"
       [] o = "^" -> "assignment" [] o = "read" -> "if" [] o = "!=" -> "while" [] o = "<" -> "block"
       [] o = "<=" -> "func_def" [] o = ">" -> "func_call" [] o = ">=" -> "return" [] o = "sin" -> "var_def"
       [] OTHER -> "none"]

Kind(node) ==
  CASE node.kind = "STATEMENT" -> node.what
    [] node.kind = "OPERATOR"  -> StatementOf[node.what]
    [] node.kind \in {"NUMBER", "IDENTIFIER"} -> "program"
    [] OTHER -> "none"

SetFor == [o \in {"==", "!=", "<", "<=", ">", ">="} |->
  CASE o = "==" -> "e" [] o = "!=" -> "ne" [] o = "<" -> "b"
    [] o = "<=" -> "be" [] o = ">" -> "a" [] OTHER -> "ae"]

ArithFor == [o \in {"+", "-", "*", "/"} |->
  CASE o = "+" -> "ADD" [] o = "-" -> "SUB" [] o = "*" -> "MUL" [] OTHER -> "DIV"]

LibraryFor == [sqrt |-> "sqrt", sin |-> "sin", cos |-> "cos", tan |-> "tan", exp |-> "exp", ln |-> "log"]

RECURSIVE emit_expression(_, _), emit_statement(_, _)

(* The left operand into xmm1, the right one into xmm0.                    *)
Operands(s, node) ==
  Emit(emit_expression(Emit(emit_expression(s, node.left), PushXmm0), node.right), PopXmm1)

(* Seeded fault: the operands of the comparison change their places.       *)
Faultemit_cmp_x64(s, node) ==
  Emit(Operands(s, node), << Comisd(0, 1), Truth01(SetFor[node.what]) >>)

(* The operands are evaluated another time.                                *)
emit_cmp_x64(s, node) ==
  Emit(Operands(s, node), << Comisd(1, 0), Truth01(SetFor[node.what]) >>)

PowCode == << Mov(2, 0), Mov(0, 1), Mov(1, 2), CallOf("pow"), Mov(1, 0) >>

emit_binary(s, node) ==
  IF node.what \in DOMAIN SetFor
    THEN Emit(emit_cmp_x64(Operands(s, node), node), << Mov(1, 0), Mov(0, 1) >>)
  ELSE IF node.what = "^" THEN Emit(Operands(s, node), PowCode \o << Mov(0, 1) >>)
  ELSE Emit(Operands(s, node), << Arith(ArithFor[node.what]), Mov(0, 1) >>)

OnlyOperand(node) == IF node.left # Nil THEN node.left ELSE node.right

emit_read(s, node) ==
  IF node.left.kind = "IDENTIFIER" THEN StoreTo(Emit(s, <<CallOf("_my_read")>>), node.left, 0)
  ELSE Emit(s, <<CallOf("_my_read")>>)

emit_unary(s, node) ==
  CASE node.what = "read" -> emit_read(emit_expression(s, OnlyOperand(node)), node)
    [] node.what = "u-" -> Emit(emit_expression(s, OnlyOperand(node)), << Zeroed(1), Arith("SUB"), Mov(0, 1) >>)
    [] OTHER -> Emit(emit_expression(s, OnlyOperand(node)), << CallOf(LibraryFor[node.what]) >>)

(* After an error nothing more is written (IF_THERE_IS_TRANSLATE_ERROR).
   A string in an expression is reported and leaves no code.               *)
emit_expression(s, node) ==
  CASE s.end # "open"           -> s
    [] node.kind = "NUMBER"     -> AddConstant(s, node.num)
    [] node.kind = "IDENTIFIER" -> IF IsVariable(s, node)
                                     THEN Emit(s, << Fetch(0, "rbp", Offset(s.vars, node.idx)) >>)
                                     ELSE Stop(s, "error")
    [] node.kind = "STATEMENT"  -> emit_statement(s, node)
    [] node.kind = "OPERATOR"   -> IF node.what \in BinaryOperators THEN emit_binary(s, node)
                                   ELSE emit_unary(s, node)
    [] OTHER -> s

-----------------------------------------------------------------------------
ZeroTest(name, i) == << Zeroed(1), Comisd(0, 1), ToLabel("je", name, i) >>

(* Both children, as expressions or, if there are any, as statements.      *)
emit_both(s, node)  == emit_expression(emit_expression(s, node.left), node.right)
emit_if_any(s, node) == IF node = Nil THEN s ELSE emit_statement(s, node)

emit_assignment(s, node) ==
  IF node.left = Nil THEN Stop(s, "crash") ELSE StoreTo(emit_expression(s, node.right), node.left, 0)

(* The labels of an if are l and l + 1, those of a while too.              *)
emit_else(s, node, l) ==
  IF node = Nil THEN Emit(s, << LabelAt("else", l), LabelAt("end", l + 1) >>)
  ELSE Emit(emit_statement(Emit(s, << ToLabel("jmp", "end", l + 1), LabelAt("else", l) >>), node),
            << LabelAt("end", l + 1) >>)

emit_if(s, node, l) ==
  IF node.left = Nil \/ node.right = Nil THEN Stop(s, "abort")
  ELSE emit_else(emit_statement(Emit(emit_expression(s, node.left), ZeroTest("else", l)), node.right.left),
                 node.right.right, l)

emit_while(s, node, l) ==
  Emit(emit_statement(Emit(emit_expression(Emit(s, << LabelAt("while_start", l) >>), node.left),
                           ZeroTest("while_end", l + 1)), node.right),
       << ToLabel("jmp", "while_start", l), LabelAt("while_end", l + 1) >>)

(* At most 16 of a list hanging on each other's left.                      *)
RECURSIVE LeftChain(_, _)
LeftChain(node, k) == IF node = Nil \/ k = 16 THEN << >> ELSE << node >> \o LeftChain(node.left, k + 1)

ListOf(node, what) == IF IsStatement(node, what) THEN LeftChain(node.left, 0) ELSE << >>

(* The first four parameters come in xmm0 to xmm3; the others are a TODO.  *)
RECURSIVE StoreParams(_, _, _)
StoreParams(s, params, i) ==
  IF i = Len(params) \/ i = 4 THEN s
  ELSE StoreParams(IF params[i + 1].kind = "IDENTIFIER" THEN StoreTo(s, params[i + 1], i) ELSE s, params, i + 1)

emit_func_def(s, node) ==
  Emit(emit_if_any(StoreParams(Emit(s, << LabelAt(node.name, 0) >> \o Prologue(Frame(s))),
                               ListOf(node.left, "params"), 0),
                   node.right), Epilogue)

(* The arguments from number i down to low, each moved to its place.       *)
RECURSIVE PassDown(_, _, _, _)
PassDown(s, args, i, low) ==
  IF i < low THEN s
  ELSE PassDown(Emit(emit_expression(s, args[i + 1]),
                     << IF low = 4 THEN Keep("rsp", (i - 4) * 8, 0) ELSE Mov(i, 0) >>), args, i - 1, low)

(* Seeded fault: what is passed on the stack stays there.                  *)
Faultemit_call(s, node, args) ==
  LET k == Len(args)
      room == IF k > 4 THEN << Rsp("sub", To16((k - 4) * 8)) >> ELSE << >>
      t == PassDown(Emit(s, room), args, k - 1, 4)
  IN  Emit(IF k > 3 THEN PassDown(t, args, 3, 0) ELSE t, << CallOf(node.name) >>)

(* The loop over the registers begins at 3 and ends before it has begun
   when there are fewer than four arguments: then none is passed.          *)
emit_call(s, node, args) ==
  LET k == Len(args)
      stack_size == To16((k - 4) * 8)
      t == PassDown(IF k > 4 THEN Emit(s, << Rsp("sub", stack_size) >>) ELSE s, args, k - 1, 4)
      u == Emit(IF k > 3 THEN PassDown(t, args, 3, 0) ELSE t, << CallOf(node.name) >>)
  IN  IF k > 4 THEN Emit(u, << Rsp("add", stack_size) >>) ELSE u

emit_return(s, node) ==
  Emit(IF node.left # Nil THEN emit_expression(s, node.left) ELSE Emit(s, << Zeroed(0) >>), Epilogue)

NextLabels(s) == [s EXCEPT !.labels = @ + 2]

emit_statement(s, node) ==
  IF s.end # "open" THEN s ELSE IF node = Nil THEN Stop(s, "abort")
  ELSE CASE Kind(node) \in {"program", "op_statement", "op_end"} -> emit_both(s, node)
         [] Kind(node) = "print" -> Emit(emit_expression(s, OnlyOperand(node)), << CallOf("printf") >>)
         [] Kind(node) \in {"assignment", "var_def"} -> emit_assignment(s, node)
         [] Kind(node) = "if"        -> emit_if(NextLabels(s), node, s.labels)
         [] Kind(node) = "while"     -> emit_while(NextLabels(s), node, s.labels)
         [] Kind(node) = "block"     -> emit_if_any(emit_if_any(s, node.left), node.right)
         [] Kind(node) = "func_def"  -> emit_func_def(s, node)
         [] Kind(node) = "func_call" -> emit_call(s, node, ListOf(node.left, "args"))
         [] Kind(node) = "return"    -> emit_return(s, node)
         [] OTHER -> s

-----------------------------------------------------------------------------
(* The definitions wherever they stand; one inside of another comes with
   the body of that one, in the middle of its code.                        *)
RECURSIVE emit_functions(_, _)
emit_functions(s, node) ==
  IF node = Nil \/ s.end # "open" THEN s
  ELSE IF IsStatement(node, "func_def") THEN emit_statement(s, node)
  ELSE emit_functions(emit_functions(s, node.left), node.right)

RECURSIVE emit_main(_, _)
emit_main(s, node) ==
  IF node = Nil \/ IsStatement(node, "func_def") THEN s
  ELSE IF IsStatement(node, "op_end") \/ IsStatement(node, "op_statement")
    THEN emit_main(emit_main(s, node.left), node.right)
    ELSE emit_statement(s, node)

Main(s) == Emit(s, << LabelAt("main", 0) >> \o Prologue(Frame(s)))

(* The file is opened behind the table of variables: a program that is
   refused there leaves the one of the program before.                     *)
translate_to_nasm(root) ==
  LET c == collect_variables(root, 0, NoVariables) IN
  IF ~c.ok THEN [Begin(<< >>) EXCEPT !.end = "refused"]
  ELSE LET functions == emit_functions(Begin(c.st.list), c.node)
       IN  Emit(emit_main(Main([functions EXCEPT !.func = 0]), c.node), Epilogue)
=============================================================================
