----------------------------- MODULE Translator -----------------------------
(***************************************************************************)
(* source/backend/translate_to_asm.cpp: the text for the assembler, in the *)
(* lines Assembler reads.  A state of the translation is the text written, *)
(* the static variables (string_top and the numbers of the next labels)    *)
(* and whether it goes on, returned an error or went through a NULL        *)
(* pointer.                                                                *)
(***************************************************************************)
EXTENDS Tree, TLC

CONSTANT StringTop   (* string_top at the start, 256 in the code           *)

ASSUME StringTopAssumption == StringTop \in Nat \ {0}

Statics  == [ifs : Nat, whiles : Nat, cmps : Nat, pows : Nat, string_top : Nat]
Begun(v) == [text |-> << >>, static |-> v, end |-> "open"]
Begin    == Begun([ifs |-> 0, whiles |-> 0, cmps |-> 0, pows |-> 0, string_top |-> StringTop])

Label(name)   == [kind |-> "label", name |-> name]
Line(op, t, v) == [kind |-> "command", op |-> op, arg |-> [t |-> t, v |-> v]]
Op(op)        == Line(op, "none", 0)
Push(n)       == Line("PUSH", "num", n)
Reg(op, r)    == Line(op, "reg", r)
Ram(op, a)    == Line(op, "ram", a)
To(op, name)  == Line(op, "name", name)

rax == 1
rbx == 2
rcx == 3
rdx == 4

LabelName(name, id) == name \o "_" \o ToString(id)

Emit(s, lines) == IF s.end = "open" THEN [s EXCEPT !.text = @ \o lines] ELSE s
Stop(s, how)   == IF s.end = "open" THEN [s EXCEPT !.end = how] ELSE s

(* A function behind what is written: below holds what it writes for each  *)
(* tree that is lower, by the values it finds in the static variables.     *)
Visit(s, below, node) ==
  IF s.end = "open" THEN [below[node][s.static] EXCEPT !.text = s.text \o @] ELSE s

(* Seeded fault: the labels of comparisons are not numbered on.            *)
Faultemit_cmp(s, jump) ==
  LET true == LabelName("TRUE_CONDITION", s.static.cmps)  end == LabelName("END_CONDITION", s.static.cmps)
  IN  Emit(s, << Op("SUB"), Push(0), To(jump, true), Push(0), To("JMP", end),
                 Label(true), Push(1), Label(end) >>)

emit_cmp(s, jump) ==
  LET true == LabelName("TRUE_CONDITION", s.static.cmps)
      end  == LabelName("END_CONDITION", s.static.cmps)
  IN  Emit([s EXCEPT !.static.cmps = @ + 1],
           << Op("SUB"), Push(0), To(jump, true), Push(0), To("JMP", end),
              Label(true), Push(1), Label(end) >>)

(* rbx rounds of a loop; 0, or 1 for the exponent 0, if the base is not
   positive.                                                               *)
emit_op_pow(s) ==
  LET L(name) == LabelName(name, s.static.pows)
      Clear(r) == << Push(0), Reg("POPR", r) >>
      operands == << Reg("POPR", rbx), Reg("POPR", rax),
                     Reg("PUSHR", rax), Push(0), To("JBE", L("NEGATIVE_BASE")),
                     Reg("PUSHR", rbx), Push(0), To("JE", L("POWER_ZERO")) >>
      loop == << Push(1), Reg("POPR", rdx), Push(0), Reg("POPR", rcx),
                 Label(L("START_LOOP")),
                 Reg("PUSHR", rcx), Reg("PUSHR", rbx), To("JAE", L("END_LOOP")) >>
      round == << Reg("PUSHR", rdx), Reg("PUSHR", rax), Op("MUL"), Reg("POPR", rdx),
                  Reg("PUSHR", rcx), Push(1), Op("ADD"), Reg("POPR", rcx),
                  To("JMP", L("START_LOOP")) >>
      result == << Label(L("END_LOOP")), Reg("PUSHR", rdx), To("JMP", L("END")) >>
      others == << Label(L("NEGATIVE_BASE")), Reg("PUSHR", rbx), Push(0), To("JE", L("POWER_ZERO")),
                   Push(0), To("JMP", L("END")),
                   Label(L("POWER_ZERO")), Push(1), To("JMP", L("END")) >>
  IN  Emit([s EXCEPT !.static.pows = @ + 1],
           operands \o loop \o round \o result \o others \o <<Label(L("END"))>>
             \o Clear(rax) \o Clear(rbx) \o Clear(rcx) \o Clear(rdx))

(* Seeded fault: string_top does not count the terminating zero.           *)
Faulttranslate_string(s, chars) ==
  LET cells == chars \o <<0>>
      stores == [i \in 1..2 * Len(cells) |->
                   IF i % 2 = 1 THEN Push(cells[(i + 1) \div 2])
                   ELSE Ram("POPM", s.static.string_top + i \div 2 - 1)]
  IN  Emit([s EXCEPT !.static.string_top = @ + Len(chars)], stores \o <<Push(s.static.string_top)>>)

(* emit_strings, and the address of the string.                            *)
translate_string(s, chars) ==
  LET cells == chars \o <<0>>
      stores == [i \in 1..2 * Len(cells) |->
                   IF i % 2 = 1 THEN Push(cells[(i + 1) \div 2])
                   ELSE Ram("POPM", s.static.string_top + i \div 2 - 1)]
  IN  Emit([s EXCEPT !.static.string_top = @ + Len(cells)], stores \o <<Push(s.static.string_top)>>)

-----------------------------------------------------------------------------
JumpFor == [o \in {"==", "!=", "<", "<=", ">", ">="} |->
  CASE o = "==" -> "JE" [] o = "!=" -> "JNE" [] o = "<" -> "JB"
    [] o = "<=" -> "JBE" [] o = ">" -> "JA" [] OTHER -> "JAE"]

CommandFor == [o \in {"+", "-", "*", "/"} |->
  CASE o = "+" -> "ADD" [] o = "-" -> "SUB" [] o = "*" -> "MUL" [] OTHER -> "DIV"]

FunctionCode == [sqrt |-> <<Op("SQRT")>>, sin |-> <<Op("SIN")>>, cos |-> <<Op("COS")>>,
  exp |-> <<Op("EXP")>>, ln |-> <<Op("LN")>>,
  tan |-> << Reg("POPR", rax), Reg("PUSHR", rax), Op("SIN"), Reg("PUSHR", rax), Op("COS"),
             Push(0), Reg("POPR", rax), Op("DIV") >>]

(* An operand on the left counts before one on the right.                  *)
OnlyChild(node) == IF node.left # Nil THEN node.left ELSE node.right

(* read pushes the old value of its variable first.                        *)
translate_operator(s, node, below) ==
  IF node.what \in BinaryOperators
    THEN LET t == Visit(Visit(s, below, node.left), below, node.right) IN
         IF node.what = "^" THEN emit_op_pow(t)
         ELSE IF node.what \in DOMAIN JumpFor THEN emit_cmp(t, JumpFor[node.what])
         ELSE Emit(t, <<Op(CommandFor[node.what])>>)
  ELSE IF node.what \in UnaryOperators
    THEN LET t == Visit(s, below, OnlyChild(node)) IN
         CASE node.what = "read" ->
                Emit(t, <<Op("IN")>> \o IF node.left.kind = "IDENTIFIER"
                                         THEN <<Ram("POPM", node.left.idx)>> ELSE << >>)
           [] node.what = "u-" -> Emit(t, << Push(-1), Op("MUL") >>)
           [] OTHER -> Emit(t, FunctionCode[node.what])
  ELSE Stop(s, "error")

translate_print(s, node, below) ==
  LET t == Visit(s, below, OnlyChild(node)) IN
  IF OnlyChild(node) = Nil THEN Stop(t, "crash")
  ELSE Emit(t, <<Op(IF OnlyChild(node).kind = "STRING" THEN "PUTS" ELSE "OUT")>>)

translate_store(s, node, below) ==
  IF node.left = Nil THEN Stop(Visit(s, below, node.right), "crash")
  ELSE IF node.left.idx < 0 THEN Stop(Visit(s, below, node.right), "error")
  ELSE Emit(Visit(s, below, node.right), <<Ram("POPM", node.left.idx)>>)

(* Seeded fault: the body does not jump over the else.                     *)
Faulttranslate_if(s, node, below) ==
  LET else  == LabelName("ELSE", s.static.ifs)
      endif == LabelName("ENDIF", s.static.ifs)
      t == Emit(Visit([s EXCEPT !.static.ifs = @ + 1], below, node.left),
                << Push(0), To("JE", IF node.right.right # Nil THEN else ELSE endif) >>)
      u == Visit(t, below, node.right.left)
      v == IF node.right.right = Nil THEN u
           ELSE Visit(Emit(u, <<Label(else)>>), below, node.right.right)
  IN  Emit(v, <<Label(endif)>>)

translate_if(s, node, below) ==
  LET else  == LabelName("ELSE", s.static.ifs)
      endif == LabelName("ENDIF", s.static.ifs)
      t == Emit(Visit([s EXCEPT !.static.ifs = @ + 1], below, node.left),
                << Push(0), To("JE", IF node.right.right # Nil THEN else ELSE endif) >>)
      u == Visit(t, below, node.right.left)
      v == IF node.right.right = Nil THEN u
           ELSE Visit(Emit(u, << To("JMP", endif), Label(else) >>), below, node.right.right)
  IN  IF node.right = Nil THEN Stop(s, "crash") ELSE Emit(v, <<Label(endif)>>)

translate_while(s, node, below) ==
  LET while    == LabelName("WHILE", s.static.whiles)
      endwhile == LabelName("ENDWHILE", s.static.whiles)
      t == Visit(Emit([s EXCEPT !.static.whiles = @ + 1], <<Label(while)>>), below, node.left)
      u == Visit(Emit(t, << Push(0), To("JE", endwhile) >>), below, node.right)
  IN  Emit(u, << To("JMP", while), Label(endwhile) >>)

(* The nodes on each other's left, at most 16 of them (param_list).        *)
LeftChain(node) ==
  LET chain[k \in 0..16] ==
        [n \in Trees[MaxHeight] |-> IF n = Nil \/ k = 0 THEN << >> ELSE <<n>> \o chain[k - 1][n.left]]
  IN  chain[16][node]

Listed(node, list) == IF IsStatement(node, list) THEN LeftChain(node.left) ELSE << >>

(* Seeded fault: a function that does not return leaves no value.          *)
FaultNoResult(s, node, below) ==
  LET params == Listed(node.left, "params")
      n      == Len(params)
      pops   == [i \in 1..n |-> Ram("POPM", params[n + 1 - i].idx)]
  IN  Emit(Visit(Emit(s, <<Label(node.name)>> \o pops), below, node.right), << Op("RET") >>)

(* A parameter popped from the stack overwrites its cell in the RAM.  The
   body is the right child, whatever the left one is.                      *)
translate_func_def(s, node, below) ==
  LET params == Listed(node.left, "params")
      n      == Len(params)
      pops   == [i \in 1..n |-> Ram("POPM", params[n + 1 - i].idx)]
  IN  IF \E i \in 1..n : params[i].idx < 0 THEN Stop(s, "error")
      ELSE Emit(Visit(Emit(s, <<Label(node.name)>> \o pops), below, node.right), << Push(0), Op("RET") >>)

translate_call(s, node, below) ==
  LET args == Listed(node.left, "args")
      after[i \in 0..Len(args)] == IF i = 0 THEN s ELSE Visit(after[i - 1], below, args[i])
  IN  Emit(after[Len(args)], <<To("CALL", node.name)>>)

translate_return(s, node, below) ==
  Emit(IF node.left = Nil THEN Emit(s, <<Push(0)>>) ELSE Visit(s, below, node.left), <<Op("RET")>>)

translate_statement(s, node, below) ==
  CASE node.what \in {"program", "op_statement", "op_end", "block"} ->
         Visit(Visit(s, below, node.left), below, node.right)
    [] node.what = "print" -> translate_print(s, node, below)
    [] node.what \in {"assignment", "var_def"} -> translate_store(s, node, below)
    [] node.what = "if" -> translate_if(s, node, below)
    [] node.what = "while" -> translate_while(s, node, below)
    [] node.what = "func_def" -> translate_func_def(s, node, below)
    [] node.what = "func_call" -> translate_call(s, node, below)
    [] node.what = "return" -> translate_return(s, node, below)
    [] OTHER -> s

TranslateNode(s, node, below) ==
  CASE node = Nil -> s
    [] node.kind = "OPERATOR"   -> translate_operator(s, node, below)
    [] node.kind = "IDENTIFIER" ->
         IF node.idx < -1 THEN Stop(s, "error") ELSE Emit(s, <<Ram("PUSHM", node.idx)>>)
    [] node.kind = "NUMBER"     -> Emit(s, <<Push(node.num)>>)
    [] node.kind = "STATEMENT"  -> translate_statement(s, node, below)
    [] node.kind = "STRING"     -> translate_string(s, node.chars)

Translated[h \in 0..MaxHeight] ==
  [n \in Trees[h] |-> [v \in Statics |->
     TranslateNode(Begun(v), n, IF h = 0 THEN << >> ELSE Translated[h - 1])]]

translate_node(s, node) == Visit(s, Translated[MaxHeight], node)

-----------------------------------------------------------------------------
(* Every definition of a function that is not inside of another one.       *)
TranslateFunctions(s, node, below) ==
  CASE node = Nil -> s
    [] IsStatement(node, "func_def") -> translate_node(s, node)
    [] OTHER -> Visit(Visit(s, below, node.left), below, node.right)

FunctionsTranslated[h \in 0..MaxHeight] ==
  [n \in Trees[h] |-> [v \in Statics |->
     TranslateFunctions(Begun(v), n, IF h = 0 THEN << >> ELSE FunctionsTranslated[h - 1])]]

translate_functions(s, node) == Visit(s, FunctionsTranslated[MaxHeight], node)

(* Everything else; the definitions are only left out at the top level.    *)
TranslateMain(s, node, below) ==
  CASE node = Nil \/ IsStatement(node, "func_def") -> s
    [] IsStatement(node, "op_end") \/ IsStatement(node, "op_statement") ->
         Visit(Visit(s, below, node.left), below, node.right)
    [] OTHER -> translate_node(s, node)

MainTranslated[h \in 0..MaxHeight] ==
  [n \in Trees[h] |-> [v \in Statics |->
     TranslateMain(Begun(v), n, IF h = 0 THEN << >> ELSE MainTranslated[h - 1])]]

translate_main(s, node) == Visit(s, MainTranslated[MaxHeight], node)

translate_to_asm(root) ==
  Emit(translate_main(Emit(translate_functions(Emit(Begin, <<To("JMP", "MAIN")>>), root),
                           <<Label("MAIN")>>), root),
       <<Op("HLT")>>)
=============================================================================
