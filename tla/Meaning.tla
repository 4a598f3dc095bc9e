------------------------------ MODULE Meaning ------------------------------
(***************************************************************************)
(* What a program means, said of its tree and without a stack: statements  *)
(* change cells and print, expressions have a value, a call binds the      *)
(* parameters of its function.  Numbers are integers with the arithmetic   *)
(* of the machine; every variable is the cell of its slot.                 *)
(***************************************************************************)
EXTENDS Semantics

CONSTANTS
  Arith1, Arith2,  (* the functions of one and two operands, as in Spu      *)
  Input,           (* what the user types                                   *)
  MaxCalls         (* BOUND: on the rounds of loops and on calls            *)

(* How a computation goes on: "on", "return" from a function, "stop" for a
   command the machine refuses, "beyond" the bound or what has a meaning
   here, like a string that is not printed.                                *)
Start == [cells |-> [c \in 0..15 |-> 0], val |-> 0, out |-> << >>, how |-> "on", fuel |-> MaxCalls]

Valued(m, v)   == IF m.how = "on" THEN [m EXCEPT !.val = v] ELSE m
Halted(m, how)  == IF m.how = "on" THEN [m EXCEPT !.how = how] ELSE m
Stored(m, i, v) == IF m.how = "on" THEN [m EXCEPT !.cells[i] = v] ELSE m
Printed(m, by, chars) ==
  IF m.how = "on" THEN [m EXCEPT !.out = Append(@, [by |-> by, chars |-> chars])] ELSE m
Burnt(m) == IF m.fuel = 0 THEN Halted(m, "beyond") ELSE [m EXCEPT !.fuel = @ - 1]

Truth(b) == IF b THEN 1 ELSE 0

(* A base that is not positive has the powers 0, and 1 for the exponent 0. *)
Power(a, n) ==
  LET p[i \in Nat] == IF i = 0 THEN 1 ELSE Arith2[<<"MUL", p[i - 1], a>>]
  IN  IF a > 0 THEN p[n] ELSE Truth(n = 0)

Compute(o, a, b) ==
  CASE o = "+"  -> Arith2[<<"ADD", a, b>>]
    [] o = "-"  -> Arith2[<<"SUB", a, b>>]
    [] o = "*"  -> Arith2[<<"MUL", a, b>>]
    [] o = "/"  -> Arith2[<<"DIV", a, b>>]
    [] o = "^"  -> Power(a, b)
    [] o = "==" -> Truth(a = b)
    [] o = "!=" -> Truth(a # b)
    [] o = "<"  -> Truth(a < b)
    [] o = "<=" -> Truth(a <= b)
    [] o = ">"  -> Truth(a > b)
    [] o = ">=" -> Truth(a >= b)

Of1 == [sqrt |-> "SQRT", sin |-> "SIN", cos |-> "COS", exp |-> "EXP", ln |-> "LN"]

Apply(o, v) ==
  CASE o = "u-"  -> Arith2[<<"MUL", v, -1>>]
    [] o = "tan" -> Arith2[<<"DIV", Arith1[<<"SIN", v>>], Arith1[<<"COS", v>>]>>]
    [] OTHER     -> Arith1[<<Of1[o], v>>]

(* The items of a list of parameters or arguments.                         *)
RECURSIVE RightChain(_)
RightChain(n) == IF n = Nil THEN << >> ELSE <<n>> \o RightChain(n.right)
Items(list) == IF list = Nil THEN << >> ELSE RightChain(list.right)

Definition(root, f) ==
  CHOOSE n \in Nodes(root) : IsStatement(n, "func_def") /\ n.name = f

(* The node n of the program root, from m on; local says whether a call
   gives the parameters their old values back.                             *)
RECURSIVE Run(_, _, _, _)

(* A call evaluates its arguments from left to right and then binds them.
   Only the last one still has a right child of its own (Parser, Linked).  *)
RunCall(root, local, m, n) ==
  LET def  == Definition(root, n.name)
      ps   == Items(def.left)
      args == Items(n.right)
      k    == Len(ps)
      item(i) == IF i = k THEN args[i] ELSE Over(args[i], args[i].left, Nil)
      at[i \in 0..k] == IF i = 0 THEN m ELSE Run(root, local, at[i - 1], item(i))
      bound == [at[k] EXCEPT !.cells = [c \in DOMAIN @ |->
                  IF \E i \in 1..k : ps[i].idx = c
                    THEN at[CHOOSE i \in 1..k : ps[i].idx = c].val ELSE @[c]]]
      r == Run(root, local, Burnt(bound), def.right)
  IN  [r EXCEPT !.val = IF r.how = "return" THEN @ ELSE 0,
                !.how = IF r.how = "return" THEN "on" ELSE @,
                !.cells = [c \in DOMAIN @ |->
                  IF local /\ \E i \in 1..k : ps[i].idx = c THEN at[k].cells[c] ELSE @[c]]]

RunWhile(root, local, m, n) ==
  LET c == Run(root, local, m, n.left) IN
  IF c.how # "on" \/ c.val = 0 THEN c
  ELSE Run(root, local, Burnt(Run(root, local, c, n.right)), n)

RunStatement(root, local, m, n) ==
  LET value == Run(root, local, m, n.right) IN
  CASE n.what = "op_end" -> Run(root, local, Run(root, local, m, n.left), n.right)
    [] n.what = "block"  -> value
    [] n.what = "print"  -> IF n.right.kind = "STRING" THEN Printed(m, "PUTS", n.right.chars)
                            ELSE Printed(value, "OUT", <<value.val>>)
    [] n.what \in {"assignment", "var_def"} -> Stored(value, n.left.idx, value.val)
    [] n.what = "if" ->
         LET c == Run(root, local, m, n.left) IN
         Run(root, local, c, IF c.val # 0 THEN n.right.left ELSE n.right.right)
    [] n.what = "while"     -> RunWhile(root, local, m, n)
    [] n.what = "func_call" -> RunCall(root, local, m, n)
    [] n.what = "return"    -> Halted(value, "return")
    [] OTHER                -> m

Run(root, local, m, n) ==
  IF n = Nil \/ m.how # "on" THEN m
  ELSE CASE n.kind = "NUMBER"     -> Valued(m, n.num)
         [] n.kind = "IDENTIFIER" -> Valued(m, m.cells[n.idx])
         [] n.kind = "STATEMENT"  -> RunStatement(root, local, m, n)
         [] n.kind = "STRING"     -> Halted(m, "beyond")
         [] n.kind = "OPERATOR"   ->
              IF n.what = "read" THEN Stored(m, n.left.idx, Input)
              ELSE LET l == Run(root, local, m, n.left)
                       r == Run(root, local, l, n.right)
                   IN  IF n.what \in BinaryOperators THEN Valued(r, Compute(n.what, l.val, r.val))
                       ELSE IF n.what = "sqrt" /\ r.val <= 0 THEN Halted(r, "stop")
                       ELSE Valued(r, Apply(n.what, r.val))

Meant(root, local) == Run(root, local, Start, root)
=============================================================================
