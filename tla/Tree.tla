-------------------------------- MODULE Tree --------------------------------
(***************************************************************************)
(* The syntax tree of headers/common_h/tree_structure.h, from the parser's *)
(* constructors to what the stages hand over in files.  A node is a value: *)
(* no two parents share one, so neither the prev links nor the memory      *)
(* behind the nodes is modelled.                                           *)
(***************************************************************************)
EXTENDS Integers, Sequences

CONSTANT MaxHeight   (* BOUND: on the nodes from the root to a leaf        *)

ASSUME HeightAssumption == MaxHeight \in Nat

(* The NULL pointer.                                                       *)
Nil == [kind |-> "nil"]

(* what is the operator or statement, name and idx are those of the node's
   identifier_t, num and chars the other members of value_t.               *)
Leaf(kind) == [kind |-> kind, what |-> "", name |-> "", idx |-> 0,
               num |-> 0, chars |-> << >>, left |-> Nil, right |-> Nil]

Over(node, l, r)  == [node EXCEPT !.left = l, !.right = r]

Number(n)         == [Leaf("NUMBER") EXCEPT !.num = n]
Identifier(x)     == [Leaf("IDENTIFIER") EXCEPT !.name = x, !.idx = -1]
String(s)         == [Leaf("STRING") EXCEPT !.chars = s]
Operator(o, l, r) == Over([Leaf("OPERATOR") EXCEPT !.what = o], l, r)
Statement(s, l, r) == Over([Leaf("STATEMENT") EXCEPT !.what = s], l, r)
Named(s, f, l, r) == [Statement(s, l, r) EXCEPT !.name = f]

IsStatement(node, s) == node.kind = "STATEMENT" /\ node.what = s

BinaryOperators == {"+", "/", "*", "-", "^", "==", "!=", "<", "<=", ">", ">="}
UnaryOperators  == {"read", "sin", "cos", "tan", "exp", "ln", "sqrt", "u-"}

(* is_unary of a node: only create_operator_node sets it.                  *)
IsUnary(node) == node.kind = "OPERATOR" /\ node.what \in UnaryOperators

-----------------------------------------------------------------------------
(* The trees of a height: what the passes over trees are defined on.       *)
Kinds == {"NUMBER", "IDENTIFIER", "STRING", "OPERATOR", "STATEMENT"}

NodesOver(trees) ==
  [kind : Kinds, what : STRING, name : STRING, idx : Int, num : Int, chars : Seq(Int),
   left : trees, right : trees]

Trees[h \in 0..MaxHeight] == IF h = 0 THEN {Nil} ELSE {Nil} \union NodesOver(Trees[h - 1])

(* What a pass over a tree returns: the tree as it has become with the     *)
(* tables behind it, or an error.                                          *)
Bad            == [ok |-> FALSE]
Good(node, st) == [ok |-> TRUE, node |-> node, st |-> st]

(* main of the frontend: a program without a tree is refused.              *)
Accepted(r) == r.ok /\ r.node # Nil

(* A node whose children are results, the right one behind the left one.   *)
Both(node, a, b) == IF a.ok /\ b.ok THEN Good(Over(node, a.node, b.node), b.st) ELSE Bad
=============================================================================
