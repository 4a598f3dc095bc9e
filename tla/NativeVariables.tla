-------------------------- MODULE NativeVariables --------------------------
(***************************************************************************)
(* source/backend_x86_64/backend_variables.cpp: the table of variables the *)
(* translator to NASM keeps, and where their slots lie in the frames of    *)
(* the functions.  Function 0 is the main program; the others are numbered *)
(* in the order their definitions are met.  Allocations that fail are left *)
(* out: the code does not look at them.                                    *)
(***************************************************************************)
EXTENDS Tree, FiniteSets

VARIABLE compiled   (* the translation to NASM, see NasmTranslator: of it, *)
                    (* vars is the table and end tells how it came out     *)

(* var_list and func_counter.  Indices are counted from 0.                 *)
NoVariables == [list |-> << >>, counter |-> 0]

(* find_variable_in_current_func, for the function f.                      *)
Find(list, f, name) ==
  IF \E i \in 1..Len(list) : list[i].func = f /\ list[i].name = name
    THEN (CHOOSE i \in 1..Len(list) : list[i].func = f /\ list[i].name = name) - 1
    ELSE -1

(* Seeded fault: the name is looked for in every function.                 *)
Faultadd_variable(v, f, name, param) ==
  IF \E i \in 1..Len(v.list) : v.list[i].name = name THEN v
  ELSE [v EXCEPT !.list = Append(@, [name |-> name, func |-> f, param |-> param])]

add_variable(v, f, name, param) ==
  IF Find(v.list, f, name) # -1 THEN v
  ELSE [v EXCEPT !.list = Append(@, [name |-> name, func |-> f, param |-> param])]

Entries == [name : STRING, func : Nat, param : BOOLEAN]
Tables  == [list : Seq(Entries), counter : Nat]

-----------------------------------------------------------------------------
(* collect_variables walks the tree, fills the table and gives identifiers *)
(* their index there.  below is what its calls of itself return, for the   *)
(* children of the node.                                                   *)
Indexed(node, list, f) == [node EXCEPT !.idx = Find(list, f, node.name)]

(* The parameters hang on each other's left.                               *)
CollectParam(p, f, v, below) ==
  IF p = Nil THEN Good(Nil, v)
  ELSE LET is == p.kind = "IDENTIFIER"
           w  == IF is THEN add_variable(v, f, p.name, TRUE) ELSE v
           r  == below[p.left][w]
       IN  Good([(IF is THEN Indexed(p, w.list, f) ELSE p) EXCEPT !.left = r.node], r.st)

CollectParams(p, f, v) ==
  LET collected[h \in 0..MaxHeight] ==
        [q \in Trees[h] |-> [u \in Tables |->
           CollectParam(q, f, u, IF h = 0 THEN << >> ELSE collected[h - 1])]]
  IN  collected[MaxHeight][p][v]

WithParams(node, g, v) ==
  IF IsStatement(node.left, "params")
    THEN LET r == CollectParams(node.left.left, g, v)
         IN  Good([node EXCEPT !.left.left = r.node], r.st)
    ELSE Good(node, v)

(* The variable an assignment or a definition is about.                    *)
WithVariable(node, f, v) ==
  IF node.kind = "STATEMENT" /\ node.what \in {"assignment", "var_def"} /\ node.left.kind = "IDENTIFIER"
    THEN LET w == add_variable(v, f, node.left.name, FALSE)
         IN  Good([node EXCEPT !.left = Indexed(@, w.list, f)], w)
    ELSE Good(node, v)

(* A function gets the next number; its body is its right child only.      *)
CollectFunction(node, v, below) ==
  LET g == v.counter + 1
      n == WithParams(node, g, [v EXCEPT !.counter = g])
      b == below[node.right][g][n.st]
  IN  IF b.ok THEN Good([n.node EXCEPT !.right = b.node], b.st) ELSE Bad

CollectChildren(n, f, below) ==
  LET a == below[n.node.left][f][n.st]
  IN  IF a.ok THEN Both(n.node, a, below[n.node.right][f][a.st]) ELSE Bad

(* An identifier must be in the table of the function it stands in,        *)
(* whatever the frontend has said.                                         *)
CollectNode(node, f, v, below) ==
  IF node = Nil THEN Good(Nil, v)
  ELSE IF node.kind = "IDENTIFIER"
    THEN IF Find(v.list, f, node.name) = -1 THEN Bad
         ELSE CollectChildren(Good(Indexed(node, v.list, f), v), f, below)
  ELSE IF IsStatement(node, "func_def") THEN CollectFunction(node, v, below)
  ELSE CollectChildren(WithVariable(node, f, v), f, below)

collect_variables(node, f, v) ==
  LET collected[h \in 0..MaxHeight] ==
        [n \in Trees[h] |-> [g \in Nat |-> [u \in Tables |->
           CollectNode(n, g, u, IF h = 0 THEN << >> ELSE collected[h - 1])]]]
  IN  collected[MaxHeight][node][f][v]

-----------------------------------------------------------------------------
(* How many parameters, or other variables, of f stand before index i.     *)
Before(list, f, i, param) ==
  Cardinality({k \in 1..Len(list) : k <= i /\ list[k].func = f /\ list[k].param = param})

Params(list, f) == Before(list, f, Len(list), TRUE)
Locals(list, f) == Before(list, f, Len(list), FALSE)

(* Seeded fault: the locals are laid over the parameters.                  *)
FaultOffset(list, i) ==
  -8 * (Before(list, list[i + 1].func, i, list[i + 1].param) + 1)

(* assign_offset_for_function: parameters first, the other variables of the
   function below them.                                                    *)
Offset(list, i) ==
  LET var == list[i + 1] IN
  -8 * (Before(list, var.func, i, var.param) + 1 + IF var.param THEN 0 ELSE Params(list, var.func))

get_frame_size_for_func(list, f) == 8 * Locals(list, f)

(* & ~15                                                                   *)
To16(n) == 16 * ((n + 15) \div 16)

(* What function f takes off rsp if the frame of function g is computed.   *)
FrameSize(list, g) == To16(get_frame_size_for_func(list, g) + 32)

-----------------------------------------------------------------------------
(* The main program has no parameters, and no function has two variables   *)
(* of one name.                                                            *)
IsList(list) ==
  /\ list \in Seq(Entries)
  /\ \A i \in 1..Len(list) : list[i].param => list[i].func # 0
  /\ \A i, j \in 1..Len(list) :
       list[i].func = list[j].func /\ list[i].name = list[j].name => i = j

IsTable(v) ==
  /\ v \in Tables /\ IsList(v.list)
  /\ \A i \in 1..Len(v.list) : v.list[i].func <= v.counter

(* The slots of a function: how far down from rbp the deepest one lies.    *)
Depth(list, f) == 8 * (Params(list, f) + Locals(list, f))

(* current_func_id stays 1: every function gets the frame of the first.    *)
FrameOf(list, f) == FrameSize(list, IF f = 0 THEN 0 ELSE 1)

SlotsApart(list) ==
  \A i, j \in 0..Len(list) - 1 :
    i # j /\ list[i + 1].func = list[j + 1].func => Offset(list, i) # Offset(list, j)

(* In the frame are all slots of main, and those of a function that has at *)
(* most four variables more than the first one has besides its parameters. *)
SlotsWithin(list) ==
  \A i \in 0..Len(list) - 1 :
    LET f == list[i + 1].func IN
    /\ Offset(list, i) \in -Depth(list, f)..-8
    /\ f = 0 \/ Depth(list, f) <= 8 * (Locals(list, 1) + 4) => Offset(list, i) >= -FrameOf(list, f)
-----------------------------------------------------------------------------
(* Two variables of one function never share a slot, and slots lie in the  *)
(* frame: all of main's, and a function's as long as it has at most four   *)
(* variables more than the first function has besides its parameters,      *)
(* because every function gets the frame of the first.                     *)
SlotsInFrame ==
  compiled.end = "open" =>
    IsList(compiled.vars) /\ SlotsApart(compiled.vars) /\ SlotsWithin(compiled.vars)
=============================================================================
