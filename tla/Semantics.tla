----------------------------- MODULE Semantics -----------------------------
(***************************************************************************)
(* source/frontend/semantic_analysis.cpp: the two passes over a tree that  *)
(* fill the two symbol tables and give identifiers their slots.  A pass    *)
(* returns the tree with its indices and the tables behind it, or Bad.     *)
(***************************************************************************)
EXTENDS Tree, FiniteSets

(* The nodes of a tree, each as its path from the root.                    *)
At(node, path) ==
  LET at[k \in 0..Len(path)] == IF k = 0 THEN node ELSE at[k - 1][path[k]]
  IN  at[Len(path)]

Down(side, paths) == {<<side>> \o p : p \in paths}

Paths(tree) ==
  LET paths[node \in Trees[MaxHeight]] ==
        IF node = Nil THEN {}
        ELSE {<< >>} \union Down("left", paths[node.left]) \union Down("right", paths[node.right])
  IN  paths[tree]

Nodes(node) == {At(node, p) : p \in Paths(node)}

-----------------------------------------------------------------------------
(* SymbolTable[2]: an index is a place in the list, counted from 0.        *)
NoSymbols == [var |-> << >>, func |-> << >>]
Symbols   == [var : Seq(STRING), func : Seq(STRING)]

InTable(name, names) == \E i \in 1..Len(names) : names[i] = name
Index(name, names)   == IF InTable(name, names)
                          THEN (CHOOSE i \in 1..Len(names) : names[i] = name) - 1
                          ELSE -1

(* Functions and variables are defined wherever their definition stands.   *)
Define(node, st) ==
  CASE IsStatement(node, "func_def") ->
         IF InTable(node.name, st.func) THEN Bad
         ELSE Good([node EXCEPT !.idx = Len(st.func) + 50], [st EXCEPT !.func = Append(@, node.name)])
    [] IsStatement(node, "var_def") ->
         IF InTable(node.left.name, st.var) THEN Bad
         ELSE Good([node EXCEPT !.left.idx = Len(st.var)], [st EXCEPT !.var = Append(@, node.left.name)])
    [] OTHER -> Good(node, st)

(* below is what a pass returns for the children of the node.              *)
DefineNode(node, st, below) ==
  LET d == Define(node, st)
      a == below[d.node.left][d.st]
      b == below[d.node.right][a.st]
  IN  IF node = Nil THEN Good(Nil, st) ELSE IF d.ok THEN Both(d.node, a, b) ELSE Bad

collect_definitions(node, st) ==
  LET collected[h \in 0..MaxHeight] ==
        [n \in Trees[h] |-> [t \in Symbols |->
           DefineNode(n, t, IF h = 0 THEN << >> ELSE collected[h - 1])]]
  IN  collected[MaxHeight][node][st]

-----------------------------------------------------------------------------
(* Seeded fault: the index is read after the name was added.               *)
FaultParameter(p, st, below) ==
  LET r == below[p.right][[st EXCEPT !.var = Append(@, p.name)]]
  IN  IF p = Nil THEN Good(Nil, st)
      ELSE IF ~ InTable(p.name, st.var) /\ r.ok
        THEN Good([p EXCEPT !.idx = Len(st.var) + 1, !.right = r.node], r.st) ELSE Bad

(* The parameters, each the right child of the one before, become the
   newest variables; none may have the name of a variable that is there.   *)
Parameter(p, st, below) ==
  LET r == below[p.right][[st EXCEPT !.var = Append(@, p.name)]]
  IN  IF p = Nil THEN Good(Nil, st)
      ELSE IF ~ InTable(p.name, st.var) /\ r.ok
        THEN Good([p EXCEPT !.idx = Len(st.var), !.right = r.node], r.st) ELSE Bad

Parameters(p, st) ==
  LET added[h \in 0..MaxHeight] ==
        [q \in Trees[h] |-> [t \in Symbols |->
           Parameter(q, t, IF h = 0 THEN << >> ELSE added[h - 1])]]
  IN  added[MaxHeight][p][st]

(* Seeded fault: the parameters stay in the table.                         *)
FaultLeave(st, old) == st

(* "kill local variables": the table is cut back to its old length.        *)
Leave(st, old) == [st EXCEPT !.var = SubSeq(@, 1, Len(old.var))]

Resolve(node, st) ==
  CASE IsStatement(node, "func_call") ->
         IF InTable(node.name, st.func)
           THEN Good([node EXCEPT !.idx = Index(node.name, st.func)], st) ELSE Bad
    [] node.kind = "OPERATOR" /\ node.what = "read" /\ node.left.kind # "IDENTIFIER" -> Bad
    [] node.kind = "IDENTIFIER" ->
         IF InTable(node.name, st.var)
           THEN Good([node EXCEPT !.idx = Index(node.name, st.var)], st) ELSE Bad
    [] OTHER -> Good(node, st)

CheckFunction(node, st, below) ==
  LET ps == IF node.left = Nil THEN Good(Nil, st) ELSE Parameters(node.left.right, st)
      b  == below[node.right][ps.st]
  IN  IF ps.ok /\ b.ok
        THEN Good(Over(node, IF node.left = Nil THEN Nil ELSE [node.left EXCEPT !.right = ps.node], b.node),
                  Leave(b.st, st))
        ELSE Bad

CheckNode(node, st, below) ==
  LET d == Resolve(node, st)
      a == below[d.node.left][d.st]
      b == below[d.node.right][a.st]
  IN  IF node = Nil THEN Good(Nil, st)
      ELSE IF IsStatement(node, "func_def") THEN CheckFunction(node, st, below)
      ELSE IF d.ok THEN Both(d.node, a, b) ELSE Bad

check_semantics(node, st) ==
  LET checked[h \in 0..MaxHeight] ==
        [n \in Trees[h] |-> [t \in Symbols |->
           CheckNode(n, t, IF h = 0 THEN << >> ELSE checked[h - 1])]]
  IN  checked[MaxHeight][node][st]

CheckBehind(c) == IF c.ok THEN check_semantics(c.node, c.st) ELSE Bad
semantic_analysis(root) == CheckBehind(collect_definitions(root, NoSymbols))

(* main of exe/frontend.cpp: only what the parser has accepted is analysed. *)
Analysis(r) == IF Accepted(r) THEN semantic_analysis(r.node) ELSE Bad
=============================================================================
