------------------------------- MODULE Subset -------------------------------
(***************************************************************************)
(* The part of the language that backend_x64 translates, said of the       *)
(* frontend's tree: in every one of these points translate_to_nasm.cpp or  *)
(* backend_variables.cpp does something else than the backend for the SPU. *)
(***************************************************************************)
EXTENDS Meaning, FiniteSets

Parent(root, p)    == At(root, SubSeq(p, 1, Len(p) - 1))
Ancestors(root, p) == {At(root, SubSeq(p, 1, k)) : k \in 0..Len(p) - 1}
Those(root, what)  == {n \in Nodes(root) : IsStatement(n, what)}

(* A statement of its own, in the main program or the only one of a block. *)
Exposed(root, p) ==
  \/ p # << >> /\ IsStatement(Parent(root, p), "block")
  \/ \A n \in Ancestors(root, p) : IsStatement(n, "op_end")

(* Operators there are taken for statements (StatementOf).                 *)
NoExposedOperator(root) ==
  \A p \in Paths(root) : At(root, p).kind = "OPERATOR" => ~Exposed(root, p)

(* The value of read is another one, and comparisons read twice.           *)
ReadsAlone(root) ==
  \A p \in Paths(root) : At(root, p).kind = "OPERATOR" /\ At(root, p).what = "read" =>
    IsStatement(Parent(root, p), "op_end")

NoStrings(root) == \A n \in Nodes(root) : n.kind # "STRING"

(* Four parameters, and four arguments that are numbers or variables.      *)
FourArguments(root) ==
  /\ \A n \in Those(root, "func_def") : Len(Items(n.left)) = 4
  /\ \A n \in Those(root, "func_call") :
       /\ Len(Items(n.right)) = 4
       /\ \A i \in 1..4 : Items(n.right)[i].kind \in {"NUMBER", "IDENTIFIER"}

TopDefinitions(root) ==
  \A p \in Paths(root) : IsStatement(At(root, p), "func_def") =>
    \A n \in Ancestors(root, p) : IsStatement(n, "op_end")

(* No definition in the body of another, which would be emitted where it
   stands: the outer function falls into the inner one's prologue, whose
   ret takes a cell of the outer frame (translate_to_nasm.cpp:369-371).    *)
FlatDefinitions(root) ==
  \A f \in Those(root, "func_def") : Those(f.right, "func_def") = {}

Plain(root) ==
  /\ NoExposedOperator(root) /\ ReadsAlone(root) /\ NoStrings(root)
  /\ FourArguments(root) /\ TopDefinitions(root)

-----------------------------------------------------------------------------
NamesOf(nodes)  == {n.name : n \in nodes}
Variables(n)  == {i \in Nodes(n) : i.kind = "IDENTIFIER"}
Defined(n)    == NamesOf({d.left : d \in Those(n, "var_def")})

(* A function uses only its parameters and the variables it defines.       *)
ClosedFunctions(root) ==
  \A f \in Those(root, "func_def") :
    NamesOf(Variables(f.right)) \subseteq Defined(f.right) \union NamesOf(Variables(f.left))
=============================================================================
