------------------------------ MODULE Scoping ------------------------------
(***************************************************************************)
(* What the semantic analysis should decide, said without its tables: of   *)
(* the paths in the tree of a program, for the trees the parser builds.    *)
(***************************************************************************)
EXTENDS Semantics, Handover

Where(root, s) == {p \in Paths(root) : IsStatement(At(root, p), s)}
Below(p, q)    == Len(q) <= Len(p) /\ \A i \in 1..Len(q) : p[i] = q[i]
NameAt(root, p) == At(root, p).name

VariableNames(root) == {At(root, p).left.name : p \in Where(root, "var_def")}
FunctionNames(root) == {NameAt(root, p) : p \in Where(root, "func_def")}
Identifiers(root)   == {p \in Paths(root) : At(root, p).kind = "IDENTIFIER"}

(* The parameters of the function at f, and the functions whose parameters
   hold for the path p: those it stands in, as a parameter or in the body. *)
ParametersOf(f)      == f \o <<"left">>
ParameterPaths(root, f) == {p \in Identifiers(root) : Below(p, ParametersOf(f))}
Around(root, p) == {f \in Where(root, "func_def") : Below(p, f)}
Given(root, p)  == UNION {{NameAt(root, q) : q \in ParameterPaths(root, f)} : f \in Around(root, p)}

(* Each name in one definition.                                            *)
DefinedOnce(root) ==
  /\ \A p, q \in Where(root, "var_def") : At(root, p).left.name = At(root, q).left.name => p = q
  /\ \A p, q \in Where(root, "func_def") : NameAt(root, p) = NameAt(root, q) => p = q

(* Among these variables and functions, all that is used is defined, and   *)
(* no parameter has a name that is visible where it stands.                *)
UsesDefined(root, vars, funcs) ==
  /\ \A p \in Where(root, "func_call") : NameAt(root, p) \in funcs
  /\ \A p \in Identifiers(root) : NameAt(root, p) \in vars \union Given(root, p)
  /\ \A f \in Where(root, "func_def") : \A p \in ParameterPaths(root, f) :
       /\ NameAt(root, p) \notin vars
       /\ \A g \in Around(root, p) : \A q \in ParameterPaths(root, g) :
            NameAt(root, p) = NameAt(root, q) => p = q

WellScoped(root) == DefinedOnce(root) /\ UsesDefined(root, VariableNames(root), FunctionNames(root))

(* Whatever is visible in one place is told apart by its slot, and has the
   same slot wherever it stands.                                           *)
SlotsTellApart(root) ==
  \A p \in Identifiers(root) :
    /\ At(root, p).idx >= 0
    /\ \A q \in Identifiers(root) :
         Around(root, q) \subseteq Around(root, p) =>
           (NameAt(root, p) = NameAt(root, q) <=> At(root, p).idx = At(root, q).idx)

(* What the passes take for granted of a tree: parameters are a chain of   *)
(* identifiers below their statement, a definition and a read have theirs. *)
IsProgram(root) ==
  /\ \A f \in Where(root, "func_def") : \A p \in Paths(root) : Below(p, ParametersOf(f)) =>
       /\ At(root, p).left = Nil
       /\ IF p = ParametersOf(f) THEN IsStatement(At(root, p), "params") ELSE At(root, p).kind = "IDENTIFIER"
  /\ \A p \in Where(root, "var_def") : At(root, p).left.kind = "IDENTIFIER"
  /\ \A p \in Paths(root) :
       At(root, p).kind = "OPERATOR" /\ At(root, p).what = "read" => At(root, p).left.kind = "IDENTIFIER"
-----------------------------------------------------------------------------
(* The two passes (collect_definitions, check_semantics), with parameters  *)
(* entering the table and leaving it again, accept exactly the programs    *)
(* whose names are well scoped, in whatever order definitions and uses     *)
(* stand and however functions are nested.                                 *)
AcceptsWellScoped ==
  Accepted(parsed) => IsProgram(parsed.node) /\ (analysed.ok <=> WellScoped(parsed.node))

(* In an accepted program a slot stands for one name wherever both could   *)
(* be used, and a name for one slot: what the translators go by.           *)
SlotsIdentifyVariables == analysed.ok => SlotsTellApart(analysed.node)
=============================================================================
