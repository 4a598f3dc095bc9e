------------------------------ MODULE Handover ------------------------------
(***************************************************************************)
(* What the middleend gets of the frontend's tree: the file in between.    *)
(***************************************************************************)
EXTENDS TreeFile

VARIABLES
  parsed,      (* what GetProgram made of the tokens                        *)
  analysed,    (* the frontend's tree with its symbol tables, or Bad        *)
  loaded       (* the tree the middleend got of it, or Nil                  *)

(* main of exe/middleend.cpp: there is a file only behind a frontend that
   has accepted its program.                                               *)
Middleend(a) == IF a.ok THEN Load(Save(a.node)) ELSE Nil

(* read_node gives back what savenode wrote, all of it and in its place,   *)
(* but for the side of a single child, wherever in the tree it stands.     *)
FileKeepsTree == analysed.ok /\ AllReadable(analysed.node) => loaded = LeftFirst(analysed.node)
=============================================================================
