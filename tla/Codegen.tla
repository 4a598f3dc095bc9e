------------------------------ MODULE Codegen ------------------------------
(***************************************************************************)
(* What the backend makes of the tree it gets through the files: the text, *)
(* with what the assembler takes for granted of it and what it owes to the *)
(* program.                                                                *)
(***************************************************************************)
EXTENDS Scoping, Translator, Isa

VARIABLE
  translation  (* the translation of the middleend's tree                   *)

(* main of exe/backend.cpp up to the assembler: a stage goes on only with
   what the one before it has written.                                     *)
Backend(l) == IF l # Nil THEN translate_to_asm(Load(Save(l))) ELSE Begin

-----------------------------------------------------------------------------
(* Of Assembler, only what it says of a text is used.                      *)
Asm(t) == INSTANCE Assembler WITH
  Name <- {}, ReadAs <- << >>, RegisterLike <- {}, Texts <- {}, Bytecodes <- {}, MaxLabels <- 128, MaxCode <- 1024,
  text <- t, pass <- "first", line <- 1, ip <- 0, labels <- << >>, code <- << >>,
  errors <- {}, file <- << >>, mark <- <<0>>

(* Definitions stand at the top level or directly in functions, and not in
   one without parameters, whose body the file puts on the left, where
   translate_functions does not look for it (translate_to_asm.cpp:462).    *)
Above(root, p) == {At(root, q) : q \in {q \in Paths(root) : Len(q) < Len(p) /\ SubSeq(p, 1, Len(q)) = q}}
DefinitionsOutside(root) ==
  \A p \in Paths(root) : IsStatement(At(root, p), "func_def") =>
    \A n \in Above(root, p) :
      /\ ~ IsStatement(n, "if") /\ ~ IsStatement(n, "while")
      /\ IsStatement(n, "func_def") => n.left # Nil

Ready == analysed.ok /\ AllReadable(analysed.node) /\ DefinitionsOutside(analysed.node)

(* The lines of a text with one of these commands, and its labels.         *)
Those(t, ops) == SelectSeq(t, LAMBDA l : l.kind = "command" /\ l.op \in ops)
Distinct(seq) == \A i, j \in 1..Len(seq) : seq[i] = seq[j] => i = j
LabelsOf(t)   == SelectSeq(t, LAMBDA l : l.kind = "label")

(* Each name has the one label it is jumped to by, a name the assembler    *)
(* reads as a register or a number (ReadAs is empty here) like the others. *)
TextLinks(t) ==
  /\ Asm(t)!WellFormedText /\ Asm(t)!JumpsNamed
  /\ LET labels == LabelsOf(t)
         named  == Those(t, Jumps \union {"CALL"})
     IN  /\ Distinct(labels)
         /\ \A i \in 1..Len(named) : \E j \in 1..Len(labels) : labels[j].name = named[i].arg.v

(* Every program the frontend accepts becomes a text that the two passes   *)
(* of the assembler can count alike and link: arguments where they belong, *)
(* jumps and calls by name, and for each such name one label; all labels   *)
(* differ, however loops, branches, comparisons and powers are nested      *)
(* (the static counters of translate_to_asm.cpp:363, 399, 543, 561).       *)
Links == Ready => translation.end = "open" /\ TextLinks(translation.text)

(* The variables lie in cells below the strings (translate_to_asm.cpp:16); *)
(* with more of them the first strings share theirs.                       *)
BelowStrings(root) == \A p \in Identifiers(root) : At(root, p).idx < StringTop

IsStringStore(l) == l.kind = "command" /\ l.op = "POPM" /\ l.arg.v >= StringTop

(* The stores of one string literal never touch the cells of another one,  *)
(* nor its terminating zero (emit_strings), wherever in the program the    *)
(* literals stand and however often a definition is translated.            *)
StringCellsApart ==
  analysed.ok /\ AllReadable(analysed.node) /\ BelowStrings(analysed.node) =>
    \A i, j \in 1..Len(translation.text) :
      IsStringStore(translation.text[i]) /\ translation.text[i] = translation.text[j] => i = j
=============================================================================
