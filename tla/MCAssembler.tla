---------------------------- MODULE MCAssembler ----------------------------
(***************************************************************************)
(* Assembler on every text of at most four lines drawn from thirteen:      *)
(* three labels, commands with and without operands, operands that name    *)
(* labels or that are read as a register (rec), as a number (inf) or       *)
(* refused (run), and the malformed lines a hand-written text may hold;    *)
(* and on every well-formed text of at most five.  Two of the label names  *)
(* fit the table, seven words the buffer.                                  *)
(***************************************************************************)
EXTENDS Assembler

MCName == {"f", "MAIN", "rec", "run", "inf"}
MCReadAs == [n \in {"rec", "inf"} |-> IF n = "rec" THEN 5 ELSE -1]
MCRegisterLike == {"run"}

Cmd(op, arg) == [kind |-> "command", op |-> op, arg |-> arg]
A(t, v)      == [t |-> t, v |-> v]

MCLines == {
  [kind |-> "blank"],
  [kind |-> "label", name |-> "f"],
  [kind |-> "label", name |-> "MAIN"],
  [kind |-> "label", name |-> "rec"],
  Cmd("HLT", NoArg),
  Cmd("CALL", A("name", "f")),
  Cmd("JMP", A("name", "MAIN")),
  Cmd("JE", A("name", "rec")),
  Cmd("CALL", A("name", "run")),
  Cmd("JMP", A("name", "inf")),
  Cmd("POPM", A("ram", -1)),
  Cmd("PUSH", NoArg),
  Cmd("unknown", NoArg) }

MCTexts ==
  UNION {[1..n -> MCLines] : n \in 0..4} \union
  UNION {[1..n -> {[kind |-> "label", name |-> "f"], [kind |-> "label", name |-> "MAIN"],
                   Cmd("HLT", NoArg), Cmd("CALL", A("name", "f")),
                   Cmd("JMP", A("name", "MAIN")), Cmd("POPM", A("ram", 1))}] : n \in 0..5}

MCBytecodes == {<< >>}
=============================================================================
