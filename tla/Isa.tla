-------------------------------- MODULE Isa --------------------------------
(***************************************************************************)
(* The instruction set that the translator, the assembler and the SPU      *)
(* share.  A word of byte code is a number, be it an opcode or an operand: *)
(* nothing in the file tells the two apart.                                *)
(***************************************************************************)
EXTENDS Integers, Sequences

(* The mnemonics in the order of enum Stack_commands, which is also the
   order of the table stack_commands.                                      *)
Commands == <<
  "HLT", "PUSH", "DUMP", "ADD", "SUB", "MUL", "DIV", "SQRT", "OUT", "POP",
  "PUSHR", "POPR", "JB", "JBE", "JA", "JAE", "JE", "JNE", "JMP", "IN",
  "CALL", "RET", "PUSHM", "POPM", "SIN", "COS", "LN", "EXP", "ARCTG", "PUTS" >>

Mnemonics == {Commands[i] : i \in 1..30}

Opcode(m) == (CHOOSE i \in 1..30 : Commands[i] = m) - 1

(* The mnemonic of a word executed as a command.                           *)
Decode(word) == IF word \in 0..29 THEN Commands[word + 1] ELSE "unknown"

ConditionalJumps == {"JB", "JBE", "JA", "JAE", "JE", "JNE"}
Jumps            == ConditionalJumps \union {"JMP"}

(* The commands both passes of the assembler count as two words.           *)
WithOperand == {"PUSH", "PUSHR", "POPR", "PUSHM", "POPM", "CALL"} \union Jumps

(* Seeded fault: CALL forgotten among the commands of two words.           *)
FaultWidthOfCall(m) == IF m \in WithOperand \ {"CALL"} THEN 2 ELSE 1

Width(m) == IF m \in WithOperand THEN 2 ELSE 1

(* What keeps code and operands apart: L are the places of commands, all of
   them known, each with its operand and the next place behind it, and jumps
   and calls lead to one of these.                                         *)
LaidOut(c, L) ==
  /\ L \subseteq 0..Len(c) /\ 0 \in L
  /\ \A p \in L : p < Len(c) =>
       LET m == Decode(c[p + 1]) IN
       /\ m # "unknown"
       /\ p + Width(m) \in L
       /\ m \in Jumps \union {"CALL"} => c[p + 2] \in L
=============================================================================
