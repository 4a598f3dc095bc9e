------------------------------- MODULE MCSpu -------------------------------
(***************************************************************************)
(* Spu on numbers from -2 to 3, arithmetic stopping at these; two          *)
(* registers, six RAM cells, strings from the fourth on.  The programs are *)
(* all linked sequences of three instructions from a small set, a library  *)
(* of longer ones for the loops, calls and strings, and byte code that no  *)
(* text assembles to.                                                      *)
(***************************************************************************)
EXTENDS Spu, SequencesExt

MCValue    == -2..3
Clamp(n)   == IF n > 3 THEN 3 ELSE IF n < -2 THEN -2 ELSE n
MCZeroLike == {0}
MCPositive == 1..3
MCInputs   == {0, 2}
MCAddressOf == [v \in MCValue |-> v]
MCLiteral  == [w \in -2..40 |-> Clamp(w)]

MCArith1 == [x \in (Unary \union {"SQRT"}) \X MCValue |-> IF x[2] > 1 THEN 1 ELSE x[2]]
MCArith2 == [x \in (Binary \union {"DIV"}) \X MCValue \X MCValue |->
  Clamp(CASE x[1] = "ADD" -> x[2] + x[3]
          [] x[1] = "SUB" -> x[2] - x[3]
          [] x[1] = "MUL" -> x[2] * x[3]
          [] x[1] = "DIV" -> IF x[3] = 0 THEN 3 ELSE x[2] \div x[3])]

-----------------------------------------------------------------------------
(* An instruction is its mnemonic and its operand; a jump's operand is the
   number of the instruction it leads to.                                  *)
I0(m)    == [op |-> m, arg |-> 0]
I1(m, n) == [op |-> m, arg |-> n]

Places(p) ==
  LET start[i \in 1..Len(p) + 1] ==
        IF i = 1 THEN 0 ELSE start[i - 1] + Width(p[i - 1].op)
  IN  start

Linked(p) == FlattenSeq([i \in 1..Len(p) |->
  IF p[i].op \notin WithOperand THEN <<Opcode(p[i].op)>>
  ELSE <<Opcode(p[i].op),
         IF p[i].op \in Jumps \union {"CALL"} THEN Places(p)[p[i].arg] ELSE p[i].arg>>])

(* The places of commands, read off the code from its start.               *)
MCLayoutOf(c) ==
  LET next(a) == IF a < Len(c) THEN a + Width(Decode(c[a + 1])) ELSE a
      reached[k \in 0..Len(c)] == IF k = 0 THEN 0 ELSE next(reached[k - 1])
  IN  {reached[k] : k \in 0..Len(c)}

SmallSet == {
  I1("PUSH", 0), I1("PUSH", 2), I1("PUSHR", 1), I1("PUSHR", 2), I1("POPR", 1),
  I1("PUSHM", 1), I1("PUSHM", 3), I1("POPM", 3), I1("POPM", 6),
  I0("ADD"), I0("DIV"), I0("SQRT"), I0("IN"), I0("OUT"), I0("RET"), I0("HLT"),
  I1("JMP", 3), I1("CALL", 2), I1("JE", 1), I1("JBE", 4) }

Small == {Linked(p) : p \in UNION {[1..n -> SmallSet] : n \in 3..3}}

P(n) == I1("PUSH", n)
Library == {
  \* a call of a function with an argument, the result printed
  <<I1("CALL", 3), I0("HLT"), P(2), I1("CALL", 7), I0("OUT"), I0("RET"),
    I1("POPR", 1), I1("PUSHR", 1), P(1), I0("SUB"), I0("RET")>>,
  \* a function without an end to its recursion
  <<I1("CALL", 1), I0("HLT")>>,
  \* counting down what is read, one number printed a round
  <<I0("IN"), I1("POPM", 0), I1("PUSHM", 0), P(0), I1("JBE", 12), I1("PUSHM", 0),
    I0("OUT"), I1("PUSHM", 0), P(1), I0("SUB"), I1("POPM", 0), I0("HLT")>>,
  <<I0("IN"), I1("POPM", 0), I1("PUSHM", 0), P(0), I1("JA", 3), I0("HLT")>>,
  \* pushing for ever
  <<P(1), I1("JMP", 1)>>,
  <<I0("IN"), I1("JMP", 1)>>,
  \* a quotient by zero pushed on a stack without room, errors after one
  <<P(1), P(1), P(1), P(0), I0("DIV"), I0("RET")>>,
  <<P(2), P(0), I0("DIV"), I0("ADD"), I0("ADD"), I0("ADD")>>,
  \* a string printed, one that does not end, one before the RAM
  <<P(2), I1("POPM", 3), P(3), I0("PUTS"), I0("HLT")>>,
  <<P(2), I1("POPM", 3), P(2), I1("POPM", 4), P(1), I1("POPM", 5), P(3), I0("PUTS")>>,
  <<P(-1), I0("PUTS")>>,
  <<I0("PUTS")>>,
  \* the remaining commands
  <<P(2), I0("SIN"), I0("COS"), I0("LN"), I0("EXP"), I0("ARCTG"), I0("DUMP"), P(3), I0("MUL"), I0("OUT")>>,
  <<P(1), I0("IN"), I1("JB", 1), I0("IN"), P(2), I1("JAE", 1), P(1), P(2), I1("JNE", 1), I0("HLT")>>,
  <<I0("EXP")>>, <<I0("POP")>> }

(* Byte code no text of the translator assembles to.                       *)
Raw == {
  <<Opcode("JMP"), -1>>,
  <<Opcode("PUSH"), 1, Opcode("PUSH"), 1, Opcode("JE"), -2>>,
  <<Opcode("CALL"), -1>>,
  <<Opcode("JMP")>>, <<Opcode("PUSH")>>, <<Opcode("PUSH"), 2, Opcode("POPM")>>,
  <<Opcode("JMP"), 3, Opcode("PUSH"), 9>>,
  <<30>> }

MCPrograms == Small \union {Linked(p) : p \in Library} \union Raw
MCLayout   == [c \in MCPrograms \union {<< >>} |-> MCLayoutOf(c)]
=============================================================================
