----------------------------- MODULE Toolchain -----------------------------
(***************************************************************************)
(* A program's way through frontend, middleend and backend, the assembler  *)
(* and the machine: the stages of exe/*.cpp one behind the other, with the *)
(* tree files and the byte code file between them.  The assembler and the  *)
(* machine are those of Assembler and Spu, command by command.             *)
(***************************************************************************)
EXTENDS Parser, Semantics, TreeFile, Translator, Meaning

CONSTANTS
  Sources,             (* the token lists of the programs                   *)
  ReadAs, RegisterLike, (* names the assembler does not read as labels      *)
  Value, ZeroLike, Positive, Literal, AddressOf,  (* doubles, as in Spu     *)
  RegsCount, RamCount, (* as in Spu                                         *)
  MaxDepth, MaxOut     (* BOUNDS, as in Spu                                 *)

VARIABLES
  stage,       (* "frontend" | "middleend" | "backend" | "assembler" | "spu" | "exited" *)
  ast, middle, (* the files of the frontend and the middleend               *)
  text, pass, line, asmIp, labels, asmCode, asmErrors, file, mark,  (* Assembler *)
  program, ip, stack, returns, regs, ram, errors, status, stdin, out, at,  (* Spu *)
  meant        (* HISTORY: what the program means, see Meaning              *)

asmVars == <<text, pass, line, asmIp, labels, asmCode, asmErrors, file, mark>>
spuVars == <<program, ip, stack, returns, regs, ram, errors, status, stdin, out, at>>
vars    == <<tokens, stage, ast, middle, asmVars, spuVars, meant>>

Asm == INSTANCE Assembler WITH
  Name <- Names, Texts <- {}, Bytecodes <- {}, MaxLabels <- 128, MaxCode <- 1024,
  ip <- asmIp, code <- asmCode, errors <- asmErrors

Machine == INSTANCE Spu WITH
  code <- program, Zero <- 0, Inputs <- {Input}, Programs <- {}, Layout <- << >>

Analysed == semantic_analysis(GetProgram.node)

(* Calls whose arguments are single numbers or variables.                  *)
SimpleArguments(root) ==
  \A n \in Nodes(root) : IsStatement(n, "func_call") =>
    \A i \in 1..Len(Items(n.right)) : Items(n.right)[i].kind \in {"NUMBER", "IDENTIFIER"}

-----------------------------------------------------------------------------
Init ==
  /\ tokens \in Sources
  /\ stage = "frontend"
  /\ ast = << >> /\ middle = << >>
  /\ text = << >> /\ pass = "first" /\ line = 1 /\ asmIp = 0 /\ labels = << >>
  /\ asmCode = << >> /\ asmErrors = {} /\ file = << >> /\ mark = <<0>>
  /\ program = << >> /\ ip = 0 /\ stack = << >> /\ returns = << >>
  /\ regs = [r \in 0..RegsCount - 1 |-> 0] /\ ram = [a \in 0..RamCount - 1 |-> 0]
  /\ errors = {} /\ status = "running" /\ stdin = "fresh" /\ out = << >> /\ at = 0
  /\ meant = << >>

(* main of frontend.cpp: nothing is written for a program that is refused. *)
Frontend ==
  /\ stage = "frontend"
  /\ LET compiles == Accepted(GetProgram) /\ Analysed.ok
         tree     == Analysed.node
     IN  /\ stage' = IF compiles THEN "middleend" ELSE "exited"
         /\ ast' = IF compiles THEN Save(tree) ELSE ast
         /\ meant' = IF compiles THEN [simple |-> SimpleArguments(tree), cells |-> Meant(tree, FALSE),
                                      locals |-> Meant(tree, TRUE)]
                    ELSE meant
  /\ UNCHANGED <<tokens, middle, asmVars, spuVars>>

Middleend ==
  /\ stage = "middleend"
  /\ LET tree == Load(ast) IN
     /\ stage' = IF tree # Nil THEN "backend" ELSE "exited"
     /\ middle' = IF tree # Nil THEN Save(tree) ELSE middle
  /\ UNCHANGED <<tokens, ast, asmVars, spuVars, meant>>

(* main of backend.cpp up to the assembler.                                *)
Backend ==
  /\ stage = "backend"
  /\ LET t == translate_to_asm(Load(middle)) IN
     /\ stage' = IF t.end = "open" THEN "assembler" ELSE "exited"
     /\ text' = t.text
  /\ UNCHANGED <<tokens, ast, middle, pass, line, asmIp, labels, asmCode, asmErrors, file, mark,
                 spuVars, meant>>

Assemble ==
  /\ stage = "assembler"
  /\ Asm!Next
  /\ stage' = IF pass' \in {"failed", "overrun"} THEN "exited" ELSE stage
  /\ UNCHANGED <<tokens, ast, middle, spuVars, meant>>

(* spu_init reads the file that assembler has just written.                *)
SpuInit ==
  /\ stage = "assembler" /\ pass = "done"
  /\ stage' = "spu"
  /\ program' = file
  /\ UNCHANGED <<tokens, ast, middle, asmVars, ip, stack, returns, regs, ram, errors,
                 status, stdin, out, at, meant>>

RunSpu ==
  /\ stage = "spu"
  /\ Machine!Next
  /\ stage' = IF status' = "running" THEN stage ELSE "exited"
  /\ UNCHANGED <<tokens, ast, middle, asmVars, meant>>

Next == Frontend \/ Middleend \/ Backend \/ Assemble \/ SpuInit \/ RunSpu

Spec == Init /\ [][Next]_vars

-----------------------------------------------------------------------------
Loaded  == program # << >>
Running == stage = "spu" /\ ip < Len(program)

(* Whether the machine has printed what m says: all of it when it came to
   its end, so much of it before.                                          *)
Prefix(s, t) == Len(s) <= Len(t) /\ s = SubSeq(t, 1, Len(s))
PrintsAs(m) ==
  /\ Prefix(out, m.out) \/ (m.how = "beyond" /\ Prefix(m.out, out))
  /\ status = "returned" /\ errors = {} => m.how # "beyond" /\ out = m.out

(* The whole toolchain is faithful: what the machine prints is what the    *)
(* program means, in its order, nothing more at any time and nothing less  *)
(* at the end, whether it loops, calls itself or runs out of stack.  (A    *)
(* division by zero is recorded and computed on with, spu.cpp:174-178.)    *)
PrintsTheMeaning ==
  Loaded /\ "DIVISION_BY_ZERO" \notin errors /\ meant.simple => PrintsAs(meant.cells)

Pops(c) ==
  IF c \in {"ADD", "SUB", "MUL", "DIV"} \union Machine!ConditionalJumps THEN 2
  ELSE IF c \in {"SQRT", "SIN", "COS", "LN", "EXP", "OUT", "PUTS", "POPR", "POPM"} THEN 1 ELSE 0

(* Commands find their operands and returns their call: what expressions,  *)
(* comparisons, powers, calls and function bodies leave on the stack is    *)
(* what the commands behind them take.                                     *)
OperandsThere ==
  Running => /\ Len(stack) >= Pops(Machine!Command)
             /\ Machine!Command = "RET" => returns # << >>

(* What the comments say in semantic_analysis.cpp:203 and 233: parameters  *)
(* are "local variables", and another call does not change them.           *)
ParametersAreLocal ==
  Loaded => PrintsAs(meant.locals)
=============================================================================
