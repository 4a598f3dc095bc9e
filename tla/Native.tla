------------------------------- MODULE Native -------------------------------
(***************************************************************************)
(* A program's way through frontend, middleend and backend_x64, and what   *)
(* the processor makes of the text for NASM, instruction by instruction.   *)
(* NASM, the linker, the C library and the processor are not under src:    *)
(* they are modelled as translate_to_nasm.cpp and mystdlib.asm use them.   *)
(*                                                                         *)
(* Addresses count bytes; only the stack is memory.  A cell that was never *)
(* written, or that a library function may have written, is garbage, and   *)
(* so is what a library function leaves in the registers.                  *)
(***************************************************************************)
EXTENDS Parser, TreeFile, NasmTranslator, Subset

CONSTANTS
  Sources,     (* the token lists of the programs                           *)
  Junk,        (* what is in a register or a cell that nobody has set       *)
  StackTop,    (* BOUND: the rsp main is entered with, 8 modulo 16          *)
  MaxOut       (* BOUND: on the numbers printed                             *)

VARIABLES
  stage,       (* "source" | "text" | "running" | "exited" | "unlinked" | "wild" | "overflow" *)
  pc, rsp, rbp, xmm, flags, mem, out,
  calls,       (* HISTORY: the return addresses of the calls that are open  *)
  differs,     (* HISTORY: a root or power whose meaning the SPU has chosen *)
  meant        (* HISTORY: what the program means, and what it uses         *)

machineVars == <<pc, rsp, rbp, xmm, flags, mem, out, calls, differs>>
sourceVars  == <<tokens, compiled, meant>>
vars        == <<stage, sourceVars, machineVars>>

ASSUME StackAssumption == StackTop \in Nat /\ StackTop % 16 = 8

Functions == {"printf", "_my_read", "pow", "sqrt", "sin", "cos", "tan", "exp", "log"}

Num(v)  == [t |-> "num", v |-> v]
Address(k) == [t |-> "ret", v |-> k]
Frame0(a)  == [t |-> "rbp", v |-> a]
Garbage == [t |-> "num", v |-> Junk]

-----------------------------------------------------------------------------
Init ==
  /\ tokens \in Sources
  /\ stage = "source"
  /\ compiled = Begin(<< >>) /\ meant = << >>
  /\ pc = 0 /\ rsp = StackTop /\ rbp = 0 /\ flags = "="
  /\ xmm = [i \in 0..3 |-> Junk]
  /\ mem = (StackTop :> Address(0))
  /\ out = << >> /\ calls = <<0>> /\ differs = FALSE

(* The mains of frontend.cpp, middleend.cpp and backend-x64.cpp.           *)
Translation(frontend) == translate_to_nasm(Load(Save(Load(Save(frontend)))))

Intended(root) ==
  [plain |-> Plain(root), closed |-> ClosedFunctions(root),
   flat |-> FlatDefinitions(root), run |-> Meant(root, TRUE)]

Compile ==
  /\ stage = "source"
  /\ \E r \in {GetProgram} : \E a \in {Analysis(r)} :
       /\ stage' = IF a.ok THEN "text" ELSE "exited"
       /\ compiled' = IF a.ok THEN Translation(a.node) ELSE compiled
       /\ meant' = IF a.ok THEN Intended(a.node) ELSE meant
  /\ UNCHANGED <<tokens, machineVars>>

(* The place of a label; jumps stay below the function's own label.        *)
Places(text, l) == {k \in 1..Len(text) : text[k].op = "label" /\ text[k].name = l.name /\ text[k].n = l.n}
Place(text, l)  == CHOOSE k \in Places(text, l) : TRUE

Globals(text) == {k \in 1..Len(text) : text[k].op = "label" /\ text[k].name \notin {"else", "end", "while_start", "while_end"}}
Owner(text, k) == CHOOSE g \in Globals(text) : g <= k /\ \A h \in Globals(text) : h <= k => h <= g

(* What NASM and the linker ask for.                                       *)
Linked0(text) ==
  /\ \A k \in 1..Len(text) :
       /\ text[k].op = "label" => Places(text, text[k]) = {k} /\ text[k].name \notin Functions
       /\ text[k].op = "call" => text[k].name \in Functions \/ Places(text, text[k]) # {}
       /\ text[k].op \in {"jmp", "je"} =>
            \E p \in Places(text, text[k]) : Owner(text, p) = Owner(text, k)

Link ==
  /\ stage = "text"
  /\ \/ compiled.end = "open" /\ Linked0(compiled.text)
        /\ stage' = "running" /\ pc' = Place(compiled.text, LabelAt("main", 0))
     \/ compiled.end = "open" /\ ~Linked0(compiled.text) /\ stage' = "unlinked" /\ UNCHANGED pc
     \/ compiled.end # "open" /\ stage' = "exited" /\ UNCHANGED pc
  /\ UNCHANGED <<sourceVars, rsp, rbp, xmm, flags, mem, out, calls, differs>>

-----------------------------------------------------------------------------
Instruction == compiled.text[pc]
Does(ops)   == stage = "running" /\ Instruction.op \in ops

Cell(a) == IF a \in DOMAIN mem THEN mem[a] ELSE Garbage
Value(c) == IF c.t = "num" THEN c.v ELSE Junk
Into(a, c) == (a :> c) @@ mem

Calculated(op, a, b) == IF Junk \in {a, b} THEN Junk ELSE Arith2[<<op, a, b>>]

Onward == pc' = pc + 1 /\ UNCHANGED <<sourceVars, out, calls, differs>>
RunsOn == Onward /\ UNCHANGED stage

Label ==
  /\ Does({"label"})
  /\ RunsOn /\ UNCHANGED <<rsp, rbp, xmm, flags, mem>>

Base(i) == IF i.base = "rbp" THEN rbp ELSE rsp

LoadXmm ==
  /\ Does({"load", "constant", "movapd", "xorpd"})
  /\ LET i == Instruction IN
     xmm' = [xmm EXCEPT ![i.x] = CASE i.op = "load"     -> Value(Cell(Base(i) + i.n))
                                   [] i.op = "constant" -> compiled.consts[i.n + 1]
                                   [] i.op = "movapd"   -> xmm[i.y]
                                   [] i.op = "xorpd"    -> 0]
  /\ RunsOn /\ UNCHANGED <<rsp, rbp, flags, mem>>

StoreXmm ==
  /\ Does({"store"})
  /\ mem' = Into(Base(Instruction) + Instruction.n, Num(xmm[Instruction.x]))
  /\ RunsOn /\ UNCHANGED <<rsp, rbp, xmm, flags>>

Arithmetic ==
  /\ Does({"arith"})
  /\ xmm' = [xmm EXCEPT ![1] = Calculated(Instruction.name, xmm[1], xmm[0])]
  /\ RunsOn /\ UNCHANGED <<rsp, rbp, flags, mem>>

Compare(a, b) ==
  IF Junk \in {a, b} THEN {"<", "=", ">"} ELSE {IF a < b THEN "<" ELSE IF a = b THEN "=" ELSE ">"}

Comparison ==
  /\ Does({"comisd"})
  /\ flags' \in Compare(xmm[Instruction.x], xmm[Instruction.y])
  /\ RunsOn /\ UNCHANGED <<rsp, rbp, xmm, mem>>

Holds == [e |-> {"="}, ne |-> {"<", ">"}, b |-> {"<"}, be |-> {"<", "="}, a |-> {">"}, ae |-> {">", "="}]

SetXmm0 ==
  /\ Does({"set"})
  /\ xmm' = [xmm EXCEPT ![0] = Truth(flags \in Holds[Instruction.name])]
  /\ RunsOn /\ UNCHANGED <<rsp, rbp, flags, mem>>

Jump ==
  /\ Does({"jmp", "je"})
  /\ pc' = IF Instruction.op = "jmp" \/ flags = "=" THEN Place(compiled.text, LabelAt(Instruction.name, Instruction.n))
           ELSE pc + 1
  /\ UNCHANGED <<stage, sourceVars, rsp, rbp, xmm, flags, mem, out, calls, differs>>

(* Below address 0 the stack has ended.                                    *)
StageAt(sp) == IF sp < 0 THEN "overflow" ELSE stage

MoveRsp ==
  /\ Does({"sub", "add"})
  /\ rsp' = IF Instruction.op = "sub" THEN rsp - Instruction.n ELSE rsp + Instruction.n
  /\ stage' = StageAt(rsp')
  /\ Onward /\ UNCHANGED <<rbp, xmm, flags, mem>>

EnterFrame ==
  /\ Does({"push_rbp", "mov_rbp_rsp"})
  /\ IF Instruction.op = "push_rbp"
       THEN rsp' = rsp - 8 /\ mem' = Into(rsp - 8, Frame0(rbp)) /\ UNCHANGED rbp
       ELSE rbp' = rsp /\ UNCHANGED <<rsp, mem>>
  /\ stage' = StageAt(rsp')
  /\ Onward /\ UNCHANGED <<xmm, flags>>

LeaveFrame ==
  /\ Does({"mov_rsp_rbp", "pop_rbp"})
  /\ IF Instruction.op = "pop_rbp"
       THEN /\ rsp' = rsp + 8
            /\ rbp' = Cell(rsp).v
            /\ stage' = IF Cell(rsp).t = "rbp" THEN stage ELSE "wild"
       ELSE rsp' = rbp /\ UNCHANGED <<rbp, stage>>
  /\ Onward /\ UNCHANGED <<xmm, flags, mem>>

(* A function of the program.                                              *)
CallFunction ==
  /\ Does({"call"}) /\ Instruction.name \notin Functions
  /\ rsp' = rsp - 8
  /\ mem' = Into(rsp - 8, Address(pc + 1))
  /\ calls' = Append(calls, pc + 1)
  /\ pc' = Place(compiled.text, LabelAt(Instruction.name, 0))
  /\ stage' = StageAt(rsp')
  /\ UNCHANGED <<sourceVars, rbp, xmm, flags, out, differs>>

Return ==
  /\ Does({"ret"})
  /\ LET c == Cell(rsp) IN
     /\ stage' = IF c.t # "ret" THEN "wild" ELSE IF c.v = 0 THEN "exited" ELSE stage
     /\ pc' = IF c.t = "ret" THEN c.v ELSE pc
  /\ rsp' = rsp + 8
  /\ calls' = SubSeq(calls, 1, Len(calls) - 1)
  /\ UNCHANGED <<sourceVars, rbp, xmm, flags, mem, out, differs>>

(* What a library function returns in xmm0.                                *)
Returned(f, a, b) ==
  CASE f = "_my_read" -> Input
    [] f = "printf"   -> Junk
    [] Junk \in {a, b} -> Junk
    [] f = "pow"      -> IF b < 0 THEN Junk ELSE Power(a, b)
    [] f = "tan"      -> Calculated("DIV", Arith1[<<"SIN", a>>], Arith1[<<"COS", a>>])
    [] f = "log"      -> Arith1[<<"LN", a>>]
    [] f = "sqrt"     -> Arith1[<<"SQRT", a>>]
    [] f = "sin"      -> Arith1[<<"SIN", a>>]
    [] f = "cos"      -> Arith1[<<"COS", a>>]
    [] f = "exp"      -> Arith1[<<"EXP", a>>]

Second(f) == IF f = "pow" THEN xmm[1] ELSE 0

(* Roots of what is not positive and powers of negative bases.             *)
Chosen(f) ==
  /\ xmm[0] # Junk
  /\ \/ f = "pow" /\ xmm[0] < 0
     \/ f = "sqrt" /\ xmm[0] <= 0

(* It keeps rbp and what lies above rsp, and nothing else.                 *)
CallLibrary ==
  /\ Does({"call"}) /\ Instruction.name \in Functions
  /\ LET f == Instruction.name IN
     /\ f = "printf" => Len(out) < MaxOut
     /\ out' = IF f = "printf" THEN Append(out, [by |-> "OUT", chars |-> <<xmm[0]>>]) ELSE out
     /\ xmm' = [i \in 0..3 |-> IF i = 0 THEN Returned(f, xmm[0], Second(f)) ELSE Junk]
     /\ differs' = (differs \/ Chosen(f))
  /\ mem' = [a \in {b \in DOMAIN mem : b >= rsp} |-> mem[a]]
  /\ pc' = pc + 1
  /\ UNCHANGED <<stage, sourceVars, rsp, rbp, flags, calls>>

Next ==
  \/ Compile \/ Link
  \/ Label \/ LoadXmm \/ StoreXmm \/ Arithmetic \/ Comparison \/ SetXmm0 \/ Jump
  \/ MoveRsp \/ EnterFrame \/ LeaveFrame \/ CallFunction \/ Return \/ CallLibrary

Spec == Init /\ [][Next]_vars
-----------------------------------------------------------------------------
Translated == stage \notin {"source"} /\ meant # << >>

(* Whether the slots of all functions do.                                  *)
FramesHold ==
  \A v \in {compiled.vars[i].func : i \in 1..Len(compiled.vars)} : Depth(compiled.vars, v) <= FrameOf(compiled.vars, v)

(* The backend takes every program of its part of the language in which    *)
(* functions use variables of their own only: the translation comes to its *)
(* end, and NASM and the linker find each label once, in the function it   *)
(* is jumped to from.                                                      *)
PlainProgramsLink ==
  Translated /\ meant.plain /\ meant.closed =>
    compiled.end = "open" /\ stage # "unlinked"

Prefix(s, t) == Len(s) <= Len(t) /\ s = SubSeq(t, 1, Len(s))

(* The native program prints what the program means, like the SPU: with    *)
(* every operand, argument, local variable and return address where the    *)
(* code behind it looks for it, through loops, calls and recursion.        *)
NativePrintsTheMeaning ==
  Translated /\ compiled.end = "open" /\ meant.plain /\ meant.closed /\ FramesHold /\ ~differs =>
    LET m == meant.run IN
    /\ Prefix(out, m.out) \/ (m.how = "beyond" /\ Prefix(m.out, out))
    /\ stage = "exited" => m.how # "beyond" /\ out = m.out

(* In every program without a definition inside another, also in those     *)
(* outside of the backend's part of the language, each return goes back    *)
(* behind its call, and when something is printed no operand is left on    *)
(* the stack: rsp stands at the end of the frame.                          *)
StackDiscipline ==
  Translated /\ meant.flat =>
    /\ stage # "wild"
    /\ Does({"ret"}) => Cell(rsp) = Address(calls[Len(calls)])
    /\ Does({"call"}) /\ Instruction.name = "printf" =>
         rsp = rbp - FrameOf(compiled.vars, IF compiled.text[Owner(compiled.text, pc)].name = "main" THEN 0 ELSE 1)

(* No program runs into an assertion of the translator to NASM: that what  *)
(* is translated as a statement is there (translate_to_nasm.cpp:205) and   *)
(* that an if has a condition and a body (translate_to_nasm.cpp:263).      *)
AssertionsHold == compiled.end # "abort"
=============================================================================
