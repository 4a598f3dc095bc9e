-------------------------------- MODULE Spu --------------------------------
(***************************************************************************)
(* The virtual machine of source/processor/spu.cpp: the loop of run_spu,   *)
(* one action per command or group of commands that differ in a function   *)
(* only.  Its two stacks are the lists that Stack implements; a push after *)
(* a pop finds room (Stack, ReallocationLeavesRoom), any other push on at  *)
(* least MinCapacity elements may be refused.                              *)
(*                                                                         *)
(* Doubles are an abstract set Value: the machine only asks whether one is *)
(* zero or positive up to EPSILON, and which address it converts to.       *)
(***************************************************************************)
EXTENDS Isa

CONSTANTS
  Value, Zero,         (* StackElem and its 0                               *)
  ZeroLike, Positive,  (* is_zero_double, is_positive_double                *)
  Arith1, Arith2,      (* the functions of one and two operands             *)
  Literal,             (* the value of a word: (int) code[ip] as a double   *)
  AddressOf,           (* (int) value                                       *)
  Inputs,              (* what a user may type at IN                        *)
  Programs,            (* the byte codes to run                             *)
  Layout,              (* for each, the addresses where a command starts    *)
  RegsCount, RamCount, (* 16 and 512 in the code                            *)
  StringTop,           (* string_top, where strings start in the RAM: 256   *)
  MaxDepth, MaxOut     (* BOUNDS: on either stack, on the printed values    *)

Binary   == {"ADD", "SUB", "MUL"}
Unary    == {"SIN", "COS", "LN", "EXP", "ARCTG"}

ASSUME ValueAssumption ==
  /\ Zero \in Value /\ ZeroLike \subseteq Value /\ Positive \subseteq Value
  /\ Inputs \subseteq Value
  /\ Arith1 \in [(Unary \union {"SQRT"}) \X Value -> Value]
  /\ Arith2 \in [(Binary \union {"DIV"}) \X Value \X Value -> Value]
  /\ AddressOf \in [Value -> Int]
ASSUME ProgramAssumption ==
  /\ Programs \subseteq Seq(Int)
  /\ \A c \in Programs : \A i \in 1..Len(c) : Literal[c[i]] \in Value
ASSUME SizeAssumption == RegsCount \in Nat /\ RamCount \in Nat /\ RegsCount <= RamCount

VARIABLES
  code,        (* spu->code, code_size words                                *)
  ip,          (* spu->instructor_ptr                                       *)
  stack,       (* spu->stack                                                *)
  returns,     (* spu->return_address                                       *)
  regs, ram,   (* spu->regs, spu->RAM                                       *)
  errors,      (* the Spu_Err bits                                          *)
  status,      (* "running", "returned", or what is undefined in C++:
                  "wild fetch", "wild jump", "wild read"                    *)
  stdin,       (* "stuck" when its next characters are not a number         *)
  out,         (* HISTORY: what OUT and PUTS printed                        *)
  at           (* HISTORY: the address of the command executed last         *)

vars == <<code, ip, stack, returns, regs, ram, errors, status, stdin, out, at>>

MinCapacity == 4

Command    == Decode(code[ip + 1])
Executing(commands) == status = "running" /\ ip < Len(code) /\ Command \in commands
HasOperand == ip + 1 < Len(code)
Operand    == code[ip + 2]

Top        == stack[Len(stack)]
Second     == stack[Len(stack) - 1]
Drop(s, n) == SubSeq(s, 1, Len(s) - n)

-----------------------------------------------------------------------------
(* The ways a command ends.  One that ends the run, or whose effect is
   undefined, leaves the pointer where it has come to: behind the operand
   it has fetched.  Only PUSH advances it after the push, so that a push
   the stack refuses leaves it on the operand (spu.cpp:62, 75-77).         *)
Reached == IF Command = "PUSH" THEN ip + 1 ELSE ip + Width(Command)

GoOn(next) ==
  /\ ip' = next
  /\ at' = ip
  /\ UNCHANGED <<code, status, stdin>>

Return(errs) ==
  /\ status' = "returned"
  /\ errors' = errs
  /\ ip' = Reached
  /\ at' = ip
  /\ UNCHANGED <<code, stdin>>

Undefined(how) ==
  /\ status' = how
  /\ ip' = Reached
  /\ at' = ip
  /\ UNCHANGED <<code, regs, ram, errors, stdin, out>>

(* Seeded fault: the macro returns a variable nobody set.                  *)
FaultStackErrorLost == Return({}) /\ UNCHANGED <<returns, regs, ram, out>>

(* IF_THERE_IS_STACK_ERROR overwrites the bits collected so far.           *)
StackError == Return({"STACK_ERROR"}) /\ UNCHANGED <<returns, regs, ram, out>>

Underflow(n) == Len(stack) < n /\ stack' = << >> /\ StackError

(* A push of v on s that nothing was popped from before.                   *)
PushOn(s, v, next) ==
  \/ /\ Len(s) < MaxDepth
     /\ stack' = Append(s, v)
     /\ GoOn(next)
     /\ UNCHANGED <<returns, regs, ram, errors, out>>
  \/ /\ Len(s) >= MinCapacity
     /\ stack' = s
     /\ StackError

-----------------------------------------------------------------------------
(* spu_init: the code of the file, or none if it cannot be opened.         *)
Init ==
  /\ code \in Programs \union {<< >>}
  /\ ip = 0
  /\ stack = << >>
  /\ returns = << >>
  /\ regs = [r \in 0..RegsCount - 1 |-> Zero]
  /\ ram = [a \in 0..RamCount - 1 |-> Zero]
  /\ errors = {}
  /\ status = "running"
  /\ stdin = "fresh"
  /\ out = << >>
  /\ at = 0

(* The loop ends when the pointer has left the code.                       *)
Finish ==
  /\ status = "running" /\ ip >= Len(code)
  /\ status' = "returned"
  /\ UNCHANGED <<code, ip, stack, returns, regs, ram, errors, stdin, out, at>>

Halt ==
  /\ Executing({"HLT"})
  /\ GoOn(Len(code))
  /\ UNCHANGED <<stack, returns, regs, ram, errors, out>>

Dump ==
  /\ Executing({"DUMP"})
  /\ GoOn(ip + 1)
  /\ UNCHANGED <<stack, returns, regs, ram, errors, out>>

(* POP has an opcode and a mnemonic but no case.                           *)
Unknown ==
  /\ Executing({"POP", "unknown"})
  /\ Return(errors \union {"INVALID_COMMAND"})
  /\ UNCHANGED <<stack, returns, regs, ram, out>>

(* Only PUSH looks whether its operand is there.                           *)
MissingOperand ==
  \/ /\ Executing(WithOperand \ {"PUSH"})
     /\ ~ HasOperand
     /\ Undefined("wild fetch")
     /\ UNCHANGED <<stack, returns>>
  \/ /\ Executing({"PUSH"})
     /\ ~ HasOperand
     /\ errors' = errors \union {"INVALID_COMMAND"}
     /\ GoOn(Len(code))
     /\ UNCHANGED <<stack, returns, regs, ram, out>>

Push ==
  /\ Executing({"PUSH"}) /\ HasOperand
  /\ PushOn(stack, Literal[Operand], ip + 2)

(* PUSHR and PUSHM test their index against the same constant.             *)
Load ==
  /\ Executing({"PUSHR", "PUSHM"}) /\ HasOperand
  /\ IF Operand \in 0..RegsCount - 1
       THEN PushOn(stack, IF Command = "PUSHR" THEN regs[Operand] ELSE ram[Operand], ip + 2)
       ELSE /\ Return(errors \union {"INVALID_COMMAND"})
            /\ UNCHANGED <<stack, returns, regs, ram, out>>

(* The value is popped before the index is tested.                         *)
Store ==
  /\ Executing({"POPR", "POPM"}) /\ HasOperand
  /\ \/ Underflow(1)
     \/ /\ Len(stack) >= 1
        /\ stack' = Drop(stack, 1)
        /\ UNCHANGED <<returns, out>>
        /\ LET cells == IF Command = "POPR" THEN 0..RegsCount - 1 ELSE 0..RamCount - 1 IN
           IF Operand \in cells
             THEN /\ regs' = IF Command = "POPR" THEN [regs EXCEPT ![Operand] = Top] ELSE regs
                  /\ ram' = IF Command = "POPM" THEN [ram EXCEPT ![Operand] = Top] ELSE ram
                  /\ GoOn(ip + 2)
                  /\ UNCHANGED errors
             ELSE Return(errors \union {"INVALID_COMMAND"}) /\ UNCHANGED <<regs, ram>>

Compute2 ==
  /\ Executing(Binary)
  /\ \/ Underflow(2)
     \/ /\ Len(stack) >= 2
        /\ stack' = Append(Drop(stack, 2), Arith2[<<Command, Second, Top>>])
        /\ GoOn(ip + 1)
        /\ UNCHANGED <<returns, regs, ram, errors, out>>

(* A zero divisor is recorded; both operands go back, the divisor below,
   and the quotient on top of them.                                        *)
Divide ==
  /\ Executing({"DIV"})
  /\ \/ Underflow(2)
     \/ /\ Len(stack) >= 2 /\ Top \notin ZeroLike
        /\ stack' = Append(Drop(stack, 2), Arith2[<<"DIV", Second, Top>>])
        /\ GoOn(ip + 1)
        /\ UNCHANGED <<returns, regs, ram, errors, out>>
     \/ /\ Len(stack) >= 2 /\ Top \in ZeroLike
        /\ LET back == Drop(stack, 2) \o <<Top, Second>> IN
           \/ /\ Len(back) < MaxDepth
              /\ stack' = Append(back, Arith2[<<"DIV", Second, Top>>])
              /\ errors' = errors \union {"DIVISION_BY_ZERO"}
              /\ GoOn(ip + 1)
              /\ UNCHANGED <<returns, regs, ram, out>>
           \/ /\ Len(back) >= MinCapacity
              /\ stack' = back
              /\ StackError

(* The root of zero is refused like that of a negative number.             *)
SquareRoot ==
  /\ Executing({"SQRT"})
  /\ \/ Underflow(1)
     \/ /\ Len(stack) >= 1 /\ Top \notin Positive
        /\ Return(errors \union {"INVALID_COMMAND"})
        /\ UNCHANGED <<stack, returns, regs, ram, out>>
     \/ /\ Len(stack) >= 1 /\ Top \in Positive
        /\ stack' = Append(Drop(stack, 1), Arith1[<<"SQRT", Top>>])
        /\ GoOn(ip + 1)
        /\ UNCHANGED <<returns, regs, ram, errors, out>>

Compute1 ==
  /\ Executing(Unary)
  /\ \/ Underflow(1)
     \/ /\ Len(stack) >= 1
        /\ stack' = Append(Drop(stack, 1), Arith1[<<Command, Top>>])
        /\ GoOn(ip + 1)
        /\ UNCHANGED <<returns, regs, ram, errors, out>>

(* With b on top of a, the comparison is of a with b, through a - b.       *)
Holds(jump, a, b) ==
  LET less    == Arith2[<<"SUB", b, a>>] \in Positive
      greater == Arith2[<<"SUB", a, b>>] \in Positive
      equal   == Arith2[<<"SUB", a, b>>] \in ZeroLike
      equal2  == Arith2[<<"SUB", b, a>>] \in ZeroLike
  IN  \/ jump = "JB"  /\ less
      \/ jump = "JBE" /\ (less \/ equal2)
      \/ jump = "JA"  /\ greater
      \/ jump = "JAE" /\ (greater \/ equal)
      \/ jump = "JE"  /\ equal
      \/ jump = "JNE" /\ ~ equal

(* Seeded fault: the pointer is an int, a negative target is kept.         *)
FaultJumpNegative ==
  /\ Executing({"JMP"}) /\ HasOperand
  /\ GoOn(Operand) /\ UNCHANGED <<stack, returns, regs, ram, errors, out>>

Jump ==
  /\ Executing({"JMP"}) /\ HasOperand
  /\ \/ /\ Operand >= 0
        /\ GoOn(Operand)
        /\ UNCHANGED <<stack, returns, regs, ram, errors, out>>
     \/ /\ Operand < 0
        /\ Undefined("wild jump")
        /\ UNCHANGED <<stack, returns>>

(* Seeded fault: the target is fetched when the jump is taken only.        *)
FaultJumpIfLazyFetch ==
  /\ Executing(ConditionalJumps) /\ HasOperand
  /\ Len(stack) >= 2
  /\ stack' = Drop(stack, 2)
  /\ GoOn(IF Holds(Command, Second, Top) THEN Operand ELSE ip + 1)
  /\ UNCHANGED <<returns, regs, ram, errors, out>>

JumpIf ==
  /\ Executing(ConditionalJumps) /\ HasOperand
  /\ \/ Underflow(2)
     \/ /\ Len(stack) >= 2
        /\ Holds(Command, Second, Top) => Operand >= 0
        /\ stack' = Drop(stack, 2)
        /\ GoOn(IF Holds(Command, Second, Top) THEN Operand ELSE ip + 2)
        /\ UNCHANGED <<returns, regs, ram, errors, out>>
     \/ /\ Len(stack) >= 2
        /\ Holds(Command, Second, Top) /\ Operand < 0
        /\ stack' = Drop(stack, 2)
        /\ Undefined("wild jump")
        /\ UNCHANGED returns

(* Seeded fault: the return address is taken before the target is fetched. *)
FaultCallEarlyReturnAddress ==
  /\ Executing({"CALL"}) /\ HasOperand
  /\ Len(returns) < MaxDepth /\ Operand >= 0
  /\ returns' = Append(returns, ip + 1)
  /\ GoOn(Operand)
  /\ UNCHANGED <<stack, regs, ram, errors, out>>

Call ==
  /\ Executing({"CALL"}) /\ HasOperand
  /\ \/ /\ Len(returns) < MaxDepth
        /\ returns' = Append(returns, ip + 2)
        /\ \/ /\ Operand >= 0
              /\ GoOn(Operand)
              /\ UNCHANGED <<stack, regs, ram, errors, out>>
           \/ /\ Operand < 0
              /\ Undefined("wild jump")
              /\ UNCHANGED stack
     \/ /\ Len(returns) >= MinCapacity
        /\ Return({"STACK_ERROR"})
        /\ UNCHANGED <<stack, returns, regs, ram, out>>

Ret ==
  /\ Executing({"RET"})
  /\ \/ /\ returns = << >>
        /\ Return({"STACK_ERROR"})
        /\ UNCHANGED <<stack, returns, regs, ram, out>>
     \/ /\ returns # << >>
        /\ returns' = Drop(returns, 1)
        /\ GoOn(returns[Len(returns)])
        /\ UNCHANGED <<stack, regs, ram, errors, out>>

Read ==
  /\ Executing({"IN"})
  /\ stdin # "stuck"
  /\ \E n \in Inputs : PushOn(stack, n, ip + 1)

(* IN asks until scanf gives it a number, and scanf leaves what is not one
   where it is.                                                            *)
Reject ==
  /\ Executing({"IN"})
  /\ stdin' = "stuck"
  /\ UNCHANGED <<code, ip, stack, returns, regs, ram, errors, status, out, at>>

PrintNumber ==
  /\ Executing({"OUT"})
  /\ \/ Underflow(1)
     \/ /\ Len(stack) >= 1 /\ Len(out) < MaxOut
        /\ stack' = Drop(stack, 1)
        /\ out' = Append(out, [by |-> "OUT", chars |-> <<Top>>])
        /\ GoOn(ip + 1)
        /\ UNCHANGED <<returns, regs, ram, errors>>

(* The cells from a to the next zero; nothing stops the search at the end
   of the RAM.                                                             *)
Terminated(a) == a >= 0 /\ \E e \in a..RamCount - 1 : ram[e] \in ZeroLike
StringAt(a) ==
  LET e == CHOOSE e \in a..RamCount - 1 :
             ram[e] \in ZeroLike /\ \A i \in a..e - 1 : ram[i] \notin ZeroLike
  IN  [i \in 1..e - a |-> ram[a + i - 1]]

PrintString ==
  /\ Executing({"PUTS"})
  /\ \/ Underflow(1)
     \/ /\ Len(stack) >= 1 /\ Len(out) < MaxOut
        /\ Terminated(AddressOf[Top])
        /\ stack' = Drop(stack, 1)
        /\ out' = Append(out, [by |-> "PUTS", chars |-> StringAt(AddressOf[Top])])
        /\ GoOn(ip + 1)
        /\ UNCHANGED <<returns, regs, ram, errors>>
     \/ /\ Len(stack) >= 1
        /\ ~ Terminated(AddressOf[Top])
        /\ stack' = Drop(stack, 1)
        /\ Undefined("wild read")
        /\ UNCHANGED returns

Next ==
  \/ Finish \/ Halt \/ Dump \/ Unknown \/ MissingOperand
  \/ Push \/ Load \/ Store \/ Compute2 \/ Divide \/ SquareRoot \/ Compute1
  \/ Jump \/ JumpIf \/ Call \/ Ret \/ Read \/ Reject \/ PrintNumber \/ PrintString

Spec == Init /\ [][Next]_vars

-----------------------------------------------------------------------------
(* What the assembler makes of the translator's text: see its property
   AssembledIsLaidOut.                                                     *)
WellLaidOut == LaidOut(code, Layout[code])

(* The types of the variables.                                             *)
TypeOK ==
  /\ code \in Programs \union {<< >>}
  /\ ip \in Nat /\ at \in Nat
  /\ stack \in Seq(Value)
  /\ returns \in Seq(Nat)
  /\ regs \in [0..RegsCount - 1 -> Value]
  /\ ram \in [0..RamCount - 1 -> Value]
  /\ errors \subseteq {"STACK_ERROR", "INVALID_COMMAND", "DIVISION_BY_ZERO"}
  /\ status \in {"running", "returned", "wild fetch", "wild jump", "wild read"}
  /\ stdin \in {"fresh", "stuck"}

(* A run that ended with a PUSH the stack refused.                         *)
EndedOnPush ==
  /\ status = "returned" /\ errors = {"STACK_ERROR"}
  /\ Decode(code[at + 1]) = "PUSH" /\ ip = at + 1

(* In code the assembler laid out only words that are commands are executed,
   whatever the data: no jump, no return and no fetch of an operand
   desynchronises the pointer (spu.cpp:62, 98, 217, 272, 293, 300), and no
   operand is fetched behind the end.  When the run is over, too, the
   pointer is on a command or at the end of the code; one case leaves it on
   an operand, the refused PUSH.                                           *)
ControlStaysOnCommands ==
  WellLaidOut => /\ at \in Layout[code]
                 /\ ip \in Layout[code] \union {Len(code)} \/ EndedOnPush
                 /\ status \notin {"wild fetch", "wild jump"}

(* Each return address is the place behind a CALL of the code, in whatever
   order calls and returns came and whichever of them failed.              *)
ReturnsFollowCalls ==
  WellLaidOut => \A i \in 1..Len(returns) :
    \E p \in Layout[code] : /\ p < Len(code) /\ Decode(code[p + 1]) = "CALL"
                            /\ returns[i] = p + 2

(* The bits only grow while the program runs: a division by zero or a bad
   command is forgotten in no other way than by the stack error that ends
   the run, whose macro assigns the bits instead of adding its own
   (spu.cpp:18): then it alone is reported.                                *)
LostToStackError == status' = "returned" /\ errors' = {"STACK_ERROR"}
ErrorsStick == [][errors \subseteq errors' \/ LostToStackError]_vars
=============================================================================
