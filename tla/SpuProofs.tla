----------------------------- MODULE SpuProofs -----------------------------
(***************************************************************************)
(* Proofs about Spu: the types, and that a run of code the assembler laid  *)
(* out never leaves the places of its commands.  The data a program        *)
(* computes play no part in the second: lemma Moves reduces each step to   *)
(* what it does to the pointer and to the return addresses.                *)
(***************************************************************************)
EXTENDS Spu, SequenceTheorems, TLAPS

(* TypeOK in two parts, control and data.                                  *)
ControlOK ==
  /\ code \in Programs \union {<< >>}
  /\ ip \in Nat /\ at \in Nat
  /\ status \in {"running", "returned", "wild fetch", "wild jump", "wild read"}
  /\ stdin \in {"fresh", "stuck"}

ErrorBits == {"STACK_ERROR", "INVALID_COMMAND", "DIVISION_BY_ZERO"}

MemoryOK ==
  /\ regs \in [0..RegsCount - 1 -> Value]
  /\ ram \in [0..RamCount - 1 -> Value]

StacksOK ==
  /\ stack \in Seq(Value)
  /\ returns \in Seq(Nat)

(* TypeOK is its parts. *)
LEMMA Parts == TypeOK <=> ControlOK /\ MemoryOK /\ StacksOK /\ errors \subseteq ErrorBits
BY DEF TypeOK, ControlOK, MemoryOK, StacksOK, ErrorBits

(* The code is a sequence of numbers, and each of them has a value. *)
LEMMA CodeWords ==
  ASSUME ControlOK
  PROVE  /\ code \in Seq(Int)
         /\ Len(code) \in Nat
         /\ \A i \in 1..Len(code) : code[i] \in Int /\ Literal[code[i]] \in Value
<1>1. CASE code = << >>
  BY <1>1
<1>2. CASE code \in Programs
  BY <1>2, ProgramAssumption
<1> QED  BY <1>1, <1>2 DEF ControlOK

(* What is left of a sequence after its last n elements are dropped. *)
LEMMA DropOK ==
  ASSUME NEW S, NEW s \in Seq(S), NEW n \in Nat, n <= Len(s)
  PROVE  /\ Drop(s, n) \in Seq(S)
         /\ Len(Drop(s, n)) = Len(s) - n
         /\ \A i \in 1..Len(s) - n : Drop(s, n)[i] = s[i]
<1>1. Len(s) - n \in 0..Len(s)  OBVIOUS
<1>2. \A i \in 1..Len(s) - n : s[i] \in S
  <2>1. TAKE i \in 1..Len(s) - n
  <2>2. i \in 1..Len(s)  BY <1>1
  <2> QED  BY <2>2, ElementOfSeq
<1> QED  BY <1>1, <1>2, SubSeqProperties DEF Drop

(* The last two elements of a sequence. *)
LEMMA TopOK ==
  ASSUME StacksOK
  PROVE  /\ Len(stack) >= 1 => Top \in Value
         /\ Len(stack) >= 2 => Second \in Value
<1>1. stack \in Seq(Value) /\ Len(stack) \in Nat  BY DEF StacksOK
<1>2. ASSUME Len(stack) >= 1 PROVE Top \in Value
  <2>1. Len(stack) \in 1..Len(stack)  BY <1>1, <1>2
  <2> QED  BY <1>1, <2>1, ElementOfSeq DEF Top
<1>3. ASSUME Len(stack) >= 2 PROVE Second \in Value
  <2>1. Len(stack) - 1 \in 1..Len(stack)  BY <1>1, <1>3
  <2> QED  BY <1>1, <2>1, ElementOfSeq DEF Second
<1> QED  BY <1>2, <1>3

(* The operand of a command that has one. *)
LEMMA OperandOK ==
  ASSUME ControlOK, HasOperand
  PROVE  Operand \in Int /\ Literal[Operand] \in Value
<1>1. ip \in Nat  BY DEF ControlOK
<1>2. Len(code) \in Nat  BY CodeWords
<1>3. ip + 1 < Len(code)  BY DEF HasOperand
<1>4. ip + 2 \in 1..Len(code)  BY <1>1, <1>2, <1>3
<1> QED  BY <1>4, CodeWords DEF Operand

-----------------------------------------------------------------------------
(* The ways a command ends keep the control types. *)
LEMMA EndsOK ==
  ASSUME ControlOK
  PROVE  /\ \A n \in Nat : GoOn(n) => ControlOK'
         /\ \A e : Return(e) => ControlOK'
         /\ \A h \in {"wild fetch", "wild jump", "wild read"} : Undefined(h) => ControlOK'
<1>1. Reached \in Nat
  <2>1. ip \in Nat  BY DEF ControlOK
  <2>2. Width(Command) \in Nat  BY DEF Width
  <2> QED  BY <2>1, <2>2 DEF Reached
<1> QED  BY <1>1 DEF ControlOK, GoOn, Return, Undefined

(* A push, if its value is one. *)
LEMMA PushOK ==
  ASSUME ControlOK, MemoryOK, StacksOK, errors \subseteq ErrorBits,
         NEW s \in Seq(Value), NEW v \in Value, NEW n \in Nat, PushOn(s, v, n)
  PROVE  ControlOK' /\ MemoryOK' /\ StacksOK' /\ errors' \subseteq ErrorBits
<1>1. Append(s, v) \in Seq(Value)  BY AppendProperties
<1>2. CASE /\ stack' = Append(s, v) /\ GoOn(n)
           /\ UNCHANGED <<returns, regs, ram, errors, out>>
  BY <1>1, <1>2, EndsOK DEF MemoryOK, StacksOK
<1>3. CASE stack' = s /\ StackError
  <2>1. ControlOK'  BY <1>3, EndsOK DEF StackError
  <2> QED  BY <1>3, <2>1 DEF StackError, Return, MemoryOK, StacksOK, ErrorBits
<1> QED  BY <1>2, <1>3 DEF PushOn

(* An underflow. *)
LEMMA UnderflowOK ==
  ASSUME ControlOK, MemoryOK, StacksOK, NEW n, Underflow(n)
  PROVE  ControlOK' /\ MemoryOK' /\ StacksOK' /\ errors' \subseteq ErrorBits
<1>1. ControlOK'  BY EndsOK DEF Underflow, StackError
<1> QED  BY <1>1 DEF Underflow, StackError, Return, MemoryOK, StacksOK, ErrorBits

(* A function of the operands on top of the stack takes their place. *)
LEMMA ReplaceOK ==
  ASSUME ControlOK, MemoryOK, StacksOK, errors \subseteq ErrorBits,
         NEW n \in Nat, n <= Len(stack), NEW v \in Value,
         stack' = Append(Drop(stack, n), v), GoOn(ip + 1),
         UNCHANGED <<returns, regs, ram, errors, out>>
  PROVE  ControlOK' /\ MemoryOK' /\ StacksOK' /\ errors' \subseteq ErrorBits
<1>1. Drop(stack, n) \in Seq(Value)  BY DropOK DEF StacksOK
<1>2. Append(Drop(stack, n), v) \in Seq(Value)  BY <1>1, AppendProperties
<1>3. ip + 1 \in Nat
  <2>1. ip \in Nat  BY DEF ControlOK
  <2> QED  BY <2>1
<1>4. ControlOK'  BY <1>3, EndsOK
<1> QED  BY <1>2, <1>4 DEF MemoryOK, StacksOK
-----------------------------------------------------------------------------
(* The arithmetic stays in Value. *)
LEMMA ArithOK ==
  /\ \A c \in Binary \union {"DIV"} : \A x, y \in Value : Arith2[<<c, x, y>>] \in Value
  /\ \A c \in Unary \union {"SQRT"} : \A x \in Value : Arith1[<<c, x>>] \in Value
BY ValueAssumption

(* The pointer and the end of the code are numbers. *)
LEMMA Places ==
  ASSUME ControlOK
  PROVE  ip \in Nat /\ ip + 1 \in Nat /\ ip + 2 \in Nat /\ Len(code) \in Nat
<1>1. ip \in Nat  BY DEF ControlOK
<1>2. Len(code) \in Nat  BY CodeWords
<1> QED  BY <1>1, <1>2

AllOK == ControlOK /\ MemoryOK /\ StacksOK /\ errors \subseteq ErrorBits

(* Nothing but the control changes. *)
LEMMA ControlOnlyOK ==
  ASSUME AllOK, ControlOK', UNCHANGED <<stack, returns, regs, ram>>, errors' \subseteq ErrorBits
  PROVE  AllOK'
BY DEF AllOK, MemoryOK, StacksOK

(* Every step keeps the types. *)
LEMMA StepTypes ==
  ASSUME AllOK, Next
  PROVE  AllOK'
<1>1. ControlOK /\ MemoryOK /\ StacksOK /\ errors \subseteq ErrorBits  BY DEF AllOK
<1>2. ip \in Nat /\ ip + 1 \in Nat /\ ip + 2 \in Nat /\ Len(code) \in Nat  BY <1>1, Places
<1>3. stack \in Seq(Value) /\ returns \in Seq(Nat)  BY <1>1 DEF StacksOK
<1>4. ASSUME Finish PROVE AllOK'
  <2>1. ControlOK'  BY <1>1, <1>4 DEF Finish, ControlOK
  <2> QED  BY <1>1, <1>4, <2>1, ControlOnlyOK DEF Finish
<1>5. ASSUME Halt PROVE AllOK'
  <2>1. ControlOK'  BY <1>1, <1>2, <1>5, EndsOK DEF Halt
  <2> QED  BY <1>1, <1>5, <2>1, ControlOnlyOK DEF Halt
<1>6. ASSUME Dump PROVE AllOK'
  <2>1. ControlOK'  BY <1>1, <1>2, <1>6, EndsOK DEF Dump
  <2> QED  BY <1>1, <1>6, <2>1, ControlOnlyOK DEF Dump
<1>7. ASSUME Unknown PROVE AllOK'
  <2>1. ControlOK'  BY <1>1, <1>7, EndsOK DEF Unknown
  <2>2. errors' \subseteq ErrorBits  BY <1>1, <1>7 DEF Unknown, Return, ErrorBits
  <2> QED  BY <1>7, <2>1, <2>2, ControlOnlyOK DEF Unknown
<1>8. ASSUME MissingOperand PROVE AllOK'
  <2>1. ControlOK'  BY <1>1, <1>2, <1>8, EndsOK DEF MissingOperand
  <2>2. errors' \subseteq ErrorBits  BY <1>1, <1>8 DEF MissingOperand, Undefined, ErrorBits
  <2> QED  BY <1>8, <2>1, <2>2, ControlOnlyOK DEF MissingOperand, Undefined
<1>9. ASSUME Push PROVE AllOK'
  <2>1. Literal[Operand] \in Value  BY <1>1, <1>9, OperandOK DEF Push
  <2> QED  BY <1>1, <1>2, <1>3, <1>9, <2>1, PushOK DEF Push, AllOK
<1>10. ASSUME Load PROVE AllOK'
  <2>1. CASE Operand \in 0..RegsCount - 1
    <3> DEFINE v == IF Command = "PUSHR" THEN regs[Operand] ELSE ram[Operand]
    <3>1. PushOn(stack, v, ip + 2)  BY <1>10, <2>1 DEF Load
    <3>2. Operand \in 0..RamCount - 1
      <4>1. Operand \in Int /\ Operand >= 0 /\ Operand < RegsCount  BY <2>1, SizeAssumption
      <4> QED  BY <4>1, SizeAssumption
    <3>3. regs[Operand] \in Value /\ ram[Operand] \in Value  BY <1>1, <2>1, <3>2 DEF MemoryOK
    <3>4. v \in Value  BY <3>3
    <3> HIDE DEF v
    <3> QED  BY <1>1, <1>2, <1>3, <3>1, <3>4, PushOK DEF AllOK
  <2>2. CASE Operand \notin 0..RegsCount - 1
    <3>1. /\ Return(errors \union {"INVALID_COMMAND"})
          /\ UNCHANGED <<stack, returns, regs, ram, out>>
      BY <1>10, <2>2 DEF Load
    <3>2. ControlOK'  BY <1>1, <3>1, EndsOK
    <3>3. errors' \subseteq ErrorBits  BY <1>1, <3>1 DEF Return, ErrorBits
    <3> QED  BY <3>1, <3>2, <3>3, ControlOnlyOK
  <2> QED  BY <2>1, <2>2
<1>11. ASSUME Store PROVE AllOK'
  <2>1. CASE Underflow(1)
    BY <1>1, <2>1, UnderflowOK DEF AllOK
  <2>2. CASE Len(stack) >= 1 /\ stack' = Drop(stack, 1) /\ UNCHANGED returns
    <3>1. Drop(stack, 1) \in Seq(Value)  BY <1>3, <2>2, DropOK
    <3>2. StacksOK'  BY <1>3, <2>2, <3>1 DEF StacksOK
    <3>3. Top \in Value  BY <1>1, <2>2, TopOK
    <3>4. CASE /\ regs' = IF Command = "POPR" THEN [regs EXCEPT ![Operand] = Top] ELSE regs
               /\ ram' = IF Command = "POPM" THEN [ram EXCEPT ![Operand] = Top] ELSE ram
               /\ GoOn(ip + 2)
               /\ UNCHANGED errors
      <4>1. ControlOK'  BY <1>1, <1>2, <3>4, EndsOK
      <4>2. MemoryOK'  BY <1>1, <3>3, <3>4 DEF MemoryOK
      <4> QED  BY <1>1, <3>2, <3>4, <4>1, <4>2 DEF AllOK
    <3>5. CASE Return(errors \union {"INVALID_COMMAND"}) /\ UNCHANGED <<regs, ram>>
      <4>1. ControlOK'  BY <1>1, <3>5, EndsOK
      <4>2. errors' \subseteq ErrorBits  BY <1>1, <3>5 DEF Return, ErrorBits
      <4> QED  BY <1>1, <3>2, <3>5, <4>1, <4>2 DEF AllOK, MemoryOK
    <3> QED  BY <1>11, <2>2, <3>4, <3>5 DEF Store, Underflow
  <2> QED  BY <1>11, <2>1, <2>2 DEF Store
<1>12. ASSUME Compute2 PROVE AllOK'
  <2>1. CASE Underflow(2)
    BY <1>1, <2>1, UnderflowOK DEF AllOK
  <2>2. CASE Len(stack) >= 2 /\ ~ Underflow(2)
    <3> DEFINE v == Arith2[<<Command, Second, Top>>]
    <3>1. v \in Value  BY <1>1, <1>12, <2>2, TopOK, ArithOK DEF Compute2, Executing
    <3>2. /\ stack' = Append(Drop(stack, 2), v) /\ GoOn(ip + 1)
          /\ UNCHANGED <<returns, regs, ram, errors, out>>
      BY <1>12, <2>2 DEF Compute2
    <3> HIDE DEF v
    <3> QED  BY <1>1, <2>2, <3>1, <3>2, ReplaceOK DEF AllOK
  <2> QED  BY <1>12, <2>1, <2>2 DEF Compute2
<1>13. ASSUME Divide PROVE AllOK'
  <2> DEFINE v == Arith2[<<"DIV", Second, Top>>]
             back == Drop(stack, 2) \o <<Top, Second>>
  <2>1. CASE Underflow(2)
    BY <1>1, <2>1, UnderflowOK DEF AllOK
  <2>2. ASSUME Len(stack) >= 2 PROVE /\ v \in Value /\ back \in Seq(Value)
                                     /\ Append(back, v) \in Seq(Value)
    <3>1. Top \in Value /\ Second \in Value  BY <1>1, <2>2, TopOK
    <3>2. v \in Value  BY <3>1, ArithOK
    <3>3. Drop(stack, 2) \in Seq(Value)  BY <1>3, <2>2, DropOK
    <3>4. <<Top, Second>> \in Seq(Value)  BY <3>1
    <3>5. back \in Seq(Value)  BY <3>3, <3>4, ConcatProperties
    <3> QED  BY <3>2, <3>5, AppendProperties
  <2>3. CASE /\ Len(stack) >= 2 /\ stack' = Append(Drop(stack, 2), v) /\ GoOn(ip + 1)
             /\ UNCHANGED <<returns, regs, ram, errors, out>>
    <3>1. v \in Value  BY <2>2, <2>3
    <3> HIDE DEF v, back
    <3> QED  BY <1>1, <2>3, <3>1, ReplaceOK DEF AllOK
  <2>4. CASE /\ Len(stack) >= 2
             /\ stack' = Append(back, v)
             /\ errors' = errors \union {"DIVISION_BY_ZERO"}
             /\ GoOn(ip + 1)
             /\ UNCHANGED <<returns, regs, ram, out>>
    <3>1. ControlOK'  BY <1>1, <1>2, <2>4, EndsOK
    <3>2. StacksOK'  BY <1>3, <2>2, <2>4 DEF StacksOK
    <3>3. MemoryOK'  BY <1>1, <2>4 DEF MemoryOK
    <3> QED  BY <1>1, <2>4, <3>1, <3>2, <3>3 DEF AllOK, ErrorBits
  <2>5. CASE Len(stack) >= 2 /\ stack' = back /\ StackError
    <3>1. ControlOK'  BY <1>1, <2>5, EndsOK DEF StackError
    <3>2. StacksOK'  BY <1>3, <2>2, <2>5 DEF StacksOK, StackError
    <3>3. MemoryOK'  BY <1>1, <2>5 DEF MemoryOK, StackError
    <3> QED  BY <2>5, <3>1, <3>2, <3>3 DEF AllOK, ErrorBits, StackError, Return
  <2> QED  BY <1>13, <2>1, <2>3, <2>4, <2>5 DEF Divide
<1>14. ASSUME SquareRoot PROVE AllOK'
  <2>1. CASE Underflow(1)
    BY <1>1, <2>1, UnderflowOK DEF AllOK
  <2>2. CASE Return(errors \union {"INVALID_COMMAND"}) /\ UNCHANGED <<stack, returns, regs, ram, out>>
    <3>1. ControlOK'  BY <1>1, <2>2, EndsOK
    <3>2. errors' \subseteq ErrorBits  BY <1>1, <2>2 DEF Return, ErrorBits
    <3> QED  BY <2>2, <3>1, <3>2, ControlOnlyOK
  <2>3. CASE /\ Len(stack) >= 1 /\ stack' = Append(Drop(stack, 1), Arith1[<<"SQRT", Top>>])
             /\ GoOn(ip + 1) /\ UNCHANGED <<returns, regs, ram, errors, out>>
    <3>1. Arith1[<<"SQRT", Top>>] \in Value  BY <1>1, <2>3, TopOK, ArithOK
    <3> QED  BY <1>1, <2>3, <3>1, ReplaceOK DEF AllOK
  <2> QED  BY <1>14, <2>1, <2>2, <2>3 DEF SquareRoot
<1>15. ASSUME Compute1 PROVE AllOK'
  <2>1. CASE Underflow(1)
    BY <1>1, <2>1, UnderflowOK DEF AllOK
  <2>2. CASE /\ Len(stack) >= 1 /\ stack' = Append(Drop(stack, 1), Arith1[<<Command, Top>>])
             /\ GoOn(ip + 1) /\ UNCHANGED <<returns, regs, ram, errors, out>>
    <3>1. Command \in Unary  BY <1>15 DEF Compute1, Executing
    <3>2. Arith1[<<Command, Top>>] \in Value  BY <1>1, <2>2, <3>1, TopOK, ArithOK
    <3> QED  BY <1>1, <2>2, <3>2, ReplaceOK DEF AllOK
  <2> QED  BY <1>15, <2>1, <2>2 DEF Compute1
<1>16. ASSUME Jump PROVE AllOK'
  <2>1. Operand \in Int  BY <1>1, <1>16, OperandOK DEF Jump
  <2>2. ControlOK'
    <3>1. CASE Operand >= 0 /\ GoOn(Operand)
      <4>1. Operand \in Nat  BY <2>1, <3>1
      <4> QED  BY <1>1, <3>1, <4>1, EndsOK
    <3>2. CASE Undefined("wild jump")  BY <1>1, <3>2, EndsOK
    <3> QED  BY <1>16, <3>1, <3>2 DEF Jump
  <2> QED  BY <1>1, <1>16, <2>2, ControlOnlyOK DEF Jump, Undefined
<1>17. ASSUME JumpIf PROVE AllOK'
  <2>1. CASE Underflow(2)
    BY <1>1, <2>1, UnderflowOK DEF AllOK
  <2>2. CASE Len(stack) >= 2 /\ ~ Underflow(2)
    <3>1. Operand \in Int  BY <1>1, <1>17, OperandOK DEF JumpIf
    <3>2. Drop(stack, 2) \in Seq(Value)  BY <1>3, <2>2, DropOK
    <3>3. CASE /\ Holds(Command, Second, Top) => Operand >= 0
               /\ stack' = Drop(stack, 2)
               /\ GoOn(IF Holds(Command, Second, Top) THEN Operand ELSE ip + 2)
               /\ UNCHANGED <<returns, regs, ram, errors, out>>
      <4>1. (IF Holds(Command, Second, Top) THEN Operand ELSE ip + 2) \in Nat
        BY <1>2, <3>1, <3>3
      <4>2. ControlOK'  BY <1>1, <3>3, <4>1, EndsOK
      <4> QED  BY <1>1, <1>3, <3>2, <3>3, <4>2 DEF AllOK, StacksOK, MemoryOK
    <3>4. CASE stack' = Drop(stack, 2) /\ Undefined("wild jump") /\ UNCHANGED returns
      <4>1. ControlOK'  BY <1>1, <3>4, EndsOK
      <4> QED  BY <1>1, <1>3, <3>2, <3>4, <4>1 DEF AllOK, StacksOK, MemoryOK, Undefined
    <3> QED  BY <1>17, <2>2, <3>3, <3>4 DEF JumpIf
  <2> QED  BY <1>17, <2>1, <2>2 DEF JumpIf
<1>18. ASSUME Call PROVE AllOK'
  <2>1. Operand \in Int  BY <1>1, <1>18, OperandOK DEF Call
  <2>2. Append(returns, ip + 2) \in Seq(Nat)  BY <1>2, <1>3, AppendProperties
  <2>3. CASE /\ returns' = Append(returns, ip + 2)
             /\ Operand >= 0 /\ GoOn(Operand)
             /\ UNCHANGED <<stack, regs, ram, errors, out>>
    <3>1. Operand \in Nat  BY <2>1, <2>3
    <3>2. ControlOK'  BY <1>1, <2>3, <3>1, EndsOK
    <3> QED  BY <1>1, <1>3, <2>2, <2>3, <3>2 DEF AllOK, StacksOK, MemoryOK
  <2>4. CASE returns' = Append(returns, ip + 2) /\ Undefined("wild jump") /\ UNCHANGED stack
    <3>1. ControlOK'  BY <1>1, <2>4, EndsOK
    <3> QED  BY <1>1, <1>3, <2>2, <2>4, <3>1 DEF AllOK, StacksOK, MemoryOK, Undefined
  <2>5. CASE Return({"STACK_ERROR"}) /\ UNCHANGED <<stack, returns, regs, ram, out>>
    <3>1. ControlOK'  BY <1>1, <2>5, EndsOK
    <3> QED  BY <2>5, <3>1, ControlOnlyOK DEF Return, ErrorBits
  <2> QED  BY <1>18, <2>3, <2>4, <2>5 DEF Call
<1>19. ASSUME Ret PROVE AllOK'
  <2>1. CASE Return({"STACK_ERROR"}) /\ UNCHANGED <<stack, returns, regs, ram, out>>
    <3>1. ControlOK'  BY <1>1, <2>1, EndsOK
    <3> QED  BY <2>1, <3>1, ControlOnlyOK DEF Return, ErrorBits
  <2>2. CASE /\ returns # << >> /\ returns' = Drop(returns, 1)
             /\ GoOn(returns[Len(returns)])
             /\ UNCHANGED <<stack, regs, ram, errors, out>>
    <3>1. Len(returns) \in 1..Len(returns)  BY <1>3, <2>2, EmptySeq
    <3>2. returns[Len(returns)] \in Nat  BY <1>3, <3>1, ElementOfSeq
    <3>3. Drop(returns, 1) \in Seq(Nat)  BY <1>3, <3>1, DropOK
    <3>4. ControlOK'  BY <1>1, <2>2, <3>2, EndsOK
    <3> QED  BY <1>1, <1>3, <2>2, <3>3, <3>4 DEF AllOK, StacksOK, MemoryOK
  <2> QED  BY <1>19, <2>1, <2>2 DEF Ret
<1>20. ASSUME Read PROVE AllOK'
  <2>1. PICK n \in Inputs : PushOn(stack, n, ip + 1)  BY <1>20 DEF Read
  <2>2. n \in Value  BY <2>1, ValueAssumption
  <2> QED  BY <1>1, <1>2, <1>3, <2>1, <2>2, PushOK DEF AllOK
<1>21. ASSUME Reject PROVE AllOK'
  <2>1. ControlOK'  BY <1>1, <1>21 DEF Reject, ControlOK
  <2> QED  BY <1>1, <1>21, <2>1, ControlOnlyOK DEF Reject
<1>22. ASSUME PrintNumber PROVE AllOK'
  <2>1. CASE Underflow(1)
    BY <1>1, <2>1, UnderflowOK DEF AllOK
  <2>2. CASE /\ Len(stack) >= 1 /\ stack' = Drop(stack, 1) /\ GoOn(ip + 1)
             /\ UNCHANGED <<returns, regs, ram, errors>>
    <3>1. Drop(stack, 1) \in Seq(Value)  BY <1>3, <2>2, DropOK
    <3>2. ControlOK'  BY <1>1, <1>2, <2>2, EndsOK
    <3> QED  BY <1>1, <1>3, <2>2, <3>1, <3>2 DEF AllOK, StacksOK, MemoryOK
  <2> QED  BY <1>22, <2>1, <2>2 DEF PrintNumber
<1>23. ASSUME PrintString PROVE AllOK'
  <2>1. CASE Underflow(1)
    BY <1>1, <2>1, UnderflowOK DEF AllOK
  <2>2. CASE /\ Len(stack) >= 1 /\ stack' = Drop(stack, 1)
             /\ GoOn(ip + 1) \/ Undefined("wild read")
             /\ UNCHANGED <<returns, regs, ram, errors>>
    <3>1. Drop(stack, 1) \in Seq(Value)  BY <1>3, <2>2, DropOK
    <3>2. ControlOK'  BY <1>1, <1>2, <2>2, EndsOK
    <3> QED  BY <1>1, <1>3, <2>2, <3>1, <3>2 DEF AllOK, StacksOK, MemoryOK
  <2> QED  BY <1>23, <2>1, <2>2 DEF PrintString, Undefined
<1> QED
  BY <1>4, <1>5, <1>6, <1>7, <1>8, <1>9, <1>10, <1>11, <1>12, <1>13, <1>14, <1>15,
     <1>16, <1>17, <1>18, <1>19, <1>20, <1>21, <1>22, <1>23 DEF Next

(* The types hold at the start. *)
LEMMA InitTypes == Init => AllOK
<1> SUFFICES ASSUME Init PROVE AllOK  OBVIOUS
<1>1. ControlOK  BY DEF Init, ControlOK
<1>2. MemoryOK  BY ValueAssumption DEF Init, MemoryOK
<1>3. StacksOK /\ errors \subseteq ErrorBits  BY DEF Init, StacksOK, ErrorBits
<1> QED  BY <1>1, <1>2, <1>3 DEF AllOK

(* AllOK is TypeOK. *)
LEMMA AllIsType == AllOK <=> TypeOK
BY Parts DEF AllOK

(* Every variable keeps its type: no command writes a register or a cell
   that does not exist, whatever its operand, and no list holds anything
   but values (run_spu).                                                   *)
THEOREM TypesHold == Spec => []TypeOK
<1>1. Init => TypeOK  BY InitTypes, AllIsType
<1>2. TypeOK /\ [Next]_vars => TypeOK'
  <2>1. TypeOK /\ Next => TypeOK'
    <3> SUFFICES ASSUME TypeOK, Next PROVE TypeOK'  OBVIOUS
    <3>1. AllOK'  BY StepTypes, AllIsType
    <3> QED  BY <3>1, Parts DEF AllOK, TypeOK, ControlOK, MemoryOK, StacksOK, ErrorBits
  <2>2. TypeOK /\ UNCHANGED vars => TypeOK'  BY DEF TypeOK, vars
  <2> QED  BY <2>1, <2>2
<1> QED  BY <1>1, <1>2, PTL DEF Spec

-----------------------------------------------------------------------------
Runs == status = "running" /\ ip < Len(code)

(* What a step does to the pointer and to the return addresses.            *)
Rests   == ip' = ip /\ returns' = returns /\ status' \in {status, "returned"}
Stops   == /\ Runs /\ ip' = Reached /\ at' = ip
           /\ returns' = returns /\ status' \in {"returned", "wild read"}
           /\ Command = "PUSH" => status' = "returned" /\ errors' = {"STACK_ERROR"}
Ends    == ip' = Len(code) /\ returns' = returns /\ status' = status
Follows == /\ Runs /\ ip' = ip + Width(Command)
           /\ returns' = returns /\ status' = status
Leads   == /\ Runs /\ Command \in Jumps \union {"CALL"}
           /\ \/ Operand >= 0 /\ ip' = Operand /\ status' = status
              \/ Operand < 0 /\ status' = "wild jump"
           /\ \/ returns' = returns
              \/ Command = "CALL" /\ returns' = Append(returns, ip + 2)
Returns == /\ Runs /\ returns # << >> /\ returns' = Drop(returns, 1)
           /\ ip' = returns[Len(returns)] /\ status' = status
Fetches == /\ Runs /\ Command \in WithOperand /\ ~ HasOperand
           /\ returns' = returns /\ status' = "wild fetch"

(* Every step of a machine that still runs notes the command it executes. *)
LEMMA Notes ==
  ASSUME Next
  PROVE  status = "running" /\ (at' = at \/ (Runs /\ at' = ip))
<1>1. \A e : Return(e) => at' = ip  BY DEF Return
<1>2. \A h : Undefined(h) => at' = ip  BY DEF Undefined
<1>3. \A n : GoOn(n) => at' = ip  BY DEF GoOn
<1>4. StackError => at' = ip  BY <1>1 DEF StackError
<1>5. \A n : Underflow(n) => at' = ip  BY <1>4 DEF Underflow
<1>6. \A s, v, n : PushOn(s, v, n) => at' = ip  BY <1>3, <1>4 DEF PushOn
<1>7. ASSUME Finish \/ Halt \/ Dump \/ Unknown \/ MissingOperand PROVE status = "running" /\ (at' = at \/ (Runs /\ at' = ip))
  BY <1>1, <1>2, <1>3, <1>7 DEF Finish, Halt, Dump, Unknown, MissingOperand, Executing, Runs
<1>8. ASSUME Push \/ Load \/ Read \/ Reject PROVE status = "running" /\ (at' = at \/ (Runs /\ at' = ip))
  BY <1>1, <1>6, <1>8 DEF Push, Load, Read, Reject, Executing, Runs
<1>9. ASSUME Store \/ Compute2 \/ Divide \/ SquareRoot \/ Compute1 PROVE status = "running" /\ (Runs /\ at' = ip)
  BY <1>1, <1>3, <1>4, <1>5, <1>9 DEF Store, Compute2, Divide, SquareRoot, Compute1, Executing, Runs
<1>10. ASSUME Jump \/ JumpIf \/ Call \/ Ret \/ PrintNumber \/ PrintString PROVE status = "running" /\ (Runs /\ at' = ip)
  BY <1>1, <1>2, <1>3, <1>5, <1>10 DEF Jump, JumpIf, Call, Ret, PrintNumber, PrintString, Executing, Runs
<1> QED  BY <1>7, <1>8, <1>9, <1>10 DEF Next

(* Every step is one of these, and none touches the code. *)
LEMMA Moves ==
  ASSUME Next
  PROVE  code' = code /\ (Rests \/ Stops \/ Ends \/ Follows \/ Leads \/ Returns \/ Fetches)
<1>1. ASSUME Runs, NEW s, NEW v, NEW n, PushOn(s, v, n)
      PROVE  code' = code /\ (Stops \/ (ip' = n /\ status' = status /\ returns' = returns))
  BY <1>1 DEF PushOn, GoOn, StackError, Return, Stops
<1>2. ASSUME Runs, NEW n, Underflow(n) PROVE code' = code /\ Stops
  BY <1>2 DEF Underflow, StackError, Return, Stops
<1>22. ASSUME Runs, NEW e, Command # "PUSH" \/ e = {"STACK_ERROR"}, Return(e), UNCHANGED returns
       PROVE  code' = code /\ Stops
  BY <1>22 DEF Return, Stops
<1>23. ASSUME Unknown PROVE code' = code /\ Stops
  <2>1. Runs /\ Command # "PUSH"  BY <1>23 DEF Unknown, Executing, Runs
  <2> QED  BY <1>22, <1>23, <2>1 DEF Unknown
<1>3. ASSUME Finish \/ Halt PROVE code' = code /\ (Rests \/ Ends)
  BY <1>3 DEF Finish, Halt, GoOn, Rests, Ends
<1>4. ASSUME MissingOperand PROVE code' = code /\ (Ends \/ Fetches)
  BY <1>4 DEF MissingOperand, GoOn, Undefined, Ends, Fetches, Executing, Runs
<1>5. Width("PUSH") = 2 /\ Width("PUSHR") = 2 /\ Width("PUSHM") = 2 /\ Width("POPR") = 2 /\ Width("POPM") = 2
  BY DEF Width, WithOperand
<1>6. \A m \in {"IN", "DUMP", "SQRT", "OUT", "PUTS", "DIV"} \union Binary \union Unary : Width(m) = 1
  BY DEF Width, WithOperand, Jumps, ConditionalJumps, Binary, Unary
<1>7. \A m \in ConditionalJumps \union {"JMP"} : m \in Jumps /\ Width(m) = 2
  BY DEF Width, WithOperand, Jumps
<1>8. ASSUME Dump PROVE code' = code /\ Follows
  BY <1>6, <1>8 DEF Dump, GoOn, Follows, Executing, Runs
<1>9. ASSUME Push PROVE code' = code /\ (Stops \/ Follows)
  <2>1. PushOn(stack, Literal[Operand], ip + 2) /\ Runs /\ Command = "PUSH"
    BY <1>9 DEF Push, Executing, Runs
  <2> QED  BY <1>1, <1>5, <2>1 DEF Follows
<1>10. ASSUME Load PROVE code' = code /\ (Stops \/ Follows)
  <2>1. Runs /\ Width(Command) = 2 /\ Command # "PUSH"  BY <1>5, <1>10 DEF Load, Executing, Runs
  <2>2. CASE Return(errors \union {"INVALID_COMMAND"}) /\ UNCHANGED returns
    BY <1>22, <2>1, <2>2
  <2>3. CASE \E v : PushOn(stack, v, ip + 2)
    BY <1>1, <2>1, <2>3 DEF Follows
  <2>4. CASE Operand \in 0..RegsCount - 1
    <3>1. PushOn(stack, IF Command = "PUSHR" THEN regs[Operand] ELSE ram[Operand], ip + 2)
      BY <1>10, <2>4 DEF Load
    <3> QED  BY <2>3, <3>1
  <2>5. CASE Operand \notin 0..RegsCount - 1
    BY <1>10, <2>2, <2>5 DEF Load
  <2> QED  BY <2>4, <2>5
<1>11. ASSUME Store PROVE code' = code /\ (Stops \/ Follows)
  <2>1. Runs /\ Width(Command) = 2 /\ Command # "PUSH"  BY <1>5, <1>11 DEF Store, Executing, Runs
  <2> QED  BY <1>2, <1>11, <1>22, <2>1 DEF Store, GoOn, Follows
<1>12. ASSUME Compute2 \/ Compute1 PROVE code' = code /\ (Stops \/ Follows)
  <2>1. Runs /\ Width(Command) = 1  BY <1>6, <1>12 DEF Compute2, Compute1, Executing, Runs
  <2> QED  BY <1>2, <1>12, <2>1 DEF Compute2, Compute1, GoOn, Follows
<1>13. ASSUME Divide PROVE code' = code /\ (Stops \/ Follows)
  <2>1. Runs /\ Width(Command) = 1  BY <1>6, <1>13 DEF Divide, Executing, Runs
  <2> QED  BY <1>2, <1>13, <1>22, <2>1 DEF Divide, GoOn, StackError, Follows
<1>14. ASSUME SquareRoot PROVE code' = code /\ (Stops \/ Follows)
  <2>1. Runs /\ Width(Command) = 1 /\ Command # "PUSH"  BY <1>6, <1>14 DEF SquareRoot, Executing, Runs
  <2> QED  BY <1>2, <1>14, <1>22, <2>1 DEF SquareRoot, GoOn, Follows
<1>15. ASSUME Jump PROVE code' = code /\ Leads
  <2>1. Runs /\ Command \in Jumps  BY <1>7, <1>15 DEF Jump, Executing, Runs
  <2> QED  BY <1>15, <2>1 DEF Jump, GoOn, Undefined, Leads
<1>16. ASSUME JumpIf PROVE code' = code /\ (Stops \/ Follows \/ Leads)
  <2>1. Runs /\ Command \in Jumps /\ Width(Command) = 2  BY <1>7, <1>16 DEF JumpIf, Executing, Runs
  <2>2. CASE Underflow(2)  BY <1>2, <2>1, <2>2
  <2>3. CASE ~ Underflow(2) /\ Holds(Command, Second, Top)
    BY <1>16, <2>1, <2>3 DEF JumpIf, GoOn, Undefined, Leads
  <2>4. CASE ~ Underflow(2) /\ ~ Holds(Command, Second, Top)
    BY <1>16, <2>1, <2>4 DEF JumpIf, GoOn, Follows
  <2> QED  BY <2>2, <2>3, <2>4
<1>17. ASSUME Call PROVE code' = code /\ (Stops \/ Leads)
  <2>1. Runs /\ Command = "CALL"  BY <1>17 DEF Call, Executing, Runs
  <2>2. CASE Return({"STACK_ERROR"}) /\ UNCHANGED returns  BY <1>22, <2>1, <2>2
  <2> QED  BY <1>17, <2>1, <2>2 DEF Call, GoOn, Undefined, Leads
<1>18. ASSUME Ret PROVE code' = code /\ (Stops \/ Returns)
  <2>1. Runs  BY <1>18 DEF Ret, Executing, Runs
  <2>2. CASE Return({"STACK_ERROR"}) /\ UNCHANGED returns  BY <1>22, <2>1, <2>2
  <2> QED  BY <1>18, <2>1, <2>2 DEF Ret, GoOn, Returns
<1>19. ASSUME Read PROVE code' = code /\ (Stops \/ Follows)
  <2>1. Runs /\ Width(Command) = 1  BY <1>6, <1>19 DEF Read, Executing, Runs
  <2>2. PICK n : PushOn(stack, n, ip + 1)  BY <1>19 DEF Read
  <2> QED  BY <1>1, <2>1, <2>2 DEF Follows
<1>20. ASSUME Reject PROVE code' = code /\ Rests
  BY <1>20 DEF Reject, Rests
<1>21. ASSUME PrintNumber \/ PrintString PROVE code' = code /\ (Stops \/ Follows)
  <2>1. Runs /\ Width(Command) = 1 /\ Command # "PUSH"
    BY <1>6, <1>21 DEF PrintNumber, PrintString, Executing, Runs
  <2> QED  BY <1>2, <1>21, <2>1 DEF PrintNumber, PrintString, GoOn, Undefined, Stops, Follows
<1> QED
  BY <1>3, <1>4, <1>8, <1>9, <1>10, <1>11, <1>12, <1>13, <1>14, <1>15, <1>16, <1>17,
     <1>18, <1>19, <1>20, <1>21, <1>23 DEF Next

(* Where the pointer may rest, and what a return address is.               *)
Place     == /\ at \in Layout[code]
             /\ ip \in Layout[code] \union {Len(code)} \/ EndedOnPush
             /\ status \notin {"wild fetch", "wild jump"}
Behind(r) == \E p \in Layout[code] : /\ p < Len(code) /\ Decode(code[p + 1]) = "CALL"
                                     /\ r = p + 2
AllBehind == \A i \in 1..Len(returns) : Behind(returns[i])
Control   == WellLaidOut => Place /\ AllBehind

(* Control is what the two properties say. *)
LEMMA ControlIs == Control <=> ControlStaysOnCommands /\ ReturnsFollowCalls
BY DEF Control, Place, Behind, AllBehind, ControlStaysOnCommands, ReturnsFollowCalls

(* A running machine whose pointer rests on a command finds it whole. *)
LEMMA OnCommand ==
  ASSUME TypeOK, WellLaidOut, Place, Runs
  PROVE  /\ ip \in Layout[code]
         /\ ip + Width(Command) \in Layout[code]
         /\ ip + Width(Command) <= Len(code)
         /\ Command \in Jumps \union {"CALL"} => Operand \in Layout[code]
<1>1. ip \in Nat /\ Len(code) \in Nat  BY Parts, Places
<1>2. ip < Len(code) /\ ip \in Layout[code]  BY <1>1 DEF Runs, Place, EndedOnPush
<1>3. /\ Layout[code] \subseteq 0..Len(code)
      /\ ip + Width(Command) \in Layout[code]
      /\ Command \in Jumps \union {"CALL"} => Operand \in Layout[code]
  BY <1>2 DEF WellLaidOut, LaidOut, Command, Operand
<1> QED  BY <1>1, <1>2, <1>3

(* Every step keeps the pointer and the return addresses in place. *)
LEMMA StepControl ==
  ASSUME TypeOK, Control, Next
  PROVE  Control'
<1> SUFFICES ASSUME WellLaidOut' PROVE Place' /\ AllBehind'
  BY DEF Control
<1>1. code' = code  BY Moves
<1>2. WellLaidOut  BY <1>1 DEF WellLaidOut
<1>3. Place /\ \A i \in 1..Len(returns) : Behind(returns[i])  BY <1>2 DEF Control, AllBehind
<1>4. (\A i \in 1..Len(returns') : Behind(returns'[i])) => AllBehind'
  BY <1>1 DEF Behind, AllBehind
<1>5. returns \in Seq(Nat) /\ ip \in Nat /\ Len(code) \in Nat
  BY Parts, Places DEF StacksOK
<1>6. Layout[code] \subseteq 0..Len(code)  BY <1>2 DEF WellLaidOut, LaidOut
<1>7. returns' = returns => AllBehind'  BY <1>3, <1>4
<1>14. /\ status = "running"
       /\ ip \in Layout[code] \union {Len(code)}
       /\ at' \in Layout[code]'
  <2>1. status = "running" /\ (at' = at \/ (Runs /\ at' = ip))  BY Notes
  <2>2. at \in Layout[code] /\ (Runs => ip \in Layout[code])  BY <1>2, <1>3, OnCommand DEF Place
  <2> QED  BY <1>1, <1>3, <2>1, <2>2 DEF Place, EndedOnPush
<1>8. CASE Rests
  BY <1>1, <1>7, <1>8, <1>14 DEF Rests, Place
<1>15. CASE Stops
  <2>1. /\ Runs /\ ip' = Reached /\ at' = ip /\ status' \in {"returned", "wild read"}
        /\ Command = "PUSH" => status' = "returned" /\ errors' = {"STACK_ERROR"}
    BY <1>15 DEF Stops
  <2>2. ip + Width(Command) \in Layout[code]  BY <1>2, <1>3, <2>1, OnCommand
  <2>3. CASE Command # "PUSH"
    BY <1>1, <1>7, <1>14, <1>15, <2>1, <2>2, <2>3 DEF Stops, Reached, Place
  <2>4. CASE Command = "PUSH"
    <3>1. EndedOnPush'
      BY <1>1, <2>1, <2>4 DEF EndedOnPush, Reached, Command
    <3> QED  BY <1>7, <1>14, <1>15, <2>1, <3>1 DEF Stops, Place
  <2> QED  BY <2>3, <2>4
<1>9. CASE Ends
  BY <1>1, <1>7, <1>9, <1>14 DEF Ends, Place
<1>10. CASE Follows
  <2>1. ip' \in Layout[code]  BY <1>2, <1>3, <1>10, OnCommand DEF Follows
  <2> QED  BY <1>1, <1>7, <1>10, <1>14, <2>1 DEF Follows, Place
<1>11. CASE Leads
  <2>1. Operand \in Layout[code] /\ ip \in Layout[code]  BY <1>2, <1>3, <1>11, OnCommand DEF Leads
  <2>2. Operand \in Int /\ ~ (Operand < 0)  BY <1>5, <1>6, <2>1
  <2>3. Place'
    <3>1. ip' = Operand /\ status' = status  BY <1>11, <2>2 DEF Leads
    <3> QED  BY <1>1, <1>14, <2>1, <3>1 DEF Place
  <2>4. CASE Command = "CALL" /\ returns' = Append(returns, ip + 2)
    <3>1. Behind(ip + 2)  BY <1>11, <2>1, <2>4 DEF Leads, Runs, Behind, Command
    <3>2. ip + 2 \in Nat  BY <1>5
    <3>3. /\ Len(returns') = Len(returns) + 1
          /\ \A i \in 1..Len(returns) : returns'[i] = returns[i]
          /\ returns'[Len(returns) + 1] = ip + 2
      BY <1>5, <2>4, <3>2, AppendProperties
    <3>4. ASSUME NEW i \in 1..Len(returns') PROVE Behind(returns'[i])
      <4>1. Len(returns) \in Nat  BY <1>5
      <4>2. i \in 1..Len(returns) \/ i = Len(returns) + 1  BY <3>3, <4>1
      <4> QED  BY <1>3, <3>1, <3>3, <4>2
    <3> QED  BY <1>4, <2>3, <3>4
  <2> QED  BY <1>7, <1>11, <2>3, <2>4 DEF Leads
<1>12. CASE Returns
  <2>1. Len(returns) \in 1..Len(returns)  BY <1>5, <1>12, EmptySeq DEF Returns
  <2>2. Behind(returns[Len(returns)])  BY <1>3, <2>1
  <2>3. PICK p \in Layout[code] : /\ p < Len(code) /\ Decode(code[p + 1]) = "CALL"
                                  /\ returns[Len(returns)] = p + 2
    BY <2>2 DEF Behind
  <2>4. p + Width("CALL") \in Layout[code]  BY <1>2, <2>3 DEF WellLaidOut, LaidOut
  <2>5. Width("CALL") = 2  BY DEF Width, WithOperand
  <2>6. Place'  BY <1>1, <1>12, <1>14, <2>3, <2>4, <2>5 DEF Returns, Place
  <2>7. 1 \in Nat /\ 1 <= Len(returns) /\ Len(returns) \in Nat  BY <1>5, <2>1
  <2>8. /\ Len(returns') = Len(returns) - 1
        /\ \A i \in 1..Len(returns) - 1 : returns'[i] = returns[i]
    BY <1>5, <1>12, <2>7, DropOK DEF Returns
  <2>9. ASSUME NEW i \in 1..Len(returns') PROVE Behind(returns'[i])
    <3>1. i \in 1..Len(returns) /\ returns'[i] = returns[i]  BY <2>7, <2>8
    <3> QED  BY <1>3, <3>1
  <2> QED  BY <1>4, <2>6, <2>9
<1>13. CASE Fetches
  <2>1. Runs /\ Width(Command) = 2 /\ ~ HasOperand  BY <1>13 DEF Fetches, Width
  <2>2. ip + 2 <= Len(code)  BY <1>2, <1>3, <2>1, OnCommand
  <2>3. HasOperand  BY <1>5, <2>2 DEF HasOperand
  <2> QED  BY <2>1, <2>3
<1> QED  BY <1>8, <1>9, <1>10, <1>11, <1>12, <1>13, <1>15, Moves

(* TypeOK and Control are inductive together. *)
LEMMA ControlInvariant == Spec => [](TypeOK /\ Control)
<1>1. Init => TypeOK /\ Control
  <2> SUFFICES ASSUME Init PROVE TypeOK /\ Control  OBVIOUS
  <2>1. TypeOK  BY InitTypes, AllIsType
  <2>2. ASSUME WellLaidOut PROVE Place /\ returns = << >>
    <3>1. 0 \in Layout[code]  BY <2>2 DEF WellLaidOut, LaidOut
    <3> QED  BY <3>1 DEF Init, Place
  <2> QED  BY <2>1, <2>2 DEF Control, AllBehind
<1>2. TypeOK /\ Control /\ [Next]_vars => Control'
  <2>1. TypeOK /\ Control /\ UNCHANGED vars => Control'
    BY DEF vars, Control, WellLaidOut, Place, EndedOnPush, Behind, AllBehind
  <2> QED  BY <2>1, StepControl
<1> QED  BY <1>1, <1>2, TypesHold, PTL DEF Spec

(* Whatever the values a program computes, a run of code the assembler laid
   out stays on its commands: no jump, call or return leads into an operand
   and no operand is fetched behind the end (run_spu's instructor_ptr).  Of
   the ways to end only a PUSH that the stack refuses leaves the pointer on
   an operand, which is not executed (spu.cpp:62, 75-77).                  *)
THEOREM ControlFlowIntegrity == Spec => []ControlStaysOnCommands
<1>1. TypeOK /\ Control => ControlStaysOnCommands  BY ControlIs
<1> QED  BY <1>1, ControlInvariant, PTL

(* Every return address on the second stack is the place behind a CALL,
   whatever calls and returns came before (run_spu, CALL and RET).         *)
THEOREM ReturnAddresses == Spec => []ReturnsFollowCalls
<1>1. TypeOK /\ Control => ReturnsFollowCalls  BY ControlIs
<1> QED  BY <1>1, ControlInvariant, PTL

(* No command takes a recorded error back, with the one exception that the
   macro makes: it assigns its own bit, so that the stack error that ends a
   run is all the run reports (spu.cpp:18, IF_THERE_IS_STACK_ERROR).       *)
THEOREM ErrorsAreKept == Spec => ErrorsStick
<1> DEFINE Kept == errors \subseteq errors' \/ LostToStackError
<1>1. ASSUME Next PROVE Kept
  <2>1. \A e : Return(e) => status' = "returned" /\ errors' = e  BY DEF Return
  <2>2. StackError => Kept  BY <2>1 DEF StackError, LostToStackError
  <2>3. Return({"STACK_ERROR"}) => Kept  BY <2>1 DEF LostToStackError
  <2>4. \A b : Return(errors \union b) => Kept
    <3>1. TAKE b
    <3>2. Return(errors \union b) => errors' = errors \union b  BY <2>1
    <3> QED  BY <3>2
  <2>5. \A n : Underflow(n) => Kept  BY <2>2 DEF Underflow
  <2>6. UNCHANGED errors => Kept  OBVIOUS
  <2>7. \A s, v, n : PushOn(s, v, n) => Kept  BY <2>2, <2>6 DEF PushOn
  <2>8. \A h : Undefined(h) => Kept  BY <2>6 DEF Undefined
  <2>9. \A b : errors' = errors \union b => Kept  OBVIOUS
  <2> HIDE DEF Kept
  <2>10. ASSUME Finish \/ Halt \/ Dump \/ Unknown \/ MissingOperand PROVE Kept
    BY <2>4, <2>6, <2>8, <2>9, <2>10 DEF Finish, Halt, Dump, Unknown, MissingOperand
  <2>11. ASSUME Push \/ Load \/ Read PROVE Kept
    BY <2>4, <2>7, <2>11 DEF Push, Load, Read
  <2>12. ASSUME Store \/ Compute2 \/ Divide \/ SquareRoot \/ Compute1 PROVE Kept
    BY <2>2, <2>4, <2>5, <2>6, <2>9, <2>12 DEF Store, Compute2, Divide, SquareRoot, Compute1
  <2>13. ASSUME Jump \/ JumpIf \/ Call \/ Ret PROVE Kept
    BY <2>3, <2>5, <2>6, <2>8, <2>13 DEF Jump, JumpIf, Call, Ret
  <2>14. ASSUME Reject \/ PrintNumber \/ PrintString PROVE Kept
    BY <2>5, <2>6, <2>8, <2>14 DEF Reject, PrintNumber, PrintString
  <2> QED  BY <1>1, <2>10, <2>11, <2>12, <2>13, <2>14 DEF Next
<1>2. [Next]_vars => [Kept]_vars  BY <1>1 DEF vars
<1> QED  BY <1>2, PTL DEF Spec, ErrorsStick
=============================================================================
