------------------------------ MODULE Encoding ------------------------------
(***************************************************************************)
(* What the processor makes of a section: a decoder for the instructions   *)
(* the emitters know, written from the instruction set and not from the    *)
(* emitters, and which calls of the emitters it understands as they were   *)
(* meant.                                                                  *)
(***************************************************************************)
EXTENDS Section

At(b, i) == IF i \in DOMAIN b THEN b[i] ELSE 0

(* Little-endian integers of one and four bytes, with their sign.  Of an
   immediate of eight bytes the upper half is the sign of the lower one.   *)
Signed8(b, i)  == IF At(b, i) > 127 THEN At(b, i) - 256 ELSE At(b, i)
Signed32(b, i) == At(b, i) + 256 * At(b, i + 1) + 65536 * At(b, i + 2) + 16777216 * Signed8(b, i + 3)

(* The fields in front of the opcode: a mandatory prefix, then REX, which
   counts only directly in front of the opcode.                            *)
Prefix(b)    == IF At(b, 1) \in {102, 242} THEN At(b, 1) ELSE 0
RexPlace(b)  == IF Prefix(b) = 0 THEN 1 ELSE 2
Rex(b)       == IF At(b, RexPlace(b)) \in 64..79 THEN At(b, RexPlace(b)) - 64 ELSE 0
HasRex(b)    == At(b, RexPlace(b)) \in 64..79
W(b)         == Rex(b) \div 8
R(b)         == (Rex(b) \div 4) % 2
B(b)         == Rex(b) % 2
OpPlace(b)   == IF HasRex(b) THEN RexPlace(b) + 1 ELSE RexPlace(b)

Bad(n) == [ins |-> <<"?">>, len |-> n]
Ins(i, n) == [ins |-> i, len |-> n]

(* ModRM at place m: the register in the middle field, and the operand in
   the other two: a register, or memory with a base and a displacement.    *)
Mod(b, m)  == At(b, m) \div 64
Reg(b, m)  == ((At(b, m) \div 8) % 8) + 8 * R(b)
Rm(b, m)   == (At(b, m) % 8) + 8 * B(b)

Displacement(b, m) ==
  CASE Mod(b, m) = 0 -> 0
    [] Mod(b, m) = 1 -> Signed8(b, m + 1)
    [] Mod(b, m) = 2 -> Signed32(b, m + 1)

DisplacementLen(b, m) == CASE Mod(b, m) = 0 -> 0 [] Mod(b, m) = 1 -> 1 [] Mod(b, m) = 2 -> 4

(* A base of 4 announces a SIB byte, a base of 5 without displacement is
   the instruction pointer: neither is an operand an emitter means.        *)
PlainMemory(b, m) ==
  Mod(b, m) # 3 /\ At(b, m) % 8 # 4 /\ ~(Mod(b, m) = 0 /\ At(b, m) % 8 = 5)

Jumps == [j \in {235, 116, 117, 127, 125, 124, 126} |->
            CASE j = 235 -> "jmp" [] j = 116 -> "je" [] j = 117 -> "jne" [] j = 127 -> "jg"
              [] j = 125 -> "jge" [] j = 124 -> "jl" [] j = 126 -> "jle"]

OneByte == [o \in {195, 144, 204} |-> CASE o = 195 -> "ret" [] o = 144 -> "nop" [] o = 204 -> "int3"]

RegReg == [o \in {137, 57, 1, 41} |->
             CASE o = 137 -> "mov" [] o = 57 -> "cmp" [] o = 1 -> "add" [] o = 41 -> "sub"]

DecodeGeneral(b) ==
  LET p == OpPlace(b)  op == At(b, p)  m == p + 1 IN
  CASE op \in 80..87   -> Ins(<<"push", op - 80 + 8 * B(b)>>, p)
    [] op \in 88..95   -> Ins(<<"pop", op - 88 + 8 * B(b)>>, p)
    [] op \in DOMAIN OneByte -> Ins(<<OneByte[op]>>, p)
    [] op \in DOMAIN Jumps   -> Ins(<<Jumps[op], Signed8(b, m)>>, m)
    [] op = 232        -> Ins(<<"call", Signed32(b, m)>>, p + 4)
    [] op = 233        -> Ins(<<"jmp", Signed32(b, m)>>, p + 4)
    [] op = 15 /\ At(b, m) = 5 -> Ins(<<"syscall">>, m)
    [] op \in 184..191 /\ W(b) = 1 -> Ins(<<"mov_i", op - 184 + 8 * B(b), Signed32(b, m)>>, p + 8)
    [] op = 131 /\ W(b) = 1 /\ Mod(b, m) = 3 /\ Reg(b, m) \in {0, 5} ->
         Ins(<<IF Reg(b, m) = 5 THEN "sub_i" ELSE "add_i", Rm(b, m), Signed8(b, m + 1)>>, m + 1)
    [] op = 129 /\ W(b) = 1 /\ Mod(b, m) = 3 /\ Reg(b, m) \in {0, 5} ->
         Ins(<<IF Reg(b, m) = 5 THEN "sub_i" ELSE "add_i", Rm(b, m), Signed32(b, m + 1)>>, m + 4)
    [] op \in DOMAIN RegReg /\ W(b) = 1 /\ Mod(b, m) = 3 -> Ins(<<RegReg[op], Rm(b, m), Reg(b, m)>>, m)
    [] op = 247 /\ W(b) = 1 /\ Mod(b, m) = 3 /\ Reg(b, m) \in {4, 6} ->
         Ins(<<IF Reg(b, m) = 4 THEN "mul" ELSE "div", 0, Rm(b, m)>>, m)
    [] OTHER -> Bad(p)

SseRegReg == [o \in {88, 92, 89, 94} |->
                CASE o = 88 -> "addsd" [] o = 92 -> "subsd" [] o = 89 -> "mulsd" [] o = 94 -> "divsd"]

DecodeSse(b) ==
  LET p == OpPlace(b)  op == At(b, p + 1)  m == p + 2 IN
  CASE At(b, p) # 15 -> Bad(p)
    [] Prefix(b) = 102 /\ op \in {87, 47} /\ Mod(b, m) = 3 ->
         Ins(<<IF op = 87 THEN "xorpd" ELSE "comisd", Reg(b, m), Rm(b, m)>>, m)
    [] Prefix(b) = 242 /\ op \in DOMAIN SseRegReg /\ Mod(b, m) = 3 ->
         Ins(<<SseRegReg[op], Reg(b, m), Rm(b, m)>>, m)
    [] Prefix(b) = 242 /\ op \in {42, 45} /\ W(b) = 1 /\ Mod(b, m) = 3 ->
         Ins(<<IF op = 42 THEN "cvtsi2sd" ELSE "cvtsd2si", Reg(b, m), Rm(b, m)>>, m)
    [] Prefix(b) = 242 /\ op = 16 /\ Mod(b, m) = 3 -> Ins(<<"movsd", Reg(b, m), Rm(b, m)>>, m)
    [] Prefix(b) = 242 /\ op = 16 /\ PlainMemory(b, m) ->
         Ins(<<"load", Reg(b, m), Rm(b, m), Displacement(b, m)>>, m + DisplacementLen(b, m))
    [] Prefix(b) = 242 /\ op = 17 /\ PlainMemory(b, m) ->
         Ins(<<"store", Rm(b, m), Displacement(b, m), Reg(b, m)>>, m + DisplacementLen(b, m))
    [] OTHER -> Bad(p)

Decode(b) == IF Prefix(b) = 0 THEN DecodeGeneral(b) ELSE DecodeSse(b)

(* The instructions of b from place i on, given those from every later
   place; an encoding the processor does not know, or one that is cut off,
   ends them.                                                              *)
ReadOn(b, i, rest) ==
  IF i > Len(b) THEN << >>
  ELSE LET d == Decode(SubSeq(b, i, Len(b))) IN
       IF d.ins = <<"?">> \/ i + d.len > Len(b) + 1 THEN <<<<"?">>>>
       ELSE <<d.ins>> \o rest[i + d.len]

Readings(b) == LET reading[i \in 1..Len(b) + 1] == ReadOn(b, i, reading) IN reading

(* The instructions of a byte sequence, one behind the other.              *)
Instructions(b) == Readings(b)[1]

-----------------------------------------------------------------------------
(* Two registers whose REX bits come out right: the one in the middle field
   of ModRM needs R, the other B, and add, sub and cmp set them crosswise. *)
SameHalf(a, b) == Extended(a) = Extended(b)

Low(x) == ~Extended(x)

(* The calls whose encoding means what the call says.  Outside are: a mov
   between different registers, which is encoded the other way round;
   arithmetic between a low and an extended register; a conversion, whose
   REX stands behind the opcode; a memory operand on an extended base, for
   the same reason, on rsp, which needs a SIB byte, or on rbp without a
   displacement; SSE registers above 7, of which the upper bit is lost;
   movsd to another register than xmm0; and what needs more than 32 bits
   with its sign: a frame (uint32_t) or the address of a call (int64_t).   *)
Encodable(i) ==
  CASE i[1] = "mov"                  -> i[2] = i[3]
    [] i[1] \in {"sub_i", "add_i"}   -> i[3] \in Int32
    [] i[1] \in {"call", "jmp"}      -> i[2] \in Int32
    [] i[1] \in {"cmp", "add", "sub"} -> SameHalf(i[2], i[3])
    [] i[1] \in {"div", "mul"}       -> i[2] = 0
    [] i[1] \in {"cvtsi2sd", "cvtsd2si"} -> FALSE
    [] i[1] = "movsd"                -> i[2] = 0 /\ Low(i[3])
    [] i[1] = "load"  -> Low(i[2]) /\ Low(i[3]) /\ i[3] # 4 /\ ~(i[3] = 5 /\ i[4] = 0)
    [] i[1] = "store" -> Low(i[4]) /\ Low(i[2]) /\ i[2] # 4 /\ ~(i[2] = 5 /\ i[3] = 0)
    [] i[1] \in DOMAIN XmmOpcodes    -> Low(i[2]) /\ Low(i[3])
    [] OTHER -> TRUE

(* Where every call can be encoded, the processor reads back exactly the
   instructions that were asked for, in their order and none across the
   border of another: no form, of whatever length, is chosen for an operand
   it cannot hold.  Where one call was made that cannot be encoded, the
   processor reads something else.                                         *)
DecodesToWhatWasAsked ==
  (phase = "live" /\ pending = << >>) =>
    /\ (\A k \in DOMAIN asked : Encodable(asked[k])) => Instructions(Contents) = asked
    /\ (Len(asked) = 1 /\ ~Encodable(asked[1])) => Instructions(Contents) # asked
=============================================================================
