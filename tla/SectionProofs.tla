--------------------------- MODULE SectionProofs ---------------------------
(***************************************************************************)
(* Proofs about Section for all capacities, registers and operands: every  *)
(* emitter hands over bytes, the section never leaves its block, the       *)
(* growing array implements the append-only sequence of AbstractSection,   *)
(* and the processor reads back what the emitters were asked for.          *)
(***************************************************************************)
EXTENDS Encoding, Induction, SequenceTheorems

Writes == Seq(Seq(Byte))

(* A write of one byte, and of the bytes of an integer.                    *)
LEMMA AByte == \A b \in Byte : EMIT(b) \in Writes
  BY DEF EMIT, Writes

LEMMA IntegerBytes == \A n \in Int, len \in Nat : emit_bytes(n, len) \in Writes
<1> SUFFICES ASSUME NEW n \in Int, NEW len \in Nat PROVE emit_bytes(n, len) \in Writes
  OBVIOUS
<1>1. \A k \in Nat : ByteOf(n, k) \in Byte
  BY DEF ByteOf, Byte
<1>2. \A i \in 1..len : ByteOf(n, i - 1) \in Byte
  BY <1>1
<1>3. [i \in 1..len |-> ByteOf(n, i - 1)] \in Seq(Byte)
  BY <1>2
<1> QED BY <1>3 DEF emit_bytes, Writes

LEMMA Concatenation == \A s, t \in Writes : s \o t \in Writes
  BY DEF Writes

(* What the fields of an instruction are put together from is a byte.      *)
LEMMA Fields ==
  /\ \A r \in 0..15 : RegCode(r) \in 0..7
  /\ \A m \in 0..3, a, b \in 0..15 : ModRM(m, a, b) \in Byte
  /\ \A a, b \in 0..15 : 192 + OrCodes(a, b) \in Byte
  /\ \A n \in Int : n % 256 \in Byte
<1>1. \A r \in 0..15 : RegCode(r) \in 0..7
  BY DEF RegCode
<1>2. \A m \in 0..3, a, b \in 0..15 : ModRM(m, a, b) \in Byte
  BY DEF ModRM, RegCode, Byte
<1>3. \A a, b \in 0..15 : 192 + OrCodes(a, b) \in Byte
  BY DEF OrCodes, Byte
<1>4. \A n \in Int : n % 256 \in Byte
  BY DEF Byte
<1> QED BY <1>1, <1>2, <1>3, <1>4

(* So is the prefix.                                                       *)
LEMMA Prefixes ==
  ASSUME NEW a \in 0..15, NEW b \in 0..15
  PROVE  /\ EMIT(make_rex(Extended(a), Extended(b))) \in Writes
         /\ EMIT(make_rex(FALSE, Extended(b))) \in Writes
         /\ EMIT(make_rex(Extended(a), FALSE)) \in Writes
<1>1. make_rex(Extended(a), Extended(b)) \in Byte
  BY DEF make_rex, Extended, Byte
<1>2. make_rex(FALSE, Extended(b)) \in Byte
  BY DEF make_rex, Extended, Byte
<1>3. make_rex(Extended(a), FALSE) \in Byte
  BY DEF make_rex, Extended, Byte
<1> QED BY <1>1, <1>2, <1>3, AByte

(* Every emitter hands over a sequence of byte sequences: no field of an
   instruction overflows the byte it is stored in.                         *)
LEMMA StackWrites ==
  /\ \A r \in 0..15 : emit_push(r) \in Writes /\ emit_pop(r) \in Writes
  /\ \A n \in Nat : emit_sub_rsp(n) \in Writes /\ emit_add_rsp(n) \in Writes
<1>1. \A o \in {80, 88}, r \in 0..15 : WithRegister(o, r) \in Writes
  <2> SUFFICES ASSUME NEW o \in {80, 88}, NEW r \in 0..15 PROVE WithRegister(o, r) \in Writes
    OBVIOUS
  <2>1. 65 \in Byte /\ o + RegCode(r) \in Byte
    BY DEF Byte, RegCode
  <2>3. EMIT(65) \in Writes /\ EMIT(o + RegCode(r)) \in Writes
    BY <2>1, AByte
  <2>2. ~Extended(r) => EMIT(o + r) \in Writes
    BY AByte DEF Extended, Byte
  <2> QED BY <2>2, <2>3, Concatenation DEF WithRegister
<1>2. \A f \in {196, 236}, n \in Nat : MoveRsp(f, n) \in Writes
  <2> SUFFICES ASSUME NEW f \in {196, 236}, NEW n \in Nat PROVE MoveRsp(f, n) \in Writes
    OBVIOUS
  <2>1. EMIT(72) \in Writes /\ EMIT(131) \in Writes /\ EMIT(129) \in Writes /\ EMIT(f) \in Writes
    BY AByte DEF Byte
  <2>2. n < 128 => EMIT(n) \in Writes
    BY AByte DEF Byte
  <2>3. emit_bytes(n, 4) \in Writes
    BY IntegerBytes
  <2> QED BY <2>1, <2>2, <2>3, Concatenation DEF MoveRsp
<1>3. << >> \in Writes
  BY DEF Writes
<1> QED BY <1>1, <1>2, <1>3 DEF emit_push, emit_pop, emit_sub_rsp, emit_add_rsp

LEMMA TransferWrites ==
  /\ \A n \in Int : emit_call(n) \in Writes /\ emit_jmp_rel32(n) \in Writes
  /\ \A j \in DOMAIN Rel8Opcodes, n \in Int : emit_rel8(Rel8Opcodes[j], n) \in Writes
  /\ emit_ret \in Writes /\ emit_syscall \in Writes /\ emit_nop \in Writes /\ emit_int3 \in Writes
<1>1. \A n \in Int : emit_bytes(n, 4) \in Writes
  BY IntegerBytes
<1>2. EMIT(232) \in Writes /\ EMIT(233) \in Writes
  BY AByte DEF Byte
<1>3. \A j \in DOMAIN Rel8Opcodes, n \in Int : emit_rel8(Rel8Opcodes[j], n) \in Writes
  <2> SUFFICES ASSUME NEW j \in DOMAIN Rel8Opcodes, NEW n \in Int
               PROVE  emit_rel8(Rel8Opcodes[j], n) \in Writes
    OBVIOUS
  <2>1. Rel8Opcodes[j] \in Byte
    BY DEF Rel8Opcodes, Byte
  <2>2. EMIT(Rel8Opcodes[j]) \in Writes /\ EMIT(n % 256) \in Writes
    BY <2>1, AByte, Fields
  <2> QED BY <2>2, Concatenation DEF emit_rel8
<1>4. emit_ret \in Writes /\ emit_nop \in Writes /\ emit_int3 \in Writes
  BY AByte DEF emit_ret, emit_nop, emit_int3, Byte
<1>5. EMIT(15) \in Writes /\ EMIT(5) \in Writes
  BY AByte DEF Byte
<1> QED BY <1>1, <1>2, <1>3, <1>4, <1>5, Concatenation DEF emit_call, emit_jmp_rel32, emit_syscall

LEMMA RegisterWrites ==
  ASSUME NEW a \in 0..15, NEW b \in 0..15
  PROVE  /\ emit_move_rr(a, b) \in Writes
         /\ \A o \in DOMAIN RROpcodes : emit_rr(RROpcodes[o], a, b) \in Writes
         /\ emit_div_rr(a, b) \in Writes /\ emit_mul_rr(a, b) \in Writes
         /\ \A n \in Int : emit_mov_ri(a, n) \in Writes
<1>1. /\ EMIT(make_rex(Extended(a), Extended(b))) \in Writes
      /\ EMIT(make_rex(FALSE, Extended(a))) \in Writes
      /\ EMIT(make_rex(FALSE, Extended(b))) \in Writes
  BY Prefixes
<1>2. /\ EMIT(ModRM(3, a, b)) \in Writes /\ EMIT(ModRM(3, b, a)) \in Writes
      /\ EMIT(ModRM(3, 4, b)) \in Writes /\ EMIT(ModRM(3, 6, b)) \in Writes
  BY AByte, Fields
<1>3. EMIT(137) \in Writes /\ EMIT(247) \in Writes /\ EMIT(184 + RegCode(a)) \in Writes
  <2>1. 137 \in Byte /\ 247 \in Byte /\ 184 + RegCode(a) \in Byte
    BY DEF Byte, RegCode
  <2> QED BY <2>1, AByte
<1>4. \A o \in DOMAIN RROpcodes : EMIT(RROpcodes[o]) \in Writes
  <2>1. \A o \in DOMAIN RROpcodes : RROpcodes[o] \in Byte
    BY DEF RROpcodes, Byte
  <2> QED BY <2>1, AByte
<1>5. \A n \in Int : emit_bytes(n, 8) \in Writes
  BY IntegerBytes
<1>6. emit_move_rr(a, b) \in Writes
  BY <1>1, <1>2, <1>3, Concatenation DEF emit_move_rr
<1>7. \A o \in DOMAIN RROpcodes : emit_rr(RROpcodes[o], a, b) \in Writes
  BY <1>1, <1>2, <1>4, Concatenation DEF emit_rr
<1>8. emit_div_rr(a, b) \in Writes /\ emit_mul_rr(a, b) \in Writes
  BY <1>1, <1>2, <1>3, Concatenation DEF emit_div_rr, emit_mul_rr, emit_unary
<1>9. \A n \in Int : emit_mov_ri(a, n) \in Writes
  BY <1>1, <1>3, <1>5, Concatenation DEF emit_mov_ri
<1> QED BY <1>6, <1>7, <1>8, <1>9

LEMMA XmmWrites ==
  ASSUME NEW x \in 0..15, NEW y \in 0..15
  PROVE  /\ emit_movsd(x, y) \in Writes
         /\ \A o \in DOMAIN XmmOpcodes : emit_xmm_xmm(XmmOpcodes[o][1], XmmOpcodes[o][2], x, y) \in Writes
         /\ emit_cvtsi2sd(x, y) \in Writes /\ emit_cvtsd2si(x, y) \in Writes
         /\ \A d \in Int : emit_movsd_rm(x, y, d) \in Writes /\ emit_movsd_mr(y, d, x) \in Writes
<1>1. \A b \in {15, 16, 17, 42, 45, 65, 242} : EMIT(b) \in Writes
  BY AByte DEF Byte
<1>2. \A m \in 0..3 : EMIT(ModRM(m, x, y)) \in Writes
  BY AByte, Fields
<1>3. emit_movsd(x, y) \in Writes
  <2>1. EMIT(192 + OrCodes(x, y)) \in Writes
    BY AByte, Fields
  <2> QED BY <1>1, <2>1, Concatenation DEF emit_movsd
<1>4. \A o \in DOMAIN XmmOpcodes : emit_xmm_xmm(XmmOpcodes[o][1], XmmOpcodes[o][2], x, y) \in Writes
  <2>1. \A o \in DOMAIN XmmOpcodes : XmmOpcodes[o][1] \in Byte /\ XmmOpcodes[o][2] \in Byte
    BY DEF XmmOpcodes, Byte
  <2>2. \A o \in DOMAIN XmmOpcodes : EMIT(XmmOpcodes[o][1]) \in Writes /\ EMIT(XmmOpcodes[o][2]) \in Writes
    BY <2>1, AByte
  <2> QED BY <1>1, <1>2, <2>2, Concatenation DEF emit_xmm_xmm
<1>5. emit_cvtsi2sd(x, y) \in Writes /\ emit_cvtsd2si(x, y) \in Writes
  <2>1. EMIT(make_rex(FALSE, Extended(y))) \in Writes /\ EMIT(make_rex(Extended(x), FALSE)) \in Writes
    BY Prefixes
  <2>4. EMIT(ModRM(3, x, y)) \in Writes
    BY <1>2
  <2>5. /\ EMIT(242) \o EMIT(15) \o EMIT(42) \in Writes
        /\ EMIT(242) \o EMIT(15) \o EMIT(45) \in Writes
    BY <1>1, Concatenation
  <2>2. emit_cvtsi2sd(x, y) \in Writes
    BY <2>1, <2>4, <2>5, Concatenation DEF emit_cvtsi2sd
  <2>3. emit_cvtsd2si(x, y) \in Writes
    BY <2>1, <2>4, <2>5, Concatenation DEF emit_cvtsd2si
  <2> QED BY <2>2, <2>3
<1>6. \A o \in {16, 17}, d \in Int : movsd(o, x, y, d) \in Writes
  <2> SUFFICES ASSUME NEW o \in {16, 17}, NEW d \in Int PROVE movsd(o, x, y, d) \in Writes
    OBVIOUS
  <2> DEFINE opcode == EMIT(242) \o EMIT(15) \o EMIT(o)
             rex == IF Extended(y) THEN EMIT(65) ELSE << >>
             operand == IF d = 0 THEN EMIT(ModRM(0, x, y))
                        ELSE IF d \in -128..127 THEN EMIT(ModRM(1, x, y)) \o EMIT(d % 256)
                        ELSE EMIT(ModRM(2, x, y)) \o emit_bytes(d, 4)
  <2>1. opcode \in Writes
    BY <1>1, Concatenation
  <2>2. rex \in Writes
    BY <1>1 DEF Writes
  <2>3. operand \in Writes
    <3>1. EMIT(d % 256) \in Writes /\ emit_bytes(d, 4) \in Writes
      BY AByte, Fields, IntegerBytes
    <3> QED BY <1>2, <3>1, Concatenation
  <2>4. movsd(o, x, y, d) = opcode \o rex \o operand
    BY DEF movsd
  <2> HIDE DEF opcode, rex, operand
  <2> QED BY <2>1, <2>2, <2>3, <2>4, Concatenation
<1> QED BY <1>3, <1>4, <1>5, <1>6 DEF emit_movsd_rm, emit_movsd_mr

-----------------------------------------------------------------------------
(* A call of an emitter leaves writes of bytes to be made.                 *)
LEMMA CallsWriteBytes == Call => pending' \in Writes
<1> SUFFICES ASSUME Call PROVE pending' \in Writes
  OBVIOUS
<1>0. /\ Frames \subseteq Nat /\ Displacements \subseteq Int /\ Immediates \subseteq Int
      /\ Longs \subseteq Int /\ Shorts \subseteq Int
  BY NumberAssumption DEF Int32
<1>1. CASE OnStack
  BY <1>0, <1>1, RegisterAssumption, StackWrites DEF OnStack, Emit
<1>2. CASE Transfer
  BY <1>0, <1>2, TransferWrites DEF Transfer, Emit
<1>3. CASE OnRegisters
  BY <1>0, <1>3, RegisterAssumption, RegisterWrites DEF OnRegisters, Emit
<1>4. CASE OnXmms
  BY <1>0, <1>4, RegisterAssumption, XmmWrites DEF OnXmms, Emit
<1> QED BY <1>1, <1>2, <1>3, <1>4 DEF Call

(* Both invariants together are inductive: a write is copied behind size,
   and that the first size cells lie in the block is what keeps them.      *)
IInv == TypeOK /\ SizeFits

(* After check_capacity there is room for the write.                       *)
LEMMA RoomForTheWrite ==
  ASSUME size \in Nat, capacity \in Nat, NEW add \in Nat
  PROVE  Grown(add) \in Nat /\ size + add <= Grown(add)
  BY DEF Grown

(* The block after a write: what it held, the bytes behind it.             *)
LEMMA StoredKeeps ==
  ASSUME IInv, NEW bytes \in Seq(Byte), NEW c \in Nat, size + Len(bytes) <= c
  PROVE  /\ Stored(bytes, c) \in [0..c - 1 -> Byte \union {Undef}]
         /\ \A i \in 0..size - 1 : Stored(bytes, c)[i] = data[i]
         /\ \A i \in 1..Len(bytes) : Stored(bytes, c)[size + i - 1] = bytes[i]
<1> USE DEF IInv, TypeOK, SizeFits
<1>1. Len(bytes) \in Nat /\ \A i \in 1..Len(bytes) : bytes[i] \in Byte
  OBVIOUS
<1>2. \A i \in DOMAIN data : data[i] \in Byte \union {Undef}
  BY DEF NoBlock
<1>3. Stored(bytes, c) \in [0..c - 1 -> Byte \union {Undef}]
  <2>1. ASSUME NEW i \in 0..c - 1, i \in size..size + Len(bytes) - 1
        PROVE  bytes[i - size + 1] \in Byte
    BY <1>1, <2>1
  <2> QED BY <1>2, <2>1 DEF Stored
<1>4. \A i \in 0..size - 1 : Stored(bytes, c)[i] = data[i]
  BY <1>1 DEF Stored
<1>5. \A i \in 1..Len(bytes) : Stored(bytes, c)[size + i - 1] = bytes[i]
  BY <1>1 DEF Stored
<1> QED BY <1>3, <1>4, <1>5

(* What a successful write does to the state.                              *)
Written(bytes) ==
  /\ size' = size + Len(bytes)
  /\ capacity' \in Nat
  /\ size' <= capacity'
  /\ data' \in [0..capacity' - 1 -> Byte \union {Undef}]
  /\ \A i \in 0..size - 1 : data'[i] = data[i]
  /\ \A i \in 1..Len(bytes) : data'[size + i - 1] = bytes[i]
  /\ phase' = phase

LEMMA WritesLand ==
  ASSUME IInv, NEW bytes \in Seq(Byte), EmitInPlace(bytes) \/ EmitGrowing(bytes)
  PROVE  Written(bytes)
<1> USE DEF IInv, TypeOK, SizeFits
<1>1. CASE EmitInPlace(bytes)
  <2>1. size + Len(bytes) <= capacity
    BY <1>1 DEF EmitInPlace, Fits
  <2> QED BY <1>1, <2>1, StoredKeeps DEF EmitInPlace, Written
<1>2. CASE EmitGrowing(bytes)
  <2>1. capacity' = Grown(Len(bytes)) /\ capacity' \in Nat /\ size + Len(bytes) <= capacity'
    BY <1>2, RoomForTheWrite DEF EmitGrowing
  <2> QED BY <1>2, <2>1, StoredKeeps DEF EmitGrowing, Written
<1> QED BY <1>1, <1>2

(* After it the section lies in its block.                                 *)
LEMMA WrittenFits ==
  ASSUME IInv, NEW bytes \in Seq(Byte), Written(bytes)
  PROVE  /\ size' \in Nat /\ capacity' \in Nat /\ phase' = phase
         /\ data' \in [0..capacity' - 1 -> Byte \union {Undef}]
         /\ SizeFits'
<1>1. size \in Nat /\ Len(bytes) \in Nat
  BY DEF IInv, TypeOK
<1>2. size' = size + Len(bytes) /\ size' \in Nat /\ capacity' \in Nat /\ size' <= capacity' /\ phase' = phase
  BY <1>1 DEF Written
<1>3. data' \in [0..capacity' - 1 -> Byte \union {Undef}]
  BY DEF Written
<1>4. ASSUME NEW i \in 0..size' - 1 PROVE i \in DOMAIN data' /\ data'[i] \in Byte
  <2>1. i \in DOMAIN data'
    BY <1>2, <1>3
  <2>2. CASE i < size
    <3>1. i \in 0..size - 1
      BY <1>1, <1>2, <2>2
    <3>2. data'[i] = data[i]
      BY <3>1 DEF Written
    <3> QED BY <2>1, <3>1, <3>2 DEF IInv, SizeFits
  <2>3. CASE i >= size
    <3> DEFINE j == i - size + 1
    <3>1. j \in 1..Len(bytes) /\ size + j - 1 = i
      BY <1>1, <1>2, <2>3
    <3>2. data'[size + j - 1] = bytes[j]
      BY <3>1 DEF Written
    <3>3. bytes[j] \in Byte
      BY <3>1
    <3> QED BY <2>1, <3>1, <3>2, <3>3
  <2> QED BY <1>1, <1>2, <2>2, <2>3
<1> QED BY <1>2, <1>3, <1>4 DEF SizeFits

LEMMA InitOK == Init => IInv
  BY CapacityAssumption DEF Init, IInv, TypeOK, SizeFits, NoBlock, Byte

(* One step keeps the invariant.                                           *)
LEMMA StepOK == IInv /\ [Next]_vars => IInv'
<1> SUFFICES ASSUME IInv, [Next]_vars PROVE IInv'
  OBVIOUS
<1> USE DEF IInv, TypeOK, SizeFits
<1>1. CASE Call
  BY <1>1, CallsWriteBytes DEF Call, Writes
<1>2. CASE section_emit_bytes
  <2>1. pending # << >> /\ Head(pending) \in Seq(Byte) /\ Tail(pending) \in Seq(Seq(Byte))
    BY <1>2 DEF section_emit_bytes
  <2>2. CASE EmitInPlace(Head(pending)) \/ EmitGrowing(Head(pending))
    <3>1. Written(Head(pending))
      BY <2>1, <2>2, WritesLand
    <3>2. pending' \in Seq(Seq(Byte))
      BY <1>2, <2>1 DEF section_emit_bytes
    <3> QED BY <2>1, <3>1, <3>2, WrittenFits
  <2>3. CASE EmitThroughNull(Head(pending)) /\ UNCHANGED pending
    BY <2>3 DEF EmitThroughNull
  <2> QED BY <1>2, <2>2, <2>3 DEF section_emit_bytes
<1>3. CASE section_destroy
  BY <1>3 DEF section_destroy, NoBlock
<1>4. CASE UNCHANGED vars
  BY <1>4 DEF vars
<1> QED BY <1>1, <1>2, <1>3, <1>4 DEF Next

LEMMA Invariance == Spec => []IInv
  BY InitOK, StepOK, PTL DEF Spec

(* The types of the section hold: above all, what an emitter hands over
   are bytes, for every register and operand.                              *)
THEOREM TypesHold == Spec => []TypeOK
  BY Invariance, PTL DEF IInv

(* check_capacity leaves room for every write: the section's bytes lie in
   its block and were written, whatever the capacities were.               *)
THEOREM SectionStaysInBlock == Spec => []SizeFits
  BY Invariance, PTL DEF IInv

-----------------------------------------------------------------------------
(* The initial state is an empty sequence.                                 *)
LEMMA InitRefines == Init => Abstract!Init
  BY DEF Init, Abstract!Init, Contents

(* A successful write appends its bytes to the contents.                   *)
LEMMA WrittenAppends ==
  ASSUME IInv, NEW bytes \in Seq(Byte), Written(bytes)
  PROVE  Contents' = Contents \o bytes
<1> DEFINE n == size + Len(bytes)
<1>1. size \in Nat /\ Len(bytes) \in Nat
  BY DEF IInv, TypeOK
<1>2. Contents \in Seq(Byte) /\ Len(Contents) = size
  BY <1>1 DEF IInv, SizeFits, Contents
<1>3. Contents' = [i \in 1..n |-> data'[i - 1]]
  BY DEF Contents, Written
<1>4. ASSUME NEW i \in 1..n PROVE (Contents \o bytes)[i] = data'[i - 1]
  <2>1. CASE i <= size
    <3>1. (Contents \o bytes)[i] = Contents[i]
      BY <1>1, <1>2, <2>1, ConcatProperties
    <3>2. Contents[i] = data[i - 1] /\ i - 1 \in 0..size - 1
      BY <1>1, <2>1 DEF Contents
    <3>3. data'[i - 1] = data[i - 1]
      BY <3>2 DEF Written
    <3> QED BY <3>1, <3>2, <3>3
  <2>2. CASE ~(i <= size)
    <3> DEFINE j == i - size
    <3>1. j \in 1..Len(bytes) /\ size + j - 1 = i - 1
      BY <1>1, <2>2
    <3>2. (Contents \o bytes)[i] = bytes[j]
      BY <1>1, <1>2, <2>2, ConcatProperties
    <3>3. data'[size + j - 1] = bytes[j]
      BY <3>1 DEF Written
    <3> QED BY <3>1, <3>2, <3>3
  <2> QED BY <2>1, <2>2
<1>5. Contents \o bytes \in Seq(Byte) /\ Len(Contents \o bytes) = n
  BY <1>1, <1>2, ConcatProperties
<1>6. Contents' \in Seq(Byte) /\ Len(Contents') = n
  <2>1. n \in Nat /\ \A i \in 1..n : i - 1 \in 0..size' - 1
    BY <1>1 DEF Written
  <2>2. \A i \in 1..n : data'[i - 1] \in Byte
    BY <2>1, WrittenFits DEF SizeFits
  <2> HIDE DEF n
  <2> QED BY <1>3, <2>1, <2>2
<1>7. \A i \in 1..n : Contents'[i] = (Contents \o bytes)[i]
  BY <1>3, <1>4
<1> HIDE DEF n
<1> QED BY <1>5, <1>6, <1>7, SeqEqual

(* Every step appends the next write, empties the section or is invisible. *)
LEMMA StepRefines == IInv /\ [Next]_vars => [Abstract!Next]_(Abstract!avars)
<1> SUFFICES ASSUME IInv, [Next]_vars PROVE [Abstract!Next]_(Abstract!avars)
  OBVIOUS
<1> USE DEF IInv, TypeOK, SizeFits
<1>1. CASE Call
  <2>1. Contents' = Contents
    BY <1>1 DEF Call, Contents
  <2> QED BY <1>1, <2>1, CallsWriteBytes DEF Call, Writes, Abstract!Next, Abstract!Call
<1>2. CASE section_emit_bytes
  <2> DEFINE bytes == Head(pending)
  <2>1. pending # << >> /\ bytes \in Seq(Byte)
    BY <1>2 DEF section_emit_bytes
  <2>2. CASE (EmitInPlace(bytes) \/ EmitGrowing(bytes)) /\ pending' = Tail(pending)
    <3>1. Contents' = Contents \o bytes
      BY <2>1, <2>2, WritesLand, WrittenAppends
    <3> QED BY <2>1, <2>2, <3>1 DEF Abstract!Next, Abstract!Write
  <2>3. CASE EmitThroughNull(bytes) /\ UNCHANGED pending
    BY <2>3 DEF EmitThroughNull, Contents, Abstract!avars
  <2> QED BY <1>2, <2>2, <2>3 DEF section_emit_bytes
<1>3. CASE section_destroy
  BY <1>3 DEF section_destroy, Contents, Abstract!Next, Abstract!Destroy
<1>4. CASE UNCHANGED vars
  BY <1>4 DEF vars, Contents, Abstract!avars
<1> QED BY <1>1, <1>2, <1>3, <1>4 DEF Next

(* The reallocated array is the append-only sequence: no sequence of calls,
   growths and destructions loses, moves or reorders a byte.               *)
THEOREM SectionAppends == Spec => AbstractSpec
<1>1. Init => Abstract!Init
  BY InitRefines
<1>2. IInv /\ [Next]_vars => [Abstract!Next]_(Abstract!avars)
  BY StepRefines
<1> QED BY <1>1, <1>2, Invariance, PTL DEF Spec, AbstractSpec, Abstract!Spec

-----------------------------------------------------------------------------
(* What the processor reads.  The bytes of each emitter are followed       *)
(* through the decoder: the fields it finds and the instruction it takes   *)
(* them for, which is the one asked for if and only if it is Encodable.    *)
Bit(x) == IF x THEN 1 ELSE 0

(* Fields.                                                                 *)
LEMMA ModRMFields ==
  ASSUME NEW m \in 0..3, NEW a \in 0..15, NEW c \in 0..15
  PROVE  /\ ModRM(m, a, c) \div 64 = m
         /\ (ModRM(m, a, c) \div 8) % 8 = RegCode(a)
         /\ ModRM(m, a, c) % 8 = RegCode(c)
  BY DEF ModRM, RegCode

LEMMA RegisterCodes ==
  ASSUME NEW r \in 0..15
  PROVE  /\ RegCode(r) \in 0..7
         /\ RegCode(r) + 8 * Bit(Extended(r)) = r
         /\ ~Extended(r) => RegCode(r) = r
         /\ Extended(r) => RegCode(r) # r
  BY DEF RegCode, Extended, Bit

(* What the decoder finds in front of the opcode, by the first byte.        *)
LEMMA WithRex ==
  ASSUME NEW d, NEW x \in BOOLEAN, NEW y \in BOOLEAN, At(d, 1) = make_rex(x, y)
  PROVE  /\ Prefix(d) = 0 /\ OpPlace(d) = 2
         /\ W(d) = 1 /\ R(d) = Bit(x) /\ B(d) = Bit(y)
<1>1. At(d, 1) = 72 + 4 * Bit(x) + Bit(y) /\ Bit(x) \in {0, 1} /\ Bit(y) \in {0, 1}
  BY DEF make_rex, Bit
<1>2. Prefix(d) = 0 /\ RexPlace(d) = 1
  BY <1>1 DEF Prefix, RexPlace
<1>3. HasRex(d) /\ Rex(d) = 8 + 4 * Bit(x) + Bit(y)
  BY <1>1, <1>2 DEF HasRex, Rex
<1>4. W(d) = 1 /\ R(d) = Bit(x) /\ B(d) = Bit(y)
  BY <1>1, <1>3 DEF W, R, B
<1> QED BY <1>2, <1>3, <1>4 DEF OpPlace

LEMMA WithoutRex ==
  ASSUME NEW d, At(d, 1) \in Byte, At(d, 1) \notin 64..79, At(d, 1) \notin {102, 242}
  PROVE  Prefix(d) = 0 /\ OpPlace(d) = 1 /\ W(d) = 0 /\ R(d) = 0 /\ B(d) = 0
<1>1. Prefix(d) = 0 /\ RexPlace(d) = 1
  BY DEF Prefix, RexPlace
<1>2. ~HasRex(d) /\ Rex(d) = 0
  BY <1>1 DEF HasRex, Rex
<1> QED BY <1>1, <1>2 DEF OpPlace, W, R, B

LEMMA WithPrefix ==
  ASSUME NEW d, At(d, 1) \in {102, 242}, At(d, 2) = 15
  PROVE  Prefix(d) = At(d, 1) /\ OpPlace(d) = 2 /\ W(d) = 0 /\ R(d) = 0 /\ B(d) = 0
<1>1. Prefix(d) = At(d, 1) /\ RexPlace(d) = 2
  BY DEF Prefix, RexPlace
<1>2. ~HasRex(d) /\ Rex(d) = 0
  BY <1>1 DEF HasRex, Rex
<1> QED BY <1>1, <1>2 DEF OpPlace, W, R, B

(* The fields of ModRM, with the bits REX adds to them.                     *)
LEMMA Operands ==
  ASSUME NEW d, NEW m, NEW mod \in 0..3, NEW a \in 0..15, NEW c \in 0..15, At(d, m) = ModRM(mod, a, c),
         NEW x, NEW y, R(d) = Bit(x), B(d) = Bit(y)
  PROVE  /\ Mod(d, m) = mod /\ At(d, m) % 8 = RegCode(c)
         /\ Reg(d, m) = RegCode(a) + 8 * Bit(x)
         /\ Rm(d, m) = RegCode(c) + 8 * Bit(y)
  BY ModRMFields DEF Mod, Reg, Rm

(* Integers.                                                               *)
LEMMA BytesOfNumbers ==
  ASSUME NEW n \in Int
  PROVE  \A k \in Nat : ByteOf(n, k) \in Byte
  BY DEF ByteOf, Byte

(* Integers with their sign, of one byte and of four.                       *)
LEMMA OneSigned ==
  ASSUME NEW d, NEW i, NEW n \in -128..127, At(d, i) = n % 256
  PROVE  Signed8(d, i) = n
<1>1. (IF n % 256 > 127 THEN (n % 256) - 256 ELSE n % 256) = n
  OBVIOUS
<1> QED BY <1>1 DEF Signed8

LEMMA FourSigned ==
  ASSUME NEW d, NEW i \in Nat, NEW n \in Int, \A k \in 0..3 : At(d, i + k) = ByteOf(n, k)
  PROVE  /\ Signed32(d, i) \in Int32
         /\ n \in Int32 => Signed32(d, i) = n
<1> DEFINE q1 == n \div 256  q2 == n \div 65536  q3 == n \div 16777216
           s3 == IF q3 % 256 > 127 THEN (q3 % 256) - 256 ELSE q3 % 256
<1>1. /\ At(d, i) = n % 256 /\ At(d, i + 1) = q1 % 256
      /\ At(d, i + 2) = q2 % 256 /\ At(d, i + 3) = q3 % 256
  BY SMT DEF ByteOf
<1>2. Signed32(d, i) = (n % 256) + 256 * (q1 % 256) + 65536 * (q2 % 256) + 16777216 * s3
  BY <1>1, SMT DEF Signed32, Signed8
<1>3. \A k \in Int : k = 256 * (k \div 256) + (k % 256) /\ k \div 256 \in Int /\ k % 256 \in 0..255
  BY SMT
<1>4. q1 \in Int /\ q2 = q1 \div 256 /\ q3 = q2 \div 256
  BY SMT
<1> HIDE DEF q1, q2, q3
<1>5. q2 \in Int /\ q3 \in Int /\ q1 = 256 * q2 + (q1 % 256) /\ q2 = 256 * q3 + (q2 % 256)
  BY <1>3, <1>4, SMT
<1>6. n = 256 * q1 + (n % 256)
  BY <1>3, SMT DEF q1
<1> DEFINE b0 == n % 256  b1 == q1 % 256  b2 == q2 % 256
<1>7. Signed32(d, i) \in Int32
  <2>1. s3 \in Int /\ -128 <= s3 /\ s3 <= 127
    BY <1>3, <1>5, SMT
  <2>2. /\ b0 \in Int /\ 0 <= b0 /\ b0 <= 255
        /\ b1 \in Int /\ 0 <= b1 /\ b1 <= 255
        /\ b2 \in Int /\ 0 <= b2 /\ b2 <= 255
    BY <1>3, <1>4, <1>5, SMT
  <2>3. Signed32(d, i) = b0 + 256 * b1 + 65536 * b2 + 16777216 * s3
    BY <1>2
  <2> HIDE DEF s3, b0, b1, b2
  <2> QED BY <2>1, <2>2, <2>3, SMT DEF Int32
<1>8. ASSUME n \in Int32 PROVE Signed32(d, i) = n
  <2>1. n >= -2147483648 /\ n <= 2147483647
    BY <1>8, SMT DEF Int32
  <2>2. -128 <= q3 /\ q3 <= 127
    BY <2>1, SMT DEF q3
  <2>3. s3 = q3
    BY <1>5, <2>2, SMT
  <2>4. Signed32(d, i) = b0 + 256 * b1 + 65536 * b2 + 16777216 * q3
    BY <1>2, <2>3
  <2>5. n = 256 * q1 + b0 /\ q1 = 256 * q2 + b1 /\ q2 = 256 * q3 + b2 /\ b0 \in Int /\ b1 \in Int /\ b2 \in Int
    BY <1>3, <1>4, <1>5, <1>6, SMT
  <2> HIDE DEF s3, b0, b1, b2
  <2> QED BY <1>4, <1>5, <2>4, <2>5, SMT
<1> QED BY <1>7, <1>8

(* What the decoder makes of each opcode, given its fields.                *)
LEMMA DecodesPush ==
  ASSUME NEW d, NEW p \in {1, 2}, NEW r \in 0..7, Prefix(d) = 0, OpPlace(d) = p, B(d) \in {0, 1},
         At(d, p) = 80 + r
  PROVE  Decode(d) = Ins(<<"push", r + 8 * B(d)>>, p)
  BY DEF Decode, DecodeGeneral, OneByte, Jumps, RegReg, Ins

LEMMA DecodesPop ==
  ASSUME NEW d, NEW p \in {1, 2}, NEW r \in 0..7, Prefix(d) = 0, OpPlace(d) = p, B(d) \in {0, 1},
         At(d, p) = 88 + r
  PROVE  Decode(d) = Ins(<<"pop", r + 8 * B(d)>>, p)
  BY DEF Decode, DecodeGeneral, OneByte, Jumps, RegReg, Ins

(* The cases of the decoder.                                                *)
LEMMA DecodesPlain ==
  ASSUME NEW d, Prefix(d) = 0, OpPlace(d) = 1
  PROVE  /\ At(d, 1) = 232 => Decode(d) = Ins(<<"call", Signed32(d, 2)>>, 5)
         /\ At(d, 1) = 233 => Decode(d) = Ins(<<"jmp", Signed32(d, 2)>>, 5)
         /\ \A j \in DOMAIN Rel8Opcodes :
              At(d, 1) = Rel8Opcodes[j] => Decode(d) = Ins(<<j, Signed8(d, 2)>>, 2)
         /\ At(d, 1) = 195 => Decode(d) = Ins(<<"ret">>, 1)
         /\ At(d, 1) = 144 => Decode(d) = Ins(<<"nop">>, 1)
         /\ At(d, 1) = 204 => Decode(d) = Ins(<<"int3">>, 1)
         /\ At(d, 1) = 15 /\ At(d, 2) = 5 => Decode(d) = Ins(<<"syscall">>, 2)
<1> USE DEF Decode, DecodeGeneral, OneByte, Jumps, RegReg, Ins
<1>1. At(d, 1) = 232 => Decode(d) = Ins(<<"call", Signed32(d, 2)>>, 5)
  OBVIOUS
<1>2. At(d, 1) = 233 => Decode(d) = Ins(<<"jmp", Signed32(d, 2)>>, 5)
  OBVIOUS
<1>3. \A j \in DOMAIN Rel8Opcodes :
        At(d, 1) = Rel8Opcodes[j] => Decode(d) = Ins(<<j, Signed8(d, 2)>>, 2)
  BY DEF Rel8Opcodes
<1>4. At(d, 1) = 195 => Decode(d) = Ins(<<"ret">>, 1)
  OBVIOUS
<1>5. At(d, 1) = 144 => Decode(d) = Ins(<<"nop">>, 1)
  OBVIOUS
<1>6. At(d, 1) = 204 => Decode(d) = Ins(<<"int3">>, 1)
  OBVIOUS
<1>7. At(d, 1) = 15 /\ At(d, 2) = 5 => Decode(d) = Ins(<<"syscall">>, 2)
  OBVIOUS
<1> QED BY ONLY <1>1, <1>2, <1>3, <1>4, <1>5, <1>6, <1>7

LEMMA DecodesWide ==
  ASSUME NEW d, Prefix(d) = 0, OpPlace(d) = 2, W(d) = 1, Mod(d, 3) = 3
  PROVE  /\ At(d, 2) = 131 /\ Reg(d, 3) = 5 => Decode(d) = Ins(<<"sub_i", Rm(d, 3), Signed8(d, 4)>>, 4)
         /\ At(d, 2) = 131 /\ Reg(d, 3) = 0 => Decode(d) = Ins(<<"add_i", Rm(d, 3), Signed8(d, 4)>>, 4)
         /\ At(d, 2) = 129 /\ Reg(d, 3) = 5 => Decode(d) = Ins(<<"sub_i", Rm(d, 3), Signed32(d, 4)>>, 7)
         /\ At(d, 2) = 129 /\ Reg(d, 3) = 0 => Decode(d) = Ins(<<"add_i", Rm(d, 3), Signed32(d, 4)>>, 7)
         /\ At(d, 2) = 137 => Decode(d) = Ins(<<"mov", Rm(d, 3), Reg(d, 3)>>, 3)
         /\ \A o \in DOMAIN RROpcodes :
              At(d, 2) = RROpcodes[o] => Decode(d) = Ins(<<o, Rm(d, 3), Reg(d, 3)>>, 3)
         /\ At(d, 2) = 247 /\ Reg(d, 3) = 4 => Decode(d) = Ins(<<"mul", 0, Rm(d, 3)>>, 3)
         /\ At(d, 2) = 247 /\ Reg(d, 3) = 6 => Decode(d) = Ins(<<"div", 0, Rm(d, 3)>>, 3)
<1> USE DEF Decode, DecodeGeneral, OneByte, Jumps, RegReg, Ins
<1>1. At(d, 2) = 131 /\ Reg(d, 3) = 5 => Decode(d) = Ins(<<"sub_i", Rm(d, 3), Signed8(d, 4)>>, 4)
  OBVIOUS
<1>2. At(d, 2) = 131 /\ Reg(d, 3) = 0 => Decode(d) = Ins(<<"add_i", Rm(d, 3), Signed8(d, 4)>>, 4)
  OBVIOUS
<1>3. At(d, 2) = 129 /\ Reg(d, 3) = 5 => Decode(d) = Ins(<<"sub_i", Rm(d, 3), Signed32(d, 4)>>, 7)
  OBVIOUS
<1>4. At(d, 2) = 129 /\ Reg(d, 3) = 0 => Decode(d) = Ins(<<"add_i", Rm(d, 3), Signed32(d, 4)>>, 7)
  OBVIOUS
<1>5. At(d, 2) = 137 => Decode(d) = Ins(<<"mov", Rm(d, 3), Reg(d, 3)>>, 3)
  OBVIOUS
<1>6. \A o \in DOMAIN RROpcodes :
        At(d, 2) = RROpcodes[o] => Decode(d) = Ins(<<o, Rm(d, 3), Reg(d, 3)>>, 3)
  BY DEF RROpcodes
<1>7. At(d, 2) = 247 /\ Reg(d, 3) = 4 => Decode(d) = Ins(<<"mul", 0, Rm(d, 3)>>, 3)
  OBVIOUS
<1>8. At(d, 2) = 247 /\ Reg(d, 3) = 6 => Decode(d) = Ins(<<"div", 0, Rm(d, 3)>>, 3)
  OBVIOUS
<1> QED BY ONLY <1>1, <1>2, <1>3, <1>4, <1>5, <1>6, <1>7, <1>8

LEMMA DecodesImmediate ==
  ASSUME NEW d, NEW r \in 0..7, Prefix(d) = 0, OpPlace(d) = 2, W(d) = 1, B(d) \in {0, 1},
         At(d, 2) = 184 + r
  PROVE  Decode(d) = Ins(<<"mov_i", r + 8 * B(d), Signed32(d, 3)>>, 10)
  BY DEF Decode, DecodeGeneral, OneByte, Jumps, RegReg, Ins

LEMMA DecodesXmms ==
  ASSUME NEW d, OpPlace(d) = 2, At(d, 2) = 15, W(d) = 0
  PROVE  /\ \A o \in DOMAIN XmmOpcodes :
              Mod(d, 4) = 3 /\ Prefix(d) = XmmOpcodes[o][1] /\ At(d, 3) = XmmOpcodes[o][2]
                => Decode(d) = Ins(<<o, Reg(d, 4), Rm(d, 4)>>, 4)
         /\ Prefix(d) = 242 /\ At(d, 3) \in {42, 45} => Decode(d) = Bad(2)
         /\ Prefix(d) = 242 /\ At(d, 3) = 16 /\ Mod(d, 4) = 3
              => Decode(d) = Ins(<<"movsd", Reg(d, 4), Rm(d, 4)>>, 4)
         /\ Prefix(d) = 242 /\ At(d, 3) = 16 /\ PlainMemory(d, 4)
              => Decode(d) = Ins(<<"load", Reg(d, 4), Rm(d, 4), Displacement(d, 4)>>, 4 + DisplacementLen(d, 4))
         /\ Prefix(d) = 242 /\ At(d, 3) = 17 /\ PlainMemory(d, 4)
              => Decode(d) = Ins(<<"store", Rm(d, 4), Displacement(d, 4), Reg(d, 4)>>, 4 + DisplacementLen(d, 4))
         /\ Prefix(d) = 242 /\ At(d, 3) \in {16, 17} /\ Mod(d, 4) # 3 /\ ~PlainMemory(d, 4)
              => Decode(d) = Bad(2)
<1> USE DEF Decode, DecodeSse, SseRegReg, Ins
<1>0. PlainMemory(d, 4) => Mod(d, 4) # 3
  BY DEF PlainMemory
<1>1. \A o \in DOMAIN XmmOpcodes :
        Mod(d, 4) = 3 /\ Prefix(d) = XmmOpcodes[o][1] /\ At(d, 3) = XmmOpcodes[o][2]
          => Decode(d) = Ins(<<o, Reg(d, 4), Rm(d, 4)>>, 4)
  BY DEF XmmOpcodes
<1>2. Prefix(d) = 242 /\ At(d, 3) \in {42, 45} => Decode(d) = Bad(2)
  OBVIOUS
<1>3. Prefix(d) = 242 /\ At(d, 3) = 16 /\ Mod(d, 4) = 3
        => Decode(d) = Ins(<<"movsd", Reg(d, 4), Rm(d, 4)>>, 4)
  BY <1>0
<1>4. Prefix(d) = 242 /\ At(d, 3) = 16 /\ PlainMemory(d, 4)
        => Decode(d) = Ins(<<"load", Reg(d, 4), Rm(d, 4), Displacement(d, 4)>>, 4 + DisplacementLen(d, 4))
  BY <1>0
<1>5. Prefix(d) = 242 /\ At(d, 3) = 17 /\ PlainMemory(d, 4)
        => Decode(d) = Ins(<<"store", Rm(d, 4), Displacement(d, 4), Reg(d, 4)>>, 4 + DisplacementLen(d, 4))
  BY <1>0
<1>6. Prefix(d) = 242 /\ At(d, 3) \in {16, 17} /\ Mod(d, 4) # 3 /\ ~PlainMemory(d, 4) => Decode(d) = Bad(2)
  OBVIOUS
<1> QED BY ONLY <1>1, <1>2, <1>3, <1>4, <1>5, <1>6

-----------------------------------------------------------------------------
(* The writes w are the bytes b, cut into pieces.                          *)
Yields(w, b) ==
  \E at \in [1..Len(w) + 1 -> 0..Len(b)] :
    /\ at[1] = 0 /\ at[Len(w) + 1] = Len(b)
    /\ \A k \in 1..Len(w) :
         /\ at[k + 1] = at[k] + Len(w[k])
         /\ \A i \in 1..Len(w[k]) : b[at[k] + i] = w[k][i]

(* d begins with the bytes b.                                              *)
Begins(d, b) == \A k \in 1..Len(b) : At(d, k) = b[k]

(* The bytes b are the instruction i, whatever follows them, or, if it is  *)
(* one that cannot be encoded, something else.                             *)
Spelled(b, i) ==
  /\ b \in Seq(Byte) /\ Len(b) > 0 /\ i # <<"?">>
  /\ \A d : Begins(d, b) => (Decode(d) = Ins(i, Len(b)) <=> Encodable(i))

(* The writes of an emitter that was called for the instruction i.         *)
Spells(w, i) == \E b : Yields(w, b) /\ Spelled(b, i)

(* Writes of one, two, ... bytes and of an integer, and what they yield.    *)
LEMMA YieldsOne ==
  ASSUME NEW n \in Seq(Byte)
  PROVE  Yields(<<n>>, n)
<1> DEFINE at == [k \in 1..2 |-> IF k = 1 THEN 0 ELSE Len(n)]
<1>1. Len(n) \in Nat /\ Len(<<n>>) = 1 /\ <<n>>[1] = n
  OBVIOUS
<1>2. at \in [1..1 + 1 -> 0..Len(n)] /\ at[1] = 0 /\ at[1 + 1] = Len(n)
  BY <1>1
<1>3. \A k \in 1..1 : /\ at[k + 1] = at[k] + Len(<<n>>[k])
                      /\ \A i \in 1..Len(<<n>>[k]) : n[at[k] + i] = <<n>>[k][i]
  BY <1>1, <1>2
<1> HIDE DEF at
<1> QED BY <1>1, <1>2, <1>3 DEF Yields

LEMMA YieldsFurther ==
  ASSUME NEW w \in Writes, NEW b \in Seq(Byte), NEW n \in Seq(Byte), Yields(w, b)
  PROVE  \E c \in Seq(Byte) :
           /\ Yields(w \o <<n>>, c)
           /\ Len(c) = Len(b) + Len(n)
           /\ \A i \in 1..Len(b) : c[i] = b[i]
           /\ \A i \in 1..Len(n) : c[Len(b) + i] = n[i]
<1> DEFINE c == b \o n
           v == w \o <<n>>
           m == Len(w)
<1>1. PICK at \in [1..m + 1 -> 0..Len(b)] :
        /\ at[1] = 0 /\ at[m + 1] = Len(b)
        /\ \A k \in 1..m : /\ at[k + 1] = at[k] + Len(w[k])
                           /\ \A i \in 1..Len(w[k]) : b[at[k] + i] = w[k][i]
  BY DEF Yields
<1>2. /\ c \in Seq(Byte) /\ Len(c) = Len(b) + Len(n)
      /\ \A i \in 1..Len(b) : c[i] = b[i]
      /\ \A i \in 1..Len(n) : c[Len(b) + i] = n[i]
  OBVIOUS
<1>3. /\ m \in Nat /\ Len(v) = m + 1 /\ v[m + 1] = n
      /\ \A k \in 1..m : v[k] = w[k] /\ w[k] \in Seq(Byte)
  BY DEF Writes
<1> DEFINE up == [k \in 1..m + 2 |-> IF k <= m + 1 THEN at[k] ELSE Len(c)]
<1> HIDE DEF c, v, m
<1>4. Len(b) \in Nat /\ Len(n) \in Nat
  OBVIOUS
<1>5. up \in [1..m + 1 + 1 -> 0..Len(c)] /\ up[1] = 0 /\ up[m + 1 + 1] = Len(c)
  BY <1>1, <1>2, <1>3, <1>4
<1>6. up[m + 1] = Len(b) /\ \A k \in 1..m : up[k] = at[k] /\ up[k + 1] = at[k + 1]
  BY <1>1, <1>3
<1> HIDE DEF up
<1>7. up[m + 1 + 1] = up[m + 1] + Len(v[m + 1]) /\ \A i \in 1..Len(v[m + 1]) : c[up[m + 1] + i] = v[m + 1][i]
  BY <1>2, <1>3, <1>5, <1>6
<1>8. ASSUME NEW k \in 1..m
      PROVE  up[k + 1] = up[k] + Len(v[k]) /\ \A i \in 1..Len(v[k]) : c[up[k] + i] = v[k][i]
  <2>1. up[k] = at[k] /\ up[k + 1] = at[k + 1] /\ v[k] = w[k] /\ Len(w[k]) \in Nat
    BY <1>3, <1>6
  <2>2. at[k + 1] = at[k] + Len(w[k]) /\ at[k + 1] \in 0..Len(b) /\ at[k] \in 0..Len(b)
    BY <1>1, <1>3
  <2>3. ASSUME NEW i \in 1..Len(w[k]) PROVE c[at[k] + i] = w[k][i]
    <3>1. at[k] + i \in 1..Len(b)
      BY <1>4, <2>1, <2>2
    <3>2. b[at[k] + i] = w[k][i]
      BY <1>1
    <3> QED BY <1>2, <3>1, <3>2
  <2> QED BY <2>1, <2>2, <2>3
<1>9. \A k \in 1..m + 1 : up[k + 1] = up[k] + Len(v[k]) /\ \A i \in 1..Len(v[k]) : c[up[k] + i] = v[k][i]
  <2>1. \A k \in 1..m + 1 : k = m + 1 \/ k \in 1..m
    BY <1>3
  <2> QED BY <1>7, <1>8, <2>1
<1>10. Len(v) = m + 1
  BY <1>3
<1>11. Yields(v, c)
  <2>1. up \in [1..Len(v) + 1 -> 0..Len(c)] /\ up[1] = 0 /\ up[Len(v) + 1] = Len(c)
    BY <1>5, <1>10
  <2>2. \A k \in 1..Len(v) : up[k + 1] = up[k] + Len(v[k]) /\ \A i \in 1..Len(v[k]) : c[up[k] + i] = v[k][i]
    BY <1>9, <1>10
  <2> QED BY <2>1, <2>2, Zenon DEF Yields
<1> QED BY <1>2, <1>11 DEF c, v

LEMMA YieldsByte ==
  ASSUME NEW w \in Writes, NEW b \in Seq(Byte), Yields(w, b), NEW v \in Byte,
         NEW t \in Seq(Byte), Len(t) = Len(b) + 1, t[Len(b) + 1] = v, \A i \in 1..Len(b) : t[i] = b[i]
  PROVE  w \o EMIT(v) \in Writes /\ Yields(w \o EMIT(v), t)
<1>1. <<v>> \in Seq(Byte) /\ Len(<<v>>) = 1 /\ <<v>>[1] = v
  OBVIOUS
<1> DEFINE n == <<v>>
<1> HIDE DEF n
<1>2. PICK c \in Seq(Byte) :
        /\ Yields(w \o <<n>>, c)
        /\ Len(c) = Len(b) + Len(n)
        /\ \A i \in 1..Len(b) : c[i] = b[i]
        /\ \A i \in 1..Len(n) : c[Len(b) + i] = n[i]
  BY <1>1, YieldsFurther DEF n
<1>3. c[Len(b) + 1] = v /\ Len(b) \in Nat /\ Len(c) = Len(b) + 1
  BY <1>1, <1>2 DEF n
<1>4. \A i \in 1..Len(c) : c[i] = t[i]
  BY <1>2, <1>3
<1>5. c = t
  BY <1>2, <1>3, <1>4, SeqEqual
<1>6. w \o EMIT(v) \in Writes
  BY AByte, Concatenation
<1> QED BY <1>2, <1>5, <1>6 DEF EMIT, n

LEMMA YieldsInteger ==
  ASSUME NEW w \in Writes, NEW b \in Seq(Byte), Yields(w, b), NEW n \in Int, NEW len \in Nat
  PROVE  \E c \in Seq(Byte) :
           /\ Yields(w \o emit_bytes(n, len), c)
           /\ Len(c) = Len(b) + len
           /\ \A i \in 1..Len(b) : c[i] = b[i]
           /\ \A i \in 1..len : c[Len(b) + i] = ByteOf(n, i - 1)
<1> DEFINE m == [i \in 1..len |-> ByteOf(n, i - 1)]
<1>1. \A i \in 1..len : ByteOf(n, i - 1) \in Byte
  BY BytesOfNumbers
<1>2. m \in Seq(Byte) /\ Len(m) = len /\ \A i \in 1..len : m[i] = ByteOf(n, i - 1)
  BY <1>1
<1>3. emit_bytes(n, len) = <<m>>
  BY DEF emit_bytes
<1> HIDE DEF m
<1>4. PICK c \in Seq(Byte) :
        /\ Yields(w \o <<m>>, c)
        /\ Len(c) = Len(b) + Len(m)
        /\ \A i \in 1..Len(b) : c[i] = b[i]
        /\ \A i \in 1..Len(m) : c[Len(b) + i] = m[i]
  BY <1>2, YieldsFurther
<1> QED BY <1>2, <1>3, <1>4

LEMMA YieldsBytes ==
  ASSUME NEW a \in Byte, NEW b \in Byte, NEW c \in Byte, NEW d \in Byte, NEW e \in Byte, NEW f \in Byte
  PROVE  LET one   == EMIT(a)
             two   == one \o EMIT(b)
             three == two \o EMIT(c)
             four  == three \o EMIT(d)
             five  == four \o EMIT(e)
             six   == five \o EMIT(f)
         IN  /\ one \in Writes /\ Yields(one, <<a>>)
             /\ two \in Writes /\ Yields(two, <<a, b>>)
             /\ three \in Writes /\ Yields(three, <<a, b, c>>)
             /\ four \in Writes /\ Yields(four, <<a, b, c, d>>)
             /\ five \in Writes /\ Yields(five, <<a, b, c, d, e>>)
             /\ six \in Writes /\ Yields(six, <<a, b, c, d, e, f>>)
<1> DEFINE one   == EMIT(a)
           two   == one \o EMIT(b)
           three == two \o EMIT(c)
           four  == three \o EMIT(d)
           five  == four \o EMIT(e)
           six   == five \o EMIT(f)
<1>1. one \in Writes /\ Yields(one, <<a>>)
  <2>1. <<a>> \in Seq(Byte)
    OBVIOUS
  <2> QED BY <2>1, AByte, YieldsOne DEF EMIT
<1> HIDE DEF one
<1>2. two \in Writes /\ Yields(two, <<a, b>>)
  <2> DEFINE s == <<a>>  t == <<a, b>>
  <2>1. s \in Seq(Byte) /\ t \in Seq(Byte) /\ Len(s) = 1 /\ Len(t) = Len(s) + 1 /\ t[Len(s) + 1] = b
    OBVIOUS
  <2>2. \A i \in 1..Len(s) : t[i] = s[i]
    OBVIOUS
  <2> HIDE DEF s, t
  <2>3. Yields(one, s)
    BY <1>1 DEF s
  <2>4. two \in Writes /\ Yields(two, t)
    BY <1>1, <2>1, <2>2, <2>3, YieldsByte
  <2> QED BY <2>4 DEF t
<1> HIDE DEF two
<1>3. three \in Writes /\ Yields(three, <<a, b, c>>)
  <2> DEFINE s == <<a, b>>  t == <<a, b, c>>
  <2>1. s \in Seq(Byte) /\ t \in Seq(Byte) /\ Len(s) = 2 /\ Len(t) = Len(s) + 1 /\ t[Len(s) + 1] = c
    OBVIOUS
  <2>2. \A i \in 1..Len(s) : t[i] = s[i]
    OBVIOUS
  <2> HIDE DEF s, t
  <2>3. Yields(two, s)
    BY <1>2 DEF s
  <2>4. three \in Writes /\ Yields(three, t)
    BY <1>2, <2>1, <2>2, <2>3, YieldsByte
  <2> QED BY <2>4 DEF t
<1> HIDE DEF three
<1>4. four \in Writes /\ Yields(four, <<a, b, c, d>>)
  <2> DEFINE s == <<a, b, c>>  t == <<a, b, c, d>>
  <2>1. s \in Seq(Byte) /\ t \in Seq(Byte) /\ Len(s) = 3 /\ Len(t) = Len(s) + 1 /\ t[Len(s) + 1] = d
    OBVIOUS
  <2>2. \A i \in 1..Len(s) : t[i] = s[i]
    OBVIOUS
  <2> HIDE DEF s, t
  <2>3. Yields(three, s)
    BY <1>3 DEF s
  <2>4. four \in Writes /\ Yields(four, t)
    BY <1>3, <2>1, <2>2, <2>3, YieldsByte
  <2> QED BY <2>4 DEF t
<1> HIDE DEF four
<1>5. five \in Writes /\ Yields(five, <<a, b, c, d, e>>)
  <2> DEFINE s == <<a, b, c, d>>  t == <<a, b, c, d, e>>
  <2>1. s \in Seq(Byte) /\ t \in Seq(Byte) /\ Len(s) = 4 /\ Len(t) = Len(s) + 1 /\ t[Len(s) + 1] = e
    OBVIOUS
  <2>2. \A i \in 1..Len(s) : t[i] = s[i]
    OBVIOUS
  <2> HIDE DEF s, t
  <2>3. Yields(four, s)
    BY <1>4 DEF s
  <2>4. five \in Writes /\ Yields(five, t)
    BY <1>4, <2>1, <2>2, <2>3, YieldsByte
  <2> QED BY <2>4 DEF t
<1> HIDE DEF five
<1>6. six \in Writes /\ Yields(six, <<a, b, c, d, e, f>>)
  <2> DEFINE s == <<a, b, c, d, e>>  t == <<a, b, c, d, e, f>>
  <2>1. s \in Seq(Byte) /\ t \in Seq(Byte) /\ Len(s) = 5 /\ Len(t) = Len(s) + 1 /\ t[Len(s) + 1] = f
    OBVIOUS
  <2>2. \A i \in 1..Len(s) : t[i] = s[i]
    OBVIOUS
  <2> HIDE DEF s, t
  <2>3. Yields(five, s)
    BY <1>5 DEF s
  <2>4. six \in Writes /\ Yields(six, t)
    BY <1>5, <2>1, <2>2, <2>3, YieldsByte
  <2> QED BY <2>4 DEF t
<1> HIDE DEF six
<1> QED BY <1>1, <1>2, <1>3, <1>4, <1>5, <1>6 DEF one, two, three, four, five, six

(* How an instruction is spelled by that many bytes: it is enough to know   *)
(* what the decoder makes of any bytes that begin so.                       *)
LEMMA SpellsOne ==
  ASSUME NEW a \in Byte,
         NEW i, i # <<"?">>,
         \A d : At(d, 1) = a => (Decode(d) = Ins(i, 1) <=> Encodable(i))
  PROVE  Spells(EMIT(a), i)
<1> DEFINE t == <<a>>
<1>1. t \in Seq(Byte) /\ Len(t) = 1 /\ t[1] = a
  OBVIOUS
<1>2. Yields(EMIT(a), t)
  BY YieldsBytes
<1> HIDE DEF t
<1>3. ASSUME NEW d, Begins(d, t) PROVE At(d, 1) = a
  <2>1. \A k \in 1..1 : At(d, k) = t[k]
    BY <1>1, <1>3 DEF Begins
  <2> QED BY <1>1, <2>1
<1>4. Spelled(t, i)
  BY <1>1, <1>3 DEF Spelled
<1> QED BY <1>2, <1>4 DEF Spells

LEMMA SpellsTwo ==
  ASSUME NEW a \in Byte, NEW b \in Byte,
         NEW i, i # <<"?">>,
         \A d : At(d, 1) = a /\ At(d, 2) = b => (Decode(d) = Ins(i, 2) <=> Encodable(i))
  PROVE  Spells(EMIT(a) \o EMIT(b), i)
<1> DEFINE t == <<a, b>>
<1>1. t \in Seq(Byte) /\ Len(t) = 2 /\ t[1] = a /\ t[2] = b
  OBVIOUS
<1>2. Yields(EMIT(a) \o EMIT(b), t)
  BY YieldsBytes
<1> HIDE DEF t
<1>3. ASSUME NEW d, Begins(d, t) PROVE At(d, 1) = a /\ At(d, 2) = b
  <2>1. \A k \in 1..2 : At(d, k) = t[k]
    BY <1>1, <1>3 DEF Begins
  <2> QED BY <1>1, <2>1
<1>4. Spelled(t, i)
  BY <1>1, <1>3 DEF Spelled
<1> QED BY <1>2, <1>4 DEF Spells

LEMMA SpellsThree ==
  ASSUME NEW a \in Byte, NEW b \in Byte, NEW c \in Byte,
         NEW i, i # <<"?">>,
         \A d : At(d, 1) = a /\ At(d, 2) = b /\ At(d, 3) = c => (Decode(d) = Ins(i, 3) <=> Encodable(i))
  PROVE  Spells(EMIT(a) \o EMIT(b) \o EMIT(c), i)
<1> DEFINE t == <<a, b, c>>
<1>1. t \in Seq(Byte) /\ Len(t) = 3 /\ t[1] = a /\ t[2] = b /\ t[3] = c
  OBVIOUS
<1>2. Yields(EMIT(a) \o EMIT(b) \o EMIT(c), t)
  BY YieldsBytes
<1> HIDE DEF t
<1>3. ASSUME NEW d, Begins(d, t) PROVE At(d, 1) = a /\ At(d, 2) = b /\ At(d, 3) = c
  <2>1. \A k \in 1..3 : At(d, k) = t[k]
    BY <1>1, <1>3 DEF Begins
  <2> QED BY <1>1, <2>1
<1>4. Spelled(t, i)
  BY <1>1, <1>3 DEF Spelled
<1> QED BY <1>2, <1>4 DEF Spells

LEMMA SpellsFour ==
  ASSUME NEW a \in Byte, NEW b \in Byte, NEW c \in Byte, NEW p \in Byte,
         NEW i, i # <<"?">>,
         \A d : At(d, 1) = a /\ At(d, 2) = b /\ At(d, 3) = c /\ At(d, 4) = p => (Decode(d) = Ins(i, 4) <=> Encodable(i))
  PROVE  Spells(EMIT(a) \o EMIT(b) \o EMIT(c) \o EMIT(p), i)
<1> DEFINE t == <<a, b, c, p>>
<1>1. t \in Seq(Byte) /\ Len(t) = 4 /\ t[1] = a /\ t[2] = b /\ t[3] = c /\ t[4] = p
  OBVIOUS
<1>2. Yields(EMIT(a) \o EMIT(b) \o EMIT(c) \o EMIT(p), t)
  BY YieldsBytes
<1> HIDE DEF t
<1>3. ASSUME NEW d, Begins(d, t) PROVE At(d, 1) = a /\ At(d, 2) = b /\ At(d, 3) = c /\ At(d, 4) = p
  <2>1. \A k \in 1..4 : At(d, k) = t[k]
    BY <1>1, <1>3 DEF Begins
  <2> QED BY <1>1, <2>1
<1>4. Spelled(t, i)
  BY <1>1, <1>3 DEF Spelled
<1> QED BY <1>2, <1>4 DEF Spells

LEMMA SpellsFive ==
  ASSUME NEW a \in Byte, NEW b \in Byte, NEW c \in Byte, NEW p \in Byte, NEW q \in Byte,
         NEW i, i # <<"?">>,
         \A d : At(d, 1) = a /\ At(d, 2) = b /\ At(d, 3) = c /\ At(d, 4) = p /\ At(d, 5) = q => (Decode(d) = Ins(i, 5) <=> Encodable(i))
  PROVE  Spells(EMIT(a) \o EMIT(b) \o EMIT(c) \o EMIT(p) \o EMIT(q), i)
<1> DEFINE t == <<a, b, c, p, q>>
<1>1. t \in Seq(Byte) /\ Len(t) = 5 /\ t[1] = a /\ t[2] = b /\ t[3] = c /\ t[4] = p /\ t[5] = q
  OBVIOUS
<1>2. Yields(EMIT(a) \o EMIT(b) \o EMIT(c) \o EMIT(p) \o EMIT(q), t)
  BY YieldsBytes
<1> HIDE DEF t
<1>3. ASSUME NEW d, Begins(d, t) PROVE At(d, 1) = a /\ At(d, 2) = b /\ At(d, 3) = c /\ At(d, 4) = p /\ At(d, 5) = q
  <2>1. \A k \in 1..5 : At(d, k) = t[k]
    BY <1>1, <1>3 DEF Begins
  <2> QED BY <1>1, <2>1
<1>4. Spelled(t, i)
  BY <1>1, <1>3 DEF Spelled
<1> QED BY <1>2, <1>4 DEF Spells

LEMMA SpellsSix ==
  ASSUME NEW a, NEW b, NEW c, NEW p, NEW q, NEW r, <<a, b, c, p, q, r>> \in Seq(Byte),
         NEW i, i # <<"?">>,
         \A d : At(d, 1) = a /\ At(d, 2) = b /\ At(d, 3) = c /\ At(d, 4) = p /\ At(d, 5) = q /\ At(d, 6) = r => (Decode(d) = Ins(i, 6) <=> Encodable(i))
  PROVE  Spells(EMIT(a) \o EMIT(b) \o EMIT(c) \o EMIT(p) \o EMIT(q) \o EMIT(r), i)
<1> DEFINE t == <<a, b, c, p, q, r>>
<1>0. a \in Byte /\ b \in Byte /\ c \in Byte /\ p \in Byte /\ q \in Byte /\ r \in Byte
  <2>1. \A k \in 1..6 : t[k] \in Byte
    OBVIOUS
  <2> QED BY <2>1
<1>1. t \in Seq(Byte) /\ Len(t) = 6 /\ t[1] = a /\ t[2] = b /\ t[3] = c /\ t[4] = p /\ t[5] = q /\ t[6] = r
  OBVIOUS
<1>2. Yields(EMIT(a) \o EMIT(b) \o EMIT(c) \o EMIT(p) \o EMIT(q) \o EMIT(r), t)
  BY <1>0, YieldsBytes
<1> HIDE DEF t
<1>3. ASSUME NEW d, Begins(d, t) PROVE At(d, 1) = a /\ At(d, 2) = b /\ At(d, 3) = c /\ At(d, 4) = p /\ At(d, 5) = q /\ At(d, 6) = r
  <2>1. \A k \in 1..6 : At(d, k) = t[k]
    BY <1>1, <1>3 DEF Begins
  <2> QED BY <1>1, <2>1
<1>4. Spelled(t, i)
  BY <1>1, <1>3 DEF Spelled
<1> QED BY <1>2, <1>4 DEF Spells

(* The same where the last write is an integer.                            *)
LEMMA SpellsOneAndFour ==
  ASSUME NEW a \in Byte, NEW n \in Int,
         NEW i, i # <<"?">>,
         \A d : At(d, 1) = a /\ (\A k \in 0..3 : At(d, 2 + k) = ByteOf(n, k))
                 => (Decode(d) = Ins(i, 5) <=> Encodable(i))
  PROVE  Spells(EMIT(a) \o emit_bytes(n, 4), i)
<1> DEFINE t == <<a>>  w == EMIT(a)
<1>1. t \in Seq(Byte) /\ Len(t) = 1 /\ t[1] = a /\ 4 \in Nat
  OBVIOUS
<1>2. w \in Writes /\ Yields(w, t)
  BY YieldsBytes
<1> HIDE DEF t, w
<1>3. PICK s \in Seq(Byte) :
        /\ Yields(w \o emit_bytes(n, 4), s)
        /\ Len(s) = Len(t) + 4
        /\ \A j \in 1..Len(t) : s[j] = t[j]
        /\ \A j \in 1..4 : s[Len(t) + j] = ByteOf(n, j - 1)
  BY <1>1, <1>2, YieldsInteger, Zenon
<1>4. Len(s) = 5 /\ s[1] = a
  <2>1. \A j \in 1..1 : s[j] = t[j]
    BY <1>1, <1>3
  <2>2. s[1] = a
    BY <1>1, <2>1
  <2>3. Len(s) = 5
    BY <1>1, <1>3
  <2> QED BY <2>2, <2>3
<1>5. \A k \in 0..3 : s[2 + k] = ByteOf(n, k)
  <2> TAKE k \in 0..3
  <2>1. k + 1 \in 1..4 /\ Len(t) + (k + 1) = 2 + k /\ (k + 1) - 1 = k
    BY <1>1
  <2> QED BY <1>3, <2>1
<1>6. ASSUME NEW d, Begins(d, s)
      PROVE  At(d, 1) = a /\ (\A k \in 0..3 : At(d, 2 + k) = ByteOf(n, k))
  <2>0. \A k \in 1..5 : At(d, k) = s[k]
    BY <1>4, <1>6 DEF Begins
  <2>1. At(d, 1) = a
    BY <1>4, <2>0
  <2>2. ASSUME NEW k \in 0..3 PROVE At(d, 2 + k) = ByteOf(n, k)
    BY <1>5, <2>0
  <2> QED BY <2>1, <2>2
<1>7. Spelled(s, i)
  BY <1>4, <1>6 DEF Spelled
<1> QED BY <1>3, <1>7 DEF Spells, w

LEMMA SpellsTwoAndEight ==
  ASSUME NEW a \in Byte, NEW b \in Byte, NEW n \in Int,
         NEW i, i # <<"?">>,
         \A d : At(d, 1) = a /\ At(d, 2) = b /\ (\A k \in 0..7 : At(d, 3 + k) = ByteOf(n, k))
                 => (Decode(d) = Ins(i, 10) <=> Encodable(i))
  PROVE  Spells(EMIT(a) \o EMIT(b) \o emit_bytes(n, 8), i)
<1> DEFINE t == <<a, b>>  w == EMIT(a) \o EMIT(b)
<1>1. t \in Seq(Byte) /\ Len(t) = 2 /\ t[1] = a /\ t[2] = b /\ 8 \in Nat
  OBVIOUS
<1>2. w \in Writes /\ Yields(w, t)
  BY YieldsBytes
<1> HIDE DEF t, w
<1>3. PICK s \in Seq(Byte) :
        /\ Yields(w \o emit_bytes(n, 8), s)
        /\ Len(s) = Len(t) + 8
        /\ \A j \in 1..Len(t) : s[j] = t[j]
        /\ \A j \in 1..8 : s[Len(t) + j] = ByteOf(n, j - 1)
  BY <1>1, <1>2, YieldsInteger, Zenon
<1>4. Len(s) = 10 /\ s[1] = a /\ s[2] = b
  <2>1. \A j \in 1..2 : s[j] = t[j]
    BY <1>1, <1>3
  <2>2. s[1] = a /\ s[2] = b
    BY <1>1, <2>1
  <2>3. Len(s) = 10
    BY <1>1, <1>3
  <2> QED BY <2>2, <2>3
<1>5. \A k \in 0..7 : s[3 + k] = ByteOf(n, k)
  <2> TAKE k \in 0..7
  <2>1. k + 1 \in 1..8 /\ Len(t) + (k + 1) = 3 + k /\ (k + 1) - 1 = k
    BY <1>1
  <2> QED BY <1>3, <2>1
<1>6. ASSUME NEW d, Begins(d, s)
      PROVE  At(d, 1) = a /\ At(d, 2) = b /\ (\A k \in 0..7 : At(d, 3 + k) = ByteOf(n, k))
  <2>0. \A k \in 1..10 : At(d, k) = s[k]
    BY <1>4, <1>6 DEF Begins
  <2>1. At(d, 1) = a /\ At(d, 2) = b
    BY <1>4, <2>0
  <2>2. ASSUME NEW k \in 0..7 PROVE At(d, 3 + k) = ByteOf(n, k)
    BY <1>5, <2>0
  <2> QED BY <2>1, <2>2
<1>7. Spelled(s, i)
  BY <1>4, <1>6 DEF Spelled
<1> QED BY <1>3, <1>7 DEF Spells, w

LEMMA SpellsThreeAndFour ==
  ASSUME NEW a \in Byte, NEW b \in Byte, NEW c \in Byte, NEW n \in Int,
         NEW i, i # <<"?">>,
         \A d : At(d, 1) = a /\ At(d, 2) = b /\ At(d, 3) = c /\ (\A k \in 0..3 : At(d, 4 + k) = ByteOf(n, k))
                 => (Decode(d) = Ins(i, 7) <=> Encodable(i))
  PROVE  Spells(EMIT(a) \o EMIT(b) \o EMIT(c) \o emit_bytes(n, 4), i)
<1> DEFINE t == <<a, b, c>>  w == EMIT(a) \o EMIT(b) \o EMIT(c)
<1>1. t \in Seq(Byte) /\ Len(t) = 3 /\ t[1] = a /\ t[2] = b /\ t[3] = c /\ 4 \in Nat
  OBVIOUS
<1>2. w \in Writes /\ Yields(w, t)
  BY YieldsBytes
<1> HIDE DEF t, w
<1>3. PICK s \in Seq(Byte) :
        /\ Yields(w \o emit_bytes(n, 4), s)
        /\ Len(s) = Len(t) + 4
        /\ \A j \in 1..Len(t) : s[j] = t[j]
        /\ \A j \in 1..4 : s[Len(t) + j] = ByteOf(n, j - 1)
  BY <1>1, <1>2, YieldsInteger, Zenon
<1>4. Len(s) = 7 /\ s[1] = a /\ s[2] = b /\ s[3] = c
  <2>1. \A j \in 1..3 : s[j] = t[j]
    BY <1>1, <1>3
  <2>2. s[1] = a /\ s[2] = b /\ s[3] = c
    BY <1>1, <2>1
  <2>3. Len(s) = 7
    BY <1>1, <1>3
  <2> QED BY <2>2, <2>3
<1>5. \A k \in 0..3 : s[4 + k] = ByteOf(n, k)
  <2> TAKE k \in 0..3
  <2>1. k + 1 \in 1..4 /\ Len(t) + (k + 1) = 4 + k /\ (k + 1) - 1 = k
    BY <1>1
  <2> QED BY <1>3, <2>1
<1>6. ASSUME NEW d, Begins(d, s)
      PROVE  At(d, 1) = a /\ At(d, 2) = b /\ At(d, 3) = c /\ (\A k \in 0..3 : At(d, 4 + k) = ByteOf(n, k))
  <2>0. \A k \in 1..7 : At(d, k) = s[k]
    BY <1>4, <1>6 DEF Begins
  <2>1. At(d, 1) = a /\ At(d, 2) = b /\ At(d, 3) = c
    BY <1>4, <2>0
  <2>2. ASSUME NEW k \in 0..3 PROVE At(d, 4 + k) = ByteOf(n, k)
    BY <1>5, <2>0
  <2> QED BY <2>1, <2>2
<1>7. Spelled(s, i)
  BY <1>4, <1>6 DEF Spelled
<1> QED BY <1>3, <1>7 DEF Spells, w

LEMMA SpellsFourAndFour ==
  ASSUME NEW a \in Byte, NEW b \in Byte, NEW c \in Byte, NEW p \in Byte, NEW n \in Int,
         NEW i, i # <<"?">>,
         \A d : At(d, 1) = a /\ At(d, 2) = b /\ At(d, 3) = c /\ At(d, 4) = p /\ (\A k \in 0..3 : At(d, 5 + k) = ByteOf(n, k))
                 => (Decode(d) = Ins(i, 8) <=> Encodable(i))
  PROVE  Spells(EMIT(a) \o EMIT(b) \o EMIT(c) \o EMIT(p) \o emit_bytes(n, 4), i)
<1> DEFINE t == <<a, b, c, p>>  w == EMIT(a) \o EMIT(b) \o EMIT(c) \o EMIT(p)
<1>1. t \in Seq(Byte) /\ Len(t) = 4 /\ t[1] = a /\ t[2] = b /\ t[3] = c /\ t[4] = p /\ 4 \in Nat
  OBVIOUS
<1>2. w \in Writes /\ Yields(w, t)
  BY YieldsBytes
<1> HIDE DEF t, w
<1>3. PICK s \in Seq(Byte) :
        /\ Yields(w \o emit_bytes(n, 4), s)
        /\ Len(s) = Len(t) + 4
        /\ \A j \in 1..Len(t) : s[j] = t[j]
        /\ \A j \in 1..4 : s[Len(t) + j] = ByteOf(n, j - 1)
  BY <1>1, <1>2, YieldsInteger, Zenon
<1>4. Len(s) = 8 /\ s[1] = a /\ s[2] = b /\ s[3] = c /\ s[4] = p
  <2>1. \A j \in 1..4 : s[j] = t[j]
    BY <1>1, <1>3
  <2>2. s[1] = a /\ s[2] = b /\ s[3] = c /\ s[4] = p
    BY <1>1, <2>1
  <2>3. Len(s) = 8
    BY <1>1, <1>3
  <2> QED BY <2>2, <2>3
<1>5. \A k \in 0..3 : s[5 + k] = ByteOf(n, k)
  <2> TAKE k \in 0..3
  <2>1. k + 1 \in 1..4 /\ Len(t) + (k + 1) = 5 + k /\ (k + 1) - 1 = k
    BY <1>1
  <2> QED BY <1>3, <2>1
<1>6. ASSUME NEW d, Begins(d, s)
      PROVE  At(d, 1) = a /\ At(d, 2) = b /\ At(d, 3) = c /\ At(d, 4) = p /\ (\A k \in 0..3 : At(d, 5 + k) = ByteOf(n, k))
  <2>0. \A k \in 1..8 : At(d, k) = s[k]
    BY <1>4, <1>6 DEF Begins
  <2>1. At(d, 1) = a /\ At(d, 2) = b /\ At(d, 3) = c /\ At(d, 4) = p
    BY <1>4, <2>0
  <2>2. ASSUME NEW k \in 0..3 PROVE At(d, 5 + k) = ByteOf(n, k)
    BY <1>5, <2>0
  <2> QED BY <2>1, <2>2
<1>7. Spelled(s, i)
  BY <1>4, <1>6 DEF Spelled
<1> QED BY <1>3, <1>7 DEF Spells, w

LEMMA YieldsFive ==
  ASSUME NEW a \in Byte, NEW b \in Byte, NEW c \in Byte, NEW p \in Byte, NEW q \in Byte
  PROVE  /\ EMIT(a) \o EMIT(b) \o EMIT(c) \o EMIT(p) \o EMIT(q) \in Writes
         /\ Yields(EMIT(a) \o EMIT(b) \o EMIT(c) \o EMIT(p) \o EMIT(q), <<a, b, c, p, q>>)
  BY YieldsBytes

LEMMA SpellsFiveAndFour ==
  ASSUME NEW a, NEW b, NEW c, NEW p, NEW q, <<a, b, c, p, q>> \in Seq(Byte), NEW n \in Int,
         NEW i, i # <<"?">>,
         \A d : At(d, 1) = a /\ At(d, 2) = b /\ At(d, 3) = c /\ At(d, 4) = p /\ At(d, 5) = q /\ (\A k \in 0..3 : At(d, 6 + k) = ByteOf(n, k))
                 => (Decode(d) = Ins(i, 9) <=> Encodable(i))
  PROVE  Spells(EMIT(a) \o EMIT(b) \o EMIT(c) \o EMIT(p) \o EMIT(q) \o emit_bytes(n, 4), i)
<1> DEFINE t == <<a, b, c, p, q>>  w == EMIT(a) \o EMIT(b) \o EMIT(c) \o EMIT(p) \o EMIT(q)
<1>0. \A k \in 1..5 : t[k] \in Byte
  OBVIOUS
<1>a. a \in Byte
  BY <1>0
<1>b. b \in Byte
  BY <1>0
<1>c. c \in Byte
  BY <1>0
<1>p. p \in Byte
  BY <1>0
<1>q. q \in Byte
  BY <1>0
<1>1. t \in Seq(Byte) /\ Len(t) = 5 /\ t[1] = a /\ t[2] = b /\ t[3] = c /\ t[4] = p /\ t[5] = q /\ 4 \in Nat
  OBVIOUS
<1>2. w \in Writes /\ Yields(w, t)
  BY <1>a, <1>b, <1>c, <1>p, <1>q, YieldsFive
<1> HIDE DEF t, w
<1>3. PICK s \in Seq(Byte) :
        /\ Yields(w \o emit_bytes(n, 4), s)
        /\ Len(s) = Len(t) + 4
        /\ \A j \in 1..Len(t) : s[j] = t[j]
        /\ \A j \in 1..4 : s[Len(t) + j] = ByteOf(n, j - 1)
  <2>1. t \in Seq(Byte) /\ 4 \in Nat
    BY <1>1
  <2> QED BY <1>2, <2>1, YieldsInteger
<1>4. Len(s) = 9 /\ s[1] = a /\ s[2] = b /\ s[3] = c /\ s[4] = p /\ s[5] = q
  <2>1. \A j \in 1..5 : s[j] = t[j]
    BY <1>1, <1>3
  <2>2. s[1] = a /\ s[2] = b /\ s[3] = c /\ s[4] = p /\ s[5] = q
    BY <1>1, <2>1
  <2>3. Len(s) = 9
    BY <1>1, <1>3
  <2> QED BY <2>2, <2>3
<1>5. \A k \in 0..3 : s[6 + k] = ByteOf(n, k)
  <2> TAKE k \in 0..3
  <2>1. k + 1 \in 1..4 /\ Len(t) + (k + 1) = 6 + k /\ (k + 1) - 1 = k
    BY <1>1
  <2> QED BY <1>3, <2>1
<1>6. ASSUME NEW d, Begins(d, s)
      PROVE  At(d, 1) = a /\ At(d, 2) = b /\ At(d, 3) = c /\ At(d, 4) = p /\ At(d, 5) = q /\ (\A k \in 0..3 : At(d, 6 + k) = ByteOf(n, k))
  <2>0. \A k \in 1..9 : At(d, k) = s[k]
    BY <1>4, <1>6 DEF Begins
  <2>1. At(d, 1) = a /\ At(d, 2) = b /\ At(d, 3) = c /\ At(d, 4) = p /\ At(d, 5) = q
    BY <1>4, <2>0
  <2>2. ASSUME NEW k \in 0..3 PROVE At(d, 6 + k) = ByteOf(n, k)
    BY <1>5, <2>0
  <2> QED BY <2>1, <2>2
<1>7. Spelled(s, i)
  BY <1>4, <1>6 DEF Spelled
<1> QED BY <1>3, <1>7 DEF Spells, w

-----------------------------------------------------------------------------
(* Every emitter spells what it is called for.                             *)
LEMMA PushAndPopSpell ==
  ASSUME NEW r \in 0..15
  PROVE  Spells(emit_push(r), <<"push", r>>) /\ Spells(emit_pop(r), <<"pop", r>>)
<1>1. RegCode(r) \in 0..7 /\ RegCode(r) + 8 * Bit(Extended(r)) = r /\ (~Extended(r) => RegCode(r) = r)
  BY RegisterCodes
<1>2. Encodable(<<"push", r>>) /\ Encodable(<<"pop", r>>) /\ <<"push", r>> # <<"?">> /\ <<"pop", r>> # <<"?">>
  BY DEF Encodable, XmmOpcodes
<1>3. CASE Extended(r)
  <2>1. 80 + RegCode(r) \in Byte /\ 88 + RegCode(r) \in Byte /\ 65 \in Byte
    BY <1>1 DEF Byte
  <2>2. RegCode(r) + 8 * 1 = r
    BY <1>1, <1>3 DEF Bit
  <2>3. ASSUME NEW d, At(d, 1) = 65
        PROVE  Prefix(d) = 0 /\ OpPlace(d) = 2 /\ B(d) = 1
    BY <2>3 DEF Prefix, RexPlace, HasRex, Rex, OpPlace, B
  <2>4. ASSUME NEW d, At(d, 1) = 65, At(d, 2) = 80 + RegCode(r)
        PROVE  Decode(d) = Ins(<<"push", r>>, 2)
    <3>1. Decode(d) = Ins(<<"push", RegCode(r) + 8 * B(d)>>, 2)
      BY <1>1, <2>3, <2>4, DecodesPush
    <3> QED BY <2>2, <2>3, <2>4, <3>1
  <2>5. ASSUME NEW d, At(d, 1) = 65, At(d, 2) = 88 + RegCode(r)
        PROVE  Decode(d) = Ins(<<"pop", r>>, 2)
    <3>1. Decode(d) = Ins(<<"pop", RegCode(r) + 8 * B(d)>>, 2)
      BY <1>1, <2>3, <2>5, DecodesPop
    <3> QED BY <2>2, <2>3, <2>5, <3>1
  <2>6. Spells(EMIT(65) \o EMIT(80 + RegCode(r)), <<"push", r>>)
    BY <1>2, <2>1, <2>4, SpellsTwo
  <2>7. Spells(EMIT(65) \o EMIT(88 + RegCode(r)), <<"pop", r>>)
    BY <1>2, <2>1, <2>5, SpellsTwo
  <2> QED BY <1>3, <2>6, <2>7 DEF emit_push, emit_pop, WithRegister
<1>4. CASE ~Extended(r)
  <2>1. 80 + r \in Byte /\ 88 + r \in Byte /\ r \in 0..7 /\ r + 8 * 0 = r
    BY <1>1, <1>4 DEF Byte
  <2>3. ASSUME NEW d, At(d, 1) \in 80..95
        PROVE  Prefix(d) = 0 /\ OpPlace(d) = 1 /\ B(d) = 0
    BY <2>3 DEF Prefix, RexPlace, HasRex, Rex, OpPlace, B
  <2>4. ASSUME NEW d, At(d, 1) = 80 + r
        PROVE  Decode(d) = Ins(<<"push", r>>, 1)
    <3>1. At(d, 1) \in 80..95
      BY <2>1, <2>4
    <3>2. Decode(d) = Ins(<<"push", r + 8 * B(d)>>, 1)
      BY <2>1, <2>3, <2>4, <3>1, DecodesPush
    <3> QED BY <2>1, <2>3, <3>1, <3>2
  <2>5. ASSUME NEW d, At(d, 1) = 88 + r
        PROVE  Decode(d) = Ins(<<"pop", r>>, 1)
    <3>1. At(d, 1) \in 80..95
      BY <2>1, <2>5
    <3>2. Decode(d) = Ins(<<"pop", r + 8 * B(d)>>, 1)
      BY <2>1, <2>3, <2>5, <3>1, DecodesPop
    <3> QED BY <2>1, <2>3, <3>1, <3>2
  <2>6. Spells(EMIT(80 + r), <<"push", r>>)
    BY <1>2, <2>1, <2>4, SpellsOne
  <2>7. Spells(EMIT(88 + r), <<"pop", r>>)
    BY <1>2, <2>1, <2>5, SpellsOne
  <2> QED BY <1>4, <2>6, <2>7 DEF emit_push, emit_pop, WithRegister
<1> QED BY <1>3, <1>4

(* The immediate of one byte is taken for frames below 128 only.           *)
LEMMA RspMovesSpell ==
  ASSUME NEW n \in Nat \ {0}
  PROVE  Spells(emit_sub_rsp(n), <<"sub_i", 4, n>>) /\ Spells(emit_add_rsp(n), <<"add_i", 4, n>>)
<1>1. ASSUME NEW f \in {236, 196}, NEW name, name = (IF f = 236 THEN "sub_i" ELSE "add_i")
      PROVE  Spells(MoveRsp(f, n), <<name, 4, n>>)
  <2> DEFINE i == <<name, 4, n>>
  <2>1. i # <<"?">> /\ (Encodable(i) <=> n \in Int32)
    BY <1>1, SMT DEF Encodable, XmmOpcodes
  <2>2. 72 \in Byte /\ 131 \in Byte /\ 129 \in Byte /\ f \in Byte
    BY DEF Byte
  <2>3. ASSUME NEW d, At(d, 1) = 72, At(d, 3) = f
        PROVE  /\ Prefix(d) = 0 /\ OpPlace(d) = 2 /\ W(d) = 1
               /\ Mod(d, 3) = 3 /\ Rm(d, 3) = 4 /\ Reg(d, 3) = (IF f = 236 THEN 5 ELSE 0)
    <3>1. 72 = make_rex(FALSE, FALSE)
      BY DEF make_rex
    <3>2. Prefix(d) = 0 /\ OpPlace(d) = 2 /\ W(d) = 1 /\ R(d) = 0 /\ B(d) = 0
      BY <2>3, <3>1, WithRex DEF Bit
    <3> QED BY <2>3, <3>2 DEF Mod, Reg, Rm
  <2>4. CASE n < 128
    <3>1. n \in Byte /\ n \in -128..127 /\ n % 256 = n /\ n \in Int32
      BY <2>4, SMT DEF Byte, Int32
    <3>2. ASSUME NEW d, At(d, 1) = 72, At(d, 2) = 131, At(d, 3) = f, At(d, 4) = n
          PROVE  Decode(d) = Ins(i, 4)
      <4>1. Signed8(d, 4) = n
        BY <3>1, <3>2, OneSigned
      <4>2. /\ Prefix(d) = 0 /\ OpPlace(d) = 2 /\ W(d) = 1
            /\ Mod(d, 3) = 3 /\ Rm(d, 3) = 4 /\ Reg(d, 3) = (IF f = 236 THEN 5 ELSE 0)
        BY <2>3, <3>2
      <4>3. Decode(d) = Ins(<<name, Rm(d, 3), Signed8(d, 4)>>, 4)
        BY <1>1, <3>2, <4>2, DecodesWide
      <4> QED BY <4>1, <4>2, <4>3
    <3> HIDE DEF i
    <3>3. Spells(EMIT(72) \o EMIT(131) \o EMIT(f) \o EMIT(n), i)
      BY <2>1, <2>2, <3>1, <3>2, SpellsFour
    <3> QED BY <2>4, <3>3 DEF MoveRsp, i
  <2>5. CASE ~(n < 128)
    <3>1. ASSUME NEW d, At(d, 1) = 72, At(d, 2) = 129, At(d, 3) = f, \A k \in 0..3 : At(d, 4 + k) = ByteOf(n, k)
          PROVE  Decode(d) = Ins(i, 7) <=> Encodable(i)
      <4>1. Signed32(d, 4) \in Int32 /\ (n \in Int32 => Signed32(d, 4) = n)
        BY <3>1, FourSigned
      <4>2. Decode(d) = Ins(<<name, 4, Signed32(d, 4)>>, 7)
        <5>1. /\ Prefix(d) = 0 /\ OpPlace(d) = 2 /\ W(d) = 1
              /\ Mod(d, 3) = 3 /\ Rm(d, 3) = 4 /\ Reg(d, 3) = (IF f = 236 THEN 5 ELSE 0)
          BY <2>3, <3>1
        <5>2. Decode(d) = Ins(<<name, Rm(d, 3), Signed32(d, 4)>>, 7)
          BY <1>1, <3>1, <5>1, DecodesWide
        <5> QED BY <5>1, <5>2
      <4>3. Signed32(d, 4) # n => Ins(<<name, 4, Signed32(d, 4)>>, 7) # Ins(i, 7)
        BY DEF Ins
      <4> QED BY <2>1, <4>1, <4>2, <4>3
    <3> HIDE DEF i
    <3>3. Spells(EMIT(72) \o EMIT(129) \o EMIT(f) \o emit_bytes(n, 4), i)
      BY <2>1, <2>2, <3>1, SpellsThreeAndFour
    <3> QED BY <2>5, <3>3 DEF MoveRsp, i
  <2> QED BY <2>4, <2>5
<1>2. Spells(MoveRsp(236, n), <<"sub_i", 4, n>>) /\ Spells(MoveRsp(196, n), <<"add_i", 4, n>>)
  BY <1>1
<1> QED BY <1>2 DEF emit_sub_rsp, emit_add_rsp

(* Calls and jumps: a rel8 in -128..127 comes back with its sign, an offset *)
(* of 32 bits too, and a longer one as something else.                     *)
LEMMA TransfersSpell ==
  /\ \A n \in Int : Spells(emit_call(n), <<"call", n>>) /\ Spells(emit_jmp_rel32(n), <<"jmp", n>>)
  /\ \A j \in DOMAIN Rel8Opcodes, n \in -128..127 : Spells(emit_rel8(Rel8Opcodes[j], n), <<j, n>>)
  /\ Spells(emit_ret, <<"ret">>) /\ Spells(emit_syscall, <<"syscall">>)
  /\ Spells(emit_nop, <<"nop">>) /\ Spells(emit_int3, <<"int3">>)
<1>1. ASSUME NEW d, At(d, 1) \in {15, 144, 195, 204, 232, 233, 235, 116, 117, 127, 125, 124, 126}
      PROVE  Prefix(d) = 0 /\ OpPlace(d) = 1
  BY <1>1 DEF Prefix, RexPlace, HasRex, OpPlace
<1>2. ASSUME NEW n \in Int, NEW op \in {232, 233}, NEW name, name = (IF op = 232 THEN "call" ELSE "jmp")
      PROVE  Spells(EMIT(op) \o emit_bytes(n, 4), <<name, n>>)
  <2> DEFINE i == <<name, n>>
  <2>1. i # <<"?">> /\ (Encodable(i) <=> n \in Int32) /\ op \in Byte
    BY <1>2, SMT DEF Encodable, XmmOpcodes, Byte
  <2>2. ASSUME NEW d, At(d, 1) = op, \A k \in 0..3 : At(d, 2 + k) = ByteOf(n, k)
        PROVE  Decode(d) = Ins(i, 5) <=> Encodable(i)
    <3>1. Signed32(d, 2) \in Int32 /\ (n \in Int32 => Signed32(d, 2) = n)
      BY <2>2, FourSigned
    <3>2. Decode(d) = Ins(<<name, Signed32(d, 2)>>, 5)
      <4>1. Prefix(d) = 0 /\ OpPlace(d) = 1
        BY <1>1, <2>2
      <4> QED BY <1>2, <2>2, <4>1, DecodesPlain
    <3>3. Signed32(d, 2) # n => Ins(<<name, Signed32(d, 2)>>, 5) # Ins(i, 5)
      BY DEF Ins
    <3> QED BY <2>1, <3>1, <3>2, <3>3
  <2> HIDE DEF i
  <2>3. Spells(EMIT(op) \o emit_bytes(n, 4), i)
    BY <2>1, <2>2, SpellsOneAndFour
  <2> QED BY <2>3 DEF i
<1>3. \A n \in Int : Spells(emit_call(n), <<"call", n>>) /\ Spells(emit_jmp_rel32(n), <<"jmp", n>>)
  BY <1>2 DEF emit_call, emit_jmp_rel32
<1>4. ASSUME NEW j \in DOMAIN Rel8Opcodes, NEW n \in -128..127
      PROVE  Spells(emit_rel8(Rel8Opcodes[j], n), <<j, n>>)
  <2> DEFINE i == <<j, n>>
             op == Rel8Opcodes[j]
  <2>1. n \in Int32
    BY SMT DEF Int32
  <2>2. i # <<"?">> /\ Encodable(i)
    BY <2>1 DEF Encodable, XmmOpcodes, Rel8Opcodes
  <2>3. op \in {235, 116, 117, 127, 125, 124, 126} /\ op \in Byte
    BY DEF Rel8Opcodes, Byte
  <2>4. n % 256 \in Byte
    BY DEF Byte
  <2>5. ASSUME NEW d, At(d, 1) = op, At(d, 2) = n % 256
        PROVE  Decode(d) = Ins(i, 2)
    <3>1. Signed8(d, 2) = n
      BY <2>5, OneSigned
    <3>2. Prefix(d) = 0 /\ OpPlace(d) = 1
      BY <1>1, <2>3, <2>5
    <3>3. Decode(d) = Ins(<<j, Signed8(d, 2)>>, 2)
      BY <2>5, <3>2, DecodesPlain
    <3> QED BY <3>1, <3>3
  <2> HIDE DEF i, op
  <2>6. Spells(EMIT(op) \o EMIT(n % 256), i)
    BY <2>2, <2>3, <2>4, <2>5, SpellsTwo
  <2> QED BY <2>6 DEF emit_rel8, i, op
<1>5. ASSUME NEW op \in {195, 144, 204}, NEW name,
             name = (CASE op = 195 -> "ret" [] op = 144 -> "nop" [] op = 204 -> "int3")
      PROVE  Spells(EMIT(op), <<name>>)
  <2> DEFINE i == <<name>>
  <2>1. i # <<"?">> /\ Encodable(i) /\ op \in Byte
    BY <1>5 DEF Encodable, XmmOpcodes, Byte
  <2>2. ASSUME NEW d, At(d, 1) = op PROVE Decode(d) = Ins(i, 1)
    <3>1. Prefix(d) = 0 /\ OpPlace(d) = 1
      BY <1>1, <2>2
    <3> QED BY <1>5, <2>2, <3>1, DecodesPlain
  <2> HIDE DEF i
  <2>3. Spells(EMIT(op), i)
    BY <2>1, <2>2, SpellsOne
  <2> QED BY <2>3 DEF i
<1>6. Spells(emit_ret, <<"ret">>) /\ Spells(emit_nop, <<"nop">>) /\ Spells(emit_int3, <<"int3">>)
  BY <1>5 DEF emit_ret, emit_nop, emit_int3
<1>7. Spells(emit_syscall, <<"syscall">>)
  <2> DEFINE i == <<"syscall">>
  <2>1. i # <<"?">> /\ Encodable(i) /\ 15 \in Byte /\ 5 \in Byte
    BY DEF Encodable, XmmOpcodes, Byte
  <2>2. ASSUME NEW d, At(d, 1) = 15, At(d, 2) = 5 PROVE Decode(d) = Ins(i, 2)
    <3>1. Prefix(d) = 0 /\ OpPlace(d) = 1
      BY <1>1, <2>2
    <3> QED BY <2>2, <3>1, DecodesPlain
  <2> HIDE DEF i
  <2>3. Spells(EMIT(15) \o EMIT(5), i)
    BY <2>1, <2>2, SpellsTwo
  <2> QED BY <2>3 DEF i, emit_syscall
<1> QED BY <1>3, <1>4, <1>6, <1>7

LEMMA WideFields ==
  ASSUME NEW d, NEW x \in BOOLEAN, NEW y \in BOOLEAN, NEW a \in 0..15, NEW c \in 0..15,
         At(d, 1) = make_rex(x, y), At(d, 3) = ModRM(3, a, c)
  PROVE  /\ Prefix(d) = 0 /\ OpPlace(d) = 2 /\ W(d) = 1 /\ Mod(d, 3) = 3
         /\ Reg(d, 3) = RegCode(a) + 8 * Bit(x) /\ Rm(d, 3) = RegCode(c) + 8 * Bit(y)
<1>1. Prefix(d) = 0 /\ OpPlace(d) = 2 /\ W(d) = 1 /\ R(d) = Bit(x) /\ B(d) = Bit(y)
  BY WithRex
<1>2. Mod(d, 3) = 3 /\ Reg(d, 3) = RegCode(a) + 8 * Bit(x) /\ Rm(d, 3) = RegCode(c) + 8 * Bit(y)
  BY <1>1, Operands
<1> QED BY <1>1, <1>2

LEMMA RexIsAByte ==
  ASSUME NEW x \in BOOLEAN, NEW y \in BOOLEAN
  PROVE  make_rex(x, y) \in Byte
  BY DEF make_rex, Byte

(* mov comes out the other way round, cmp, add and sub with R and B         *)
(* crosswise, div and mul on rax: Encodable says where this is no harm.    *)
LEMMA RegistersSpell ==
  ASSUME NEW a \in 0..15, NEW c \in 0..15
  PROVE  /\ Spells(emit_move_rr(a, c), <<"mov", a, c>>)
         /\ \A o \in DOMAIN RROpcodes : Spells(emit_rr(RROpcodes[o], a, c), <<o, a, c>>)
         /\ Spells(emit_div_rr(a, c), <<"div", a, c>>)
         /\ Spells(emit_mul_rr(a, c), <<"mul", a, c>>)
         /\ \A n \in Int32 : Spells(emit_mov_ri(a, n), <<"mov_i", a, n>>)
<1>1. /\ RegCode(a) \in 0..7 /\ RegCode(a) + 8 * Bit(Extended(a)) = a
      /\ RegCode(c) \in 0..7 /\ RegCode(c) + 8 * Bit(Extended(c)) = c
  BY RegisterCodes
<1>2. Extended(a) \in BOOLEAN /\ Extended(c) \in BOOLEAN
  BY DEF Extended
<1>3. /\ make_rex(Extended(a), Extended(c)) \in Byte /\ make_rex(FALSE, Extended(c)) \in Byte
      /\ make_rex(FALSE, Extended(a)) \in Byte
  BY <1>2, RexIsAByte
<1>4. /\ ModRM(3, a, c) \in Byte /\ ModRM(3, c, a) \in Byte /\ ModRM(3, 4, c) \in Byte /\ ModRM(3, 6, c) \in Byte
  BY Fields
<1>5. Spells(emit_move_rr(a, c), <<"mov", a, c>>)
  <2> DEFINE i == <<"mov", a, c>>
  <2>1. i # <<"?">> /\ (Encodable(i) <=> a = c) /\ 137 \in Byte
    BY DEF Encodable, XmmOpcodes, Byte
  <2>2. ASSUME NEW d, At(d, 1) = make_rex(Extended(a), Extended(c)), At(d, 2) = 137, At(d, 3) = ModRM(3, a, c)
        PROVE  Decode(d) = Ins(i, 3) <=> Encodable(i)
    <3>1. /\ Prefix(d) = 0 /\ OpPlace(d) = 2 /\ W(d) = 1 /\ Mod(d, 3) = 3
          /\ Reg(d, 3) = a /\ Rm(d, 3) = c
      BY <1>1, <1>2, <2>2, WideFields
    <3>2. Decode(d) = Ins(<<"mov", c, a>>, 3)
      BY <2>2, <3>1, DecodesWide
    <3>3. a # c => Ins(<<"mov", c, a>>, 3) # Ins(i, 3)
      BY DEF Ins
    <3> QED BY <2>1, <3>2, <3>3
  <2> HIDE DEF i
  <2>3. Spells(EMIT(make_rex(Extended(a), Extended(c))) \o EMIT(137) \o EMIT(ModRM(3, a, c)), i)
    BY <1>3, <1>4, <2>1, <2>2, SpellsThree
  <2> QED BY <2>3 DEF i, emit_move_rr
<1>6. ASSUME NEW o \in DOMAIN RROpcodes
      PROVE  Spells(emit_rr(RROpcodes[o], a, c), <<o, a, c>>)
  <2> DEFINE i == <<o, a, c>>
             op == RROpcodes[o]
  <2>1. i # <<"?">> /\ (Encodable(i) <=> Extended(a) = Extended(c)) /\ op \in Byte
    BY DEF Encodable, XmmOpcodes, RROpcodes, SameHalf, Byte
  <2>2. ASSUME NEW d, At(d, 1) = make_rex(Extended(a), Extended(c)), At(d, 2) = op, At(d, 3) = ModRM(3, c, a)
        PROVE  Decode(d) = Ins(i, 3) <=> Encodable(i)
    <3> DEFINE rm == RegCode(a) + 8 * Bit(Extended(c))
               rg == RegCode(c) + 8 * Bit(Extended(a))
    <3>1. /\ Prefix(d) = 0 /\ OpPlace(d) = 2 /\ W(d) = 1 /\ Mod(d, 3) = 3
          /\ Reg(d, 3) = rg /\ Rm(d, 3) = rm
      BY <1>2, <2>2, WideFields
    <3>2. Decode(d) = Ins(<<o, rm, rg>>, 3)
      BY <2>2, <3>1, DecodesWide
    <3>3. Extended(a) = Extended(c) => rm = a /\ rg = c
      BY <1>1
    <3>4. Extended(a) # Extended(c) => rm # a
      BY <1>1, <1>2 DEF Bit
    <3>5. rm # a => Ins(<<o, rm, rg>>, 3) # Ins(i, 3)
      BY DEF Ins
    <3> HIDE DEF rm, rg
    <3> QED BY <2>1, <3>2, <3>3, <3>4, <3>5
  <2> HIDE DEF i, op
  <2>3. Spells(EMIT(make_rex(Extended(a), Extended(c))) \o EMIT(op) \o EMIT(ModRM(3, c, a)), i)
    BY <1>3, <1>4, <2>1, <2>2, SpellsThree
  <2> QED BY <2>3 DEF i, op, emit_rr
<1>7. ASSUME NEW e \in {4, 6}, NEW name, name = (IF e = 4 THEN "mul" ELSE "div")
      PROVE  Spells(emit_unary(e, c), <<name, a, c>>)
  <2> DEFINE i == <<name, a, c>>
             rex == make_rex(FALSE, Extended(c))
  <2>1. rex \in Byte
    BY <1>3
  <2>5. ModRM(3, e, c) \in Byte
    BY <1>4
  <2>6. i # <<"?">> /\ (Encodable(i) <=> a = 0) /\ 247 \in Byte
    BY <1>7 DEF Encodable, XmmOpcodes, Byte
  <2> HIDE DEF rex
  <2>2. ASSUME NEW d, At(d, 1) = rex, At(d, 2) = 247, At(d, 3) = ModRM(3, e, c)
        PROVE  Decode(d) = Ins(i, 3) <=> Encodable(i)
    <3>1. RegCode(e) = e /\ e \in 0..15 /\ RegCode(e) + 8 * Bit(Extended(0)) = e /\ Extended(0) \in BOOLEAN
      BY DEF RegCode, Bit, Extended
    <3>2. At(d, 1) = make_rex(Extended(0), Extended(c))
      BY <2>2 DEF make_rex, Extended, rex
    <3>3. /\ Prefix(d) = 0 /\ OpPlace(d) = 2 /\ W(d) = 1 /\ Mod(d, 3) = 3
          /\ Reg(d, 3) = e /\ Rm(d, 3) = c
      BY <1>1, <1>2, <2>2, <3>1, <3>2, WideFields
    <3>4. Decode(d) = Ins(<<name, 0, c>>, 3)
      BY <1>7, <2>2, <3>3, DecodesWide
    <3>5. a # 0 => Ins(<<name, 0, c>>, 3) # Ins(i, 3)
      BY DEF Ins
    <3> QED BY <2>6, <3>4, <3>5
  <2> HIDE DEF i
  <2>3. Spells(EMIT(rex) \o EMIT(247) \o EMIT(ModRM(3, e, c)), i)
    BY <2>1, <2>2, <2>5, <2>6, SpellsThree
  <2> QED BY <2>3 DEF i, rex, emit_unary
<1>8. Spells(emit_div_rr(a, c), <<"div", a, c>>) /\ Spells(emit_mul_rr(a, c), <<"mul", a, c>>)
  BY <1>7 DEF emit_div_rr, emit_mul_rr
<1>9. ASSUME NEW n \in Int32
      PROVE  Spells(emit_mov_ri(a, n), <<"mov_i", a, n>>)
  <2> DEFINE i == <<"mov_i", a, n>>
             rex == make_rex(FALSE, Extended(a))
  <2>1. i # <<"?">> /\ Encodable(i) /\ n \in Int
    BY SMT DEF Encodable, XmmOpcodes, Int32
  <2>2. rex \in Byte
    BY <1>3
  <2>5. 184 + RegCode(a) \in Byte
    BY <1>1 DEF Byte
  <2> HIDE DEF rex
  <2>3. ASSUME NEW d, At(d, 1) = rex, At(d, 2) = 184 + RegCode(a),
               \A k \in 0..7 : At(d, 3 + k) = ByteOf(n, k)
        PROVE  Decode(d) = Ins(i, 10)
    <3>1. \A k \in 0..3 : At(d, 3 + k) = ByteOf(n, k)
      BY <2>3
    <3>2. Signed32(d, 3) = n
      BY <2>1, <3>1, FourSigned
    <3>3. Prefix(d) = 0 /\ OpPlace(d) = 2 /\ W(d) = 1 /\ B(d) = Bit(Extended(a))
      <4>1. At(d, 1) = make_rex(Extended(0), Extended(a)) /\ Extended(0) \in BOOLEAN
        BY <2>3 DEF make_rex, Extended, rex
      <4> QED BY <1>2, <4>1, WithRex
    <3>4. B(d) \in {0, 1}
      BY <3>3 DEF Bit
    <3>5. Decode(d) = Ins(<<"mov_i", RegCode(a) + 8 * B(d), Signed32(d, 3)>>, 10)
      BY <1>1, <2>3, <3>3, <3>4, DecodesImmediate
    <3> QED BY <1>1, <3>2, <3>3, <3>5
  <2> HIDE DEF i
  <2>4. Spells(EMIT(rex) \o EMIT(184 + RegCode(a)) \o emit_bytes(n, 8), i)
    BY <2>1, <2>2, <2>3, <2>5, SpellsTwoAndEight
  <2> QED BY <2>4 DEF i, rex, emit_mov_ri
<1> QED BY <1>5, <1>6, <1>8, <1>9

LEMMA OrOfCodes ==
  ASSUME NEW x \in 0..15, NEW y \in 0..15
  PROVE  /\ OrCodes(x, y) \in 0..7
         /\ x = 0 /\ Low(y) => OrCodes(x, y) = y
<1>1. OrCodes(x, y) \in 0..7
  BY DEF OrCodes
<1>2. ASSUME x = 0, y < 8
      PROVE  OrCodes(x, y) = y
  BY <1>2 DEF OrCodes
<1> QED BY <1>1, <1>2 DEF Low, Extended

(* Between SSE registers the upper bit of a number is lost, and a movsd     *)
(* names xmm0 whatever its destination is.                                 *)
LEMMA XmmPairsSpell ==
  ASSUME NEW x \in 0..15, NEW y \in 0..15
  PROVE  /\ Spells(emit_movsd(x, y), <<"movsd", x, y>>)
         /\ \A o \in DOMAIN XmmOpcodes :
              Spells(emit_xmm_xmm(XmmOpcodes[o][1], XmmOpcodes[o][2], x, y), <<o, x, y>>)
<1>1. /\ RegCode(x) \in 0..7 /\ (~Extended(x) => RegCode(x) = x) /\ (Extended(x) => RegCode(x) # x)
      /\ RegCode(y) \in 0..7 /\ (~Extended(y) => RegCode(y) = y) /\ (Extended(y) => RegCode(y) # y)
  BY RegisterCodes
<1>2. ASSUME NEW d, At(d, 1) \in {102, 242}, At(d, 2) = 15, NEW a \in 0..15, NEW c \in 0..15,
             At(d, 4) = ModRM(3, a, c)
      PROVE  /\ Prefix(d) = At(d, 1) /\ OpPlace(d) = 2 /\ W(d) = 0 /\ Mod(d, 4) = 3
             /\ Reg(d, 4) = RegCode(a) /\ Rm(d, 4) = RegCode(c)
  <2>1. Prefix(d) = At(d, 1) /\ OpPlace(d) = 2 /\ W(d) = 0 /\ R(d) = 0 /\ B(d) = 0
    BY <1>2, WithPrefix
  <2>2. RegCode(a) \in 0..7 /\ RegCode(c) \in 0..7
    BY RegisterCodes
  <2>3. Bit(Extended(0)) = 0
    BY DEF Bit, Extended
  <2>4. Mod(d, 4) = 3 /\ Reg(d, 4) = RegCode(a) + 8 * Bit(Extended(0)) /\ Rm(d, 4) = RegCode(c) + 8 * Bit(Extended(0))
    <3>1. R(d) = Bit(Extended(0)) /\ B(d) = Bit(Extended(0)) /\ 3 \in 0..3
      BY <2>1, <2>3
    <3> QED BY <1>2, <3>1, Operands
  <2> QED BY <2>1, <2>2, <2>3, <2>4
<1>3. Spells(emit_movsd(x, y), <<"movsd", x, y>>)
  <2> DEFINE c == OrCodes(x, y)
             i == <<"movsd", x, y>>
  <2>1. c \in 0..7 /\ (x = 0 /\ Low(y) => c = y)
    BY OrOfCodes
  <2>2. i # <<"?">> /\ (Encodable(i) <=> x = 0 /\ Low(y))
    BY DEF Encodable, XmmOpcodes
  <2>3. 242 \in Byte /\ 15 \in Byte /\ 16 \in Byte /\ 192 + c \in Byte
    BY <2>1 DEF Byte
  <2> HIDE DEF c
  <2>4. 192 + c = ModRM(3, 0, c) /\ RegCode(0) = 0 /\ RegCode(c) = c /\ c \in 0..15 /\ 0 \in 0..15
    BY <2>1 DEF ModRM, RegCode
  <2>5. ASSUME NEW d, At(d, 1) = 242, At(d, 2) = 15, At(d, 3) = 16, At(d, 4) = 192 + c
        PROVE  Decode(d) = Ins(i, 4) <=> Encodable(i)
    <3>1. At(d, 1) \in {102, 242} /\ At(d, 4) = ModRM(3, 0, c)
      BY <2>4, <2>5
    <3>2. Prefix(d) = 242 /\ OpPlace(d) = 2 /\ W(d) = 0 /\ Mod(d, 4) = 3 /\ Reg(d, 4) = 0 /\ Rm(d, 4) = c
      BY <1>2, <2>4, <2>5, <3>1
    <3>3. Decode(d) = Ins(<<"movsd", 0, c>>, 4)
      <4>1. Prefix(d) \in {102, 242} /\ At(d, 2) = 15
        BY <2>5, <3>2
      <4> QED BY <2>5, <3>2, <4>1, DecodesXmms
    <3>4. Ins(<<"movsd", 0, c>>, 4) = Ins(i, 4) <=> x = 0 /\ y = c
      BY DEF Ins
    <3>5. y = c => Low(y)
      BY <2>1 DEF Low, Extended
    <3> QED BY <2>1, <2>2, <3>3, <3>4, <3>5
  <2> HIDE DEF i
  <2>6. Spells(EMIT(242) \o EMIT(15) \o EMIT(16) \o EMIT(192 + c), i)
    BY <2>2, <2>3, <2>5, SpellsFour
  <2> QED BY <2>6 DEF c, i, emit_movsd
<1>4. ASSUME NEW o \in DOMAIN XmmOpcodes
      PROVE  Spells(emit_xmm_xmm(XmmOpcodes[o][1], XmmOpcodes[o][2], x, y), <<o, x, y>>)
  <2> DEFINE p == XmmOpcodes[o][1]
             op == XmmOpcodes[o][2]
             i == <<o, x, y>>
  <2>1. i # <<"?">> /\ (Encodable(i) <=> Low(x) /\ Low(y))
    BY DEF Encodable, XmmOpcodes
  <2>2. p \in {102, 242} /\ p \in Byte /\ 15 \in Byte /\ op \in Byte
    BY DEF XmmOpcodes, Byte
  <2>3. ModRM(3, x, y) \in Byte
    BY DEF ModRM, RegCode, Byte
  <2> HIDE DEF p, op
  <2>4. ASSUME NEW d, At(d, 1) = p, At(d, 2) = 15, At(d, 3) = op, At(d, 4) = ModRM(3, x, y)
        PROVE  Decode(d) = Ins(i, 4) <=> Encodable(i)
    <3>1. At(d, 1) \in {102, 242}
      BY <2>2, <2>4
    <3>2. /\ Prefix(d) = p /\ Prefix(d) \in {102, 242} /\ OpPlace(d) = 2 /\ W(d) = 0 /\ Mod(d, 4) = 3
          /\ Reg(d, 4) = RegCode(x) /\ Rm(d, 4) = RegCode(y)
      BY <1>2, <2>2, <2>4, <3>1
    <3>3. Decode(d) = Ins(<<o, RegCode(x), RegCode(y)>>, 4)
      <4>1. Prefix(d) = XmmOpcodes[o][1] /\ At(d, 3) = XmmOpcodes[o][2] /\ At(d, 2) = 15
        BY <2>4, <3>2 DEF p, op
      <4>2. Decode(d) = Ins(<<o, Reg(d, 4), Rm(d, 4)>>, 4)
        BY <3>2, <4>1, DecodesXmms
      <4> QED BY <3>2, <4>2
    <3>4. Ins(<<o, RegCode(x), RegCode(y)>>, 4) = Ins(i, 4) <=> x = RegCode(x) /\ y = RegCode(y)
      BY DEF Ins
    <3> QED BY <1>1, <2>1, <3>3, <3>4 DEF Low
  <2>6. i # <<"?">>
    BY <2>1
  <2> HIDE DEF i
  <2>5. Spells(EMIT(p) \o EMIT(15) \o EMIT(op) \o EMIT(ModRM(3, x, y)), i)
    <3>1. p \in Byte /\ 15 \in Byte /\ op \in Byte
      BY <2>2
    <3> QED BY <2>3, <2>4, <2>6, <3>1, SpellsFour
  <2> QED BY <2>5 DEF p, op, i, emit_xmm_xmm
<1> QED BY <1>3, <1>4

(* A conversion, with REX behind its opcode, is never understood.           *)
LEMMA ConversionsSpell ==
  ASSUME NEW x \in 0..15, NEW r \in 0..15
  PROVE  /\ Spells(emit_cvtsi2sd(x, r), <<"cvtsi2sd", x, r>>)
         /\ Spells(emit_cvtsd2si(r, x), <<"cvtsd2si", r, x>>)
<1>1. ASSUME NEW o \in {42, 45}, NEW i, i # <<"?">>, ~Encodable(i), NEW rex \in Byte, NEW m \in Byte
      PROVE  Spells(EMIT(242) \o EMIT(15) \o EMIT(o) \o EMIT(rex) \o EMIT(m), i)
  <2>1. 242 \in Byte /\ 15 \in Byte /\ o \in Byte
    BY DEF Byte
  <2>2. ASSUME NEW d, At(d, 1) = 242, At(d, 2) = 15, At(d, 3) = o, At(d, 4) = rex, At(d, 5) = m
        PROVE  Decode(d) = Ins(i, 5) <=> Encodable(i)
    <3>1. Prefix(d) = 242 /\ OpPlace(d) = 2 /\ W(d) = 0
      BY <2>2, WithPrefix
    <3>2. Decode(d) = Bad(2)
      <4>1. Prefix(d) \in {102, 242} /\ At(d, 2) = 15 /\ At(d, 3) \in {42, 45}
        BY <1>1, <2>2, <3>1
      <4> QED BY <3>1, <4>1, DecodesXmms
    <3>3. Bad(2) # Ins(i, 5)
      BY DEF Bad, Ins
    <3> QED BY <1>1, <3>2, <3>3
  <2> QED BY <1>1, <2>1, <2>2, SpellsFive
<1>2. /\ <<"cvtsi2sd", x, r>> # <<"?">> /\ ~Encodable(<<"cvtsi2sd", x, r>>)
      /\ <<"cvtsd2si", r, x>> # <<"?">> /\ ~Encodable(<<"cvtsd2si", r, x>>)
  BY DEF Encodable, XmmOpcodes
<1>3. Extended(r) \in BOOLEAN
  BY DEF Extended
<1>4. make_rex(FALSE, Extended(r)) \in Byte /\ make_rex(Extended(r), FALSE) \in Byte
  BY <1>3, RexIsAByte
<1>5. ModRM(3, x, r) \in Byte /\ ModRM(3, r, x) \in Byte
  BY DEF ModRM, RegCode, Byte
<1>6. Spells(emit_cvtsi2sd(x, r), <<"cvtsi2sd", x, r>>)
  <2> DEFINE i == <<"cvtsi2sd", x, r>>
             rex == make_rex(FALSE, Extended(r))
  <2>1. rex \in Byte
    BY <1>4
  <2>2. i # <<"?">> /\ ~Encodable(i)
    BY <1>2
  <2> HIDE DEF i, rex
  <2>3. Spells(EMIT(242) \o EMIT(15) \o EMIT(42) \o EMIT(rex) \o EMIT(ModRM(3, x, r)), i)
    BY <1>1, <1>5, <2>1, <2>2
  <2> QED BY <2>3 DEF i, rex, emit_cvtsi2sd
<1>7. Spells(emit_cvtsd2si(r, x), <<"cvtsd2si", r, x>>)
  <2> DEFINE i == <<"cvtsd2si", r, x>>
             rex == make_rex(Extended(r), FALSE)
  <2>1. rex \in Byte
    BY <1>4
  <2>2. i # <<"?">> /\ ~Encodable(i)
    BY <1>2
  <2> HIDE DEF i, rex
  <2>3. Spells(EMIT(242) \o EMIT(15) \o EMIT(45) \o EMIT(rex) \o EMIT(ModRM(3, r, x)), i)
    BY <1>1, <1>5, <2>1, <2>2
  <2> QED BY <2>3 DEF i, rex, emit_cvtsd2si
<1> QED BY <1>6, <1>7

(* Memory operands: what is read at the ModRM byte where the base needs no *)
(* REX, and what is read where REX has taken its place.                    *)
MemoryMeant(o, x, r, n) == IF o = 16 THEN <<"load", x, r, n>> ELSE <<"store", r, n, x>>

LEMMA MemoryFields ==
  ASSUME NEW d, NEW o \in {16, 17}, At(d, 1) = 242, At(d, 2) = 15, At(d, 3) = o
  PROVE  /\ Prefix(d) = 242 /\ OpPlace(d) = 2 /\ W(d) = 0 /\ R(d) = 0 /\ B(d) = 0
         /\ PlainMemory(d, 4)
              => Decode(d) = Ins(MemoryMeant(o, Reg(d, 4), Rm(d, 4), Displacement(d, 4)),
                                 4 + DisplacementLen(d, 4))
         /\ Mod(d, 4) # 3 /\ ~PlainMemory(d, 4) => Decode(d) = Bad(2)
<1>1. Prefix(d) = 242 /\ OpPlace(d) = 2 /\ W(d) = 0 /\ R(d) = 0 /\ B(d) = 0
  BY WithPrefix
<1>2. At(d, 3) = 16 \/ At(d, 3) = 17
  OBVIOUS
<1>3. PlainMemory(d, 4)
        => Decode(d) = Ins(MemoryMeant(o, Reg(d, 4), Rm(d, 4), Displacement(d, 4)), 4 + DisplacementLen(d, 4))
  <2>1. CASE o = 16
    BY <1>1, <2>1, DecodesXmms DEF MemoryMeant
  <2>2. CASE o = 17
    <3>1. PlainMemory(d, 4)
            => Decode(d) = Ins(<<"store", Rm(d, 4), Displacement(d, 4), Reg(d, 4)>>, 4 + DisplacementLen(d, 4))
      BY <1>1, <2>2, DecodesXmms
    <3> QED BY <2>2, <3>1 DEF MemoryMeant
  <2> QED BY <2>1, <2>2
<1>4. Mod(d, 4) # 3 /\ ~PlainMemory(d, 4) => Decode(d) = Bad(2)
  BY <1>1, DecodesXmms
<1> QED BY <1>1, <1>3, <1>4

LEMMA MemoryEncodable ==
  ASSUME NEW o, NEW x, NEW r, NEW n
  PROVE  /\ MemoryMeant(o, x, r, n) # <<"?">>
         /\ Encodable(MemoryMeant(o, x, r, n)) <=> Low(x) /\ Low(r) /\ r # 4 /\ ~(r = 5 /\ n = 0)
<1>1. CASE o = 16
  BY <1>1 DEF MemoryMeant, Encodable, XmmOpcodes
<1>2. CASE o # 16
  BY <1>2 DEF MemoryMeant, Encodable, XmmOpcodes
<1> QED BY <1>1, <1>2

(* A base below 8: mod is 0, 1 or 2 with the length of the displacement.   *)
LEMMA LowBaseRead ==
  ASSUME NEW o \in {16, 17}, NEW x \in 0..15, NEW r \in 0..7, NEW n \in Int32,
         NEW mod \in 0..2, mod = 0 <=> n = 0,
         NEW d, At(d, 1) = 242, At(d, 2) = 15, At(d, 3) = o, At(d, 4) = ModRM(mod, x, r),
         mod = 1 => Signed8(d, 5) = n, mod = 2 => Signed32(d, 5) = n
  PROVE  Decode(d) = Ins(MemoryMeant(o, x, r, n), CASE mod = 0 -> 4 [] mod = 1 -> 5 [] mod = 2 -> 8)
           <=> Encodable(MemoryMeant(o, x, r, n))
<1> DEFINE len == CASE mod = 0 -> 4 [] mod = 1 -> 5 [] mod = 2 -> 8
<1>1. /\ R(d) = 0 /\ B(d) = 0
      /\ PlainMemory(d, 4)
           => Decode(d) = Ins(MemoryMeant(o, Reg(d, 4), Rm(d, 4), Displacement(d, 4)),
                              4 + DisplacementLen(d, 4))
      /\ Mod(d, 4) # 3 /\ ~PlainMemory(d, 4) => Decode(d) = Bad(2)
  BY MemoryFields
<1>2. r \in 0..15 /\ RegCode(r) = r /\ ~Extended(r) /\ n \in Int
  BY DEF RegCode, Extended, Int32
<1>3. RegCode(x) \in 0..7 /\ (Low(x) <=> RegCode(x) = x)
  BY RegisterCodes DEF Low
<1>4. Mod(d, 4) = mod /\ Reg(d, 4) = RegCode(x) /\ Rm(d, 4) = r /\ At(d, 4) % 8 = r
  <2>1. mod \in 0..3
    OBVIOUS
  <2>2. Bit(Extended(0)) = 0
    BY DEF Bit, Extended
  <2>3. R(d) = Bit(Extended(0)) /\ B(d) = Bit(Extended(0))
    BY <1>1, <2>2
  <2>4. /\ Mod(d, 4) = mod /\ At(d, 4) % 8 = RegCode(r)
        /\ Reg(d, 4) = RegCode(x) + 8 * Bit(Extended(0))
        /\ Rm(d, 4) = RegCode(r) + 8 * Bit(Extended(0))
    BY <1>2, <2>1, <2>3, Operands
  <2> QED BY <1>2, <1>3, <2>2, <2>4
<1>5. PlainMemory(d, 4) <=> r # 4 /\ ~(r = 5 /\ n = 0)
  BY <1>4 DEF PlainMemory
<1>6. Displacement(d, 4) = n /\ 4 + DisplacementLen(d, 4) = len
  BY <1>4 DEF Displacement, DisplacementLen
<1>7. Encodable(MemoryMeant(o, x, r, n)) <=> Low(x) /\ Low(r) /\ r # 4 /\ ~(r = 5 /\ n = 0)
  BY MemoryEncodable
<1>8. CASE PlainMemory(d, 4)
  <2>1. Decode(d) = Ins(MemoryMeant(o, RegCode(x), r, n), len)
    BY <1>1, <1>4, <1>6, <1>8
  <2>2. Ins(MemoryMeant(o, RegCode(x), r, n), len) = Ins(MemoryMeant(o, x, r, n), len) <=> RegCode(x) = x
    BY DEF Ins, MemoryMeant
  <2> QED BY <1>2, <1>3, <1>5, <1>7, <1>8, <2>1, <2>2 DEF Low
<1>9. CASE ~PlainMemory(d, 4)
  <2>1. Decode(d) = Bad(2)
    BY <1>1, <1>4, <1>9
  <2>2. Bad(2) # Ins(MemoryMeant(o, x, r, n), len)
    BY DEF Bad, Ins, MemoryMeant
  <2> QED BY <1>5, <1>7, <1>9, <2>1, <2>2
<1> QED BY <1>8, <1>9

(* An extended base: REX is taken for ModRM, whatever follows.              *)
LEMMA HighBaseRead ==
  ASSUME NEW o \in {16, 17}, NEW x \in 0..15, NEW r \in 8..15, NEW n \in Int32,
         NEW d, At(d, 1) = 242, At(d, 2) = 15, At(d, 3) = o, At(d, 4) = 65, NEW len
  PROVE  Decode(d) = Ins(MemoryMeant(o, x, r, n), len) <=> Encodable(MemoryMeant(o, x, r, n))
<1>1. /\ R(d) = 0 /\ B(d) = 0
      /\ PlainMemory(d, 4)
           => Decode(d) = Ins(MemoryMeant(o, Reg(d, 4), Rm(d, 4), Displacement(d, 4)),
                              4 + DisplacementLen(d, 4))
  BY MemoryFields
<1>2. Rm(d, 4) = 1 /\ PlainMemory(d, 4)
  BY <1>1 DEF Rm, Mod, PlainMemory
<1>3. ~Encodable(MemoryMeant(o, x, r, n))
  <2>1. n \in Int /\ r \in 0..15 /\ ~Low(r)
    BY DEF Low, Extended, Int32
  <2> QED BY <2>1, MemoryEncodable
<1>4. Ins(MemoryMeant(o, Reg(d, 4), 1, Displacement(d, 4)), 4 + DisplacementLen(d, 4))
        # Ins(MemoryMeant(o, x, r, n), len)
  BY DEF Ins, MemoryMeant
<1> QED BY <1>1, <1>2, <1>3, <1>4

LEMMA WritesAssociate ==
  ASSUME NEW s \in Writes, NEW t \in Writes, NEW u \in Writes
  PROVE  s \o (t \o u) = s \o t \o u
<1> DEFINE T == Seq(Byte)
<1>1. s \in Seq(T) /\ t \in Seq(T) /\ u \in Seq(T)
  BY DEF Writes
<1> HIDE DEF T
<1>2. (s \o t) \o u = s \o (t \o u)
  BY <1>1, ConcatAssociative
<1> QED BY <1>2

(* A movsd with its operand in memory: REX, written where ModRM is         *)
(* expected, makes of an extended base the base rcx.                       *)
LEMMA MovsdSpells ==
  ASSUME NEW o \in {16, 17}, NEW x \in 0..15, NEW r \in 0..15, NEW n \in Int32
  PROVE  Spells(movsd(o, x, r, n), MemoryMeant(o, x, r, n))
<1> DEFINE i == MemoryMeant(o, x, r, n)
           m0 == ModRM(0, x, r)
           m1 == ModRM(1, x, r)
           m2 == ModRM(2, x, r)
           short == n % 256
           three == EMIT(242) \o EMIT(15) \o EMIT(o)
           rest == IF n = 0 THEN EMIT(m0)
                   ELSE IF n \in -128..127 THEN EMIT(m1) \o EMIT(short)
                   ELSE EMIT(m2) \o emit_bytes(n, 4)
<1>1. i # <<"?">>
  BY MemoryEncodable
<1>2. n \in Int
  BY DEF Int32
<1>13. short \in Byte
  BY <1>2 DEF Byte
<1>14. ASSUME n \in -128..127, NEW d, At(d, 5) = short
       PROVE  Signed8(d, 5) = n
  BY <1>14, OneSigned
<1> HIDE DEF short
<1>3. 242 \in Byte /\ 15 \in Byte /\ o \in Byte
  BY DEF Byte
<1>15. 65 \in Byte
  BY DEF Byte
<1>4. m0 \in Byte
  BY DEF ModRM, RegCode, Byte
<1>16. m1 \in Byte
  BY DEF ModRM, RegCode, Byte
<1>17. m2 \in Byte
  BY DEF ModRM, RegCode, Byte
<1>5. /\ \A b \in Byte : EMIT(b) \in Writes
      /\ emit_bytes(n, 4) \in Writes
  <2>1. emit_bytes(n, 4) \in Writes
    BY <1>2, BytesOfNumbers DEF emit_bytes, Writes
  <2> QED BY <2>1 DEF EMIT, Writes
<1>6. \A s \in Writes, t \in Writes : s \o t \in Writes
  BY DEF Writes
<1>7. ASSUME NEW s \in Writes, NEW t \in Writes, NEW u \in Writes
      PROVE  s \o (t \o u) = s \o t \o u
  BY WritesAssociate
<1>8. three \in Writes
  <2>1. EMIT(242) \in Writes /\ EMIT(15) \in Writes /\ EMIT(o) \in Writes
    BY <1>3, <1>5
  <2> HIDE DEF three
  <2>2. EMIT(242) \o EMIT(15) \in Writes
    BY <1>6, <2>1
  <2> QED BY <1>6, <2>1, <2>2 DEF three
<1>9. movsd(o, x, r, n) = three \o (IF Extended(r) THEN EMIT(65) ELSE << >>) \o rest
  BY DEF movsd, short
<1>10. /\ EMIT(65) \in Writes /\ EMIT(m0) \in Writes /\ EMIT(m1) \in Writes
       /\ EMIT(m2) \in Writes /\ EMIT(short) \in Writes
  BY <1>4, <1>5, <1>13, <1>15, <1>16, <1>17
<1>11. CASE ~Extended(r)
  <2>1. r \in 0..7
    BY <1>11 DEF Extended
  <2>2. movsd(o, x, r, n) = three \o rest
    <3>1. three \o << >> = three
      BY <1>8, ConcatEmptySeq DEF Writes
    <3> QED BY <1>9, <1>11, <3>1
  <2>3. CASE n = 0
    <3>1. ASSUME NEW d, At(d, 1) = 242, At(d, 2) = 15, At(d, 3) = o, At(d, 4) = m0
          PROVE  Decode(d) = Ins(i, 4) <=> Encodable(i)
      BY <2>1, <2>3, <3>1, LowBaseRead
    <3> HIDE DEF i, m0, m1, m2
    <3>2. Spells(EMIT(242) \o EMIT(15) \o EMIT(o) \o EMIT(m0), i)
      BY <1>1, <1>3, <1>4, <3>1, SpellsFour
    <3> QED BY <2>2, <2>3, <3>2 DEF i
  <2>4. CASE n # 0 /\ n \in -128..127
    <3>1. ASSUME NEW d, At(d, 1) = 242, At(d, 2) = 15, At(d, 3) = o, At(d, 4) = m1, At(d, 5) = short
          PROVE  Decode(d) = Ins(i, 5) <=> Encodable(i)
      <4>1. Signed8(d, 5) = n
        BY <1>14, <2>4, <3>1
      <4> QED BY <2>1, <2>4, <3>1, <4>1, LowBaseRead
    <3> HIDE DEF i, m0, m1, m2
    <3>2. Spells(EMIT(242) \o EMIT(15) \o EMIT(o) \o EMIT(m1) \o EMIT(short), i)
      BY <1>1, <1>3, <1>13, <1>16, <3>1, SpellsFive
    <3> HIDE DEF three
    <3>3. three \o rest = three \o EMIT(m1) \o EMIT(short)
      <4>1. rest = EMIT(m1) \o EMIT(short)
        BY <2>4
      <4> HIDE DEF rest
      <4> QED BY <1>7, <1>8, <1>10, <4>1
    <3> QED BY <2>2, <3>2, <3>3 DEF i, three
  <2>5. CASE ~(n \in -128..127)
    <3>1. ASSUME NEW d, At(d, 1) = 242, At(d, 2) = 15, At(d, 3) = o, At(d, 4) = m2,
                 \A k \in 0..3 : At(d, 5 + k) = ByteOf(n, k)
          PROVE  Decode(d) = Ins(i, 8) <=> Encodable(i)
      <4>1. Signed32(d, 5) = n /\ n # 0
        BY <1>2, <2>5, <3>1, FourSigned
      <4> QED BY <2>1, <3>1, <4>1, LowBaseRead
    <3> HIDE DEF i, m0, m1, m2
    <3>2. Spells(EMIT(242) \o EMIT(15) \o EMIT(o) \o EMIT(m2) \o emit_bytes(n, 4), i)
      BY <1>1, <1>2, <1>3, <1>17, <3>1, SpellsFourAndFour
    <3>3. n # 0
      BY <2>5
    <3> HIDE DEF three
    <3>4. three \o rest = three \o EMIT(m2) \o emit_bytes(n, 4)
      <4>1. rest = EMIT(m2) \o emit_bytes(n, 4)
        BY <2>5, <3>3
      <4> HIDE DEF rest
      <4> QED BY <1>5, <1>7, <1>8, <1>10, <4>1
    <3> QED BY <2>2, <3>2, <3>4 DEF i, three
  <2> QED BY <2>3, <2>4, <2>5
<1>12. CASE Extended(r)
  <2>1. r \in 8..15
    BY <1>12 DEF Extended
  <2>2. \A d, len : At(d, 1) = 242 /\ At(d, 2) = 15 /\ At(d, 3) = o /\ At(d, 4) = 65
                      => (Decode(d) = Ins(i, len) <=> Encodable(i))
    BY <2>1, HighBaseRead
  <2>3. movsd(o, x, r, n) = three \o EMIT(65) \o rest
    BY <1>9, <1>12
  <2>4. three \o EMIT(65) \in Writes
    BY <1>6, <1>8, <1>10
  <2> HIDE DEF i, m0, m1, m2
  <2>5. CASE n = 0
    <3>1. Spells(EMIT(242) \o EMIT(15) \o EMIT(o) \o EMIT(65) \o EMIT(m0), i)
      BY <1>1, <1>3, <1>4, <1>15, <2>2, SpellsFive
    <3> QED BY <2>3, <2>5, <3>1 DEF i
  <2>6. CASE n # 0 /\ n \in -128..127
    <3>1. Spells(EMIT(242) \o EMIT(15) \o EMIT(o) \o EMIT(65) \o EMIT(m1) \o EMIT(short), i)
      <4>1. ASSUME NEW d, At(d, 1) = 242, At(d, 2) = 15, At(d, 3) = o, At(d, 4) = 65, At(d, 5) = m1, At(d, 6) = short
            PROVE  Decode(d) = Ins(i, 6) <=> Encodable(i)
        BY <2>2, <4>1
      <4>2. <<242, 15, o, 65, m1, short>> \in Seq(Byte)
        BY <1>3, <1>13, <1>15, <1>16
      <4> QED BY <1>1, <4>1, <4>2, SpellsSix, SMTT(60)
    <3> HIDE DEF three
    <3>2. three \o EMIT(65) \o rest = three \o EMIT(65) \o EMIT(m1) \o EMIT(short)
      <4>1. rest = EMIT(m1) \o EMIT(short)
        BY <2>6
      <4>2. EMIT(m1) \in Writes /\ EMIT(short) \in Writes
        BY <1>10
      <4> HIDE DEF rest
      <4> QED BY <1>7, <2>4, <4>1, <4>2, Zenon
    <3> QED BY <2>3, <3>1, <3>2 DEF i, three
  <2>7. CASE ~(n \in -128..127)
    <3>1. Spells(EMIT(242) \o EMIT(15) \o EMIT(o) \o EMIT(65) \o EMIT(m2) \o emit_bytes(n, 4), i)
      <4>1. ASSUME NEW d, At(d, 1) = 242, At(d, 2) = 15, At(d, 3) = o, At(d, 4) = 65, At(d, 5) = m2,
                   \A k \in 0..3 : At(d, 6 + k) = ByteOf(n, k)
            PROVE  Decode(d) = Ins(i, 9) <=> Encodable(i)
        BY <2>2, <4>1
      <4>2. <<242, 15, o, 65, m2>> \in Seq(Byte)
        BY <1>3, <1>15, <1>17
      <4> QED BY <1>1, <1>2, <4>1, <4>2, SpellsFiveAndFour
    <3>2. n # 0
      BY <2>7
    <3> HIDE DEF three
    <3>3. three \o EMIT(65) \o rest = three \o EMIT(65) \o EMIT(m2) \o emit_bytes(n, 4)
      <4>1. rest = EMIT(m2) \o emit_bytes(n, 4)
        BY <2>7, <3>2
      <4>2. EMIT(m2) \in Writes /\ emit_bytes(n, 4) \in Writes
        BY <1>5, <1>10
      <4> HIDE DEF rest
      <4> QED BY <1>7, <2>4, <4>1, <4>2, Zenon
    <3> QED BY <2>3, <3>1, <3>3 DEF i, three
  <2> QED BY <2>5, <2>6, <2>7
<1> QED BY <1>11, <1>12

LEMMA MemorySpells ==
  ASSUME NEW x \in 0..15, NEW r \in 0..15, NEW n \in Int32
  PROVE  /\ Spells(emit_movsd_rm(x, r, n), <<"load", x, r, n>>)
         /\ Spells(emit_movsd_mr(r, n, x), <<"store", r, n, x>>)
<1>1. Spells(movsd(16, x, r, n), MemoryMeant(16, x, r, n))
  BY MovsdSpells
<1>2. Spells(movsd(17, x, r, n), MemoryMeant(17, x, r, n))
  BY MovsdSpells
<1> QED BY <1>1, <1>2 DEF emit_movsd_rm, emit_movsd_mr, MemoryMeant

(* What a call of an emitter leaves to be written spells the instruction   *)
(* it was called for; moving rsp by nothing asks for none.                 *)
LEMMA CallsSpell ==
  Call => \/ pending' = << >> /\ asked' = asked
          \/ \E i : asked' = Append(asked, i) /\ Spells(pending', i)
<1> DEFINE Meant == \/ pending' = << >> /\ asked' = asked
                    \/ \E i : asked' = Append(asked, i) /\ Spells(pending', i)
<1> SUFFICES ASSUME Call PROVE Meant
  OBVIOUS
<1>0. /\ Frames \subseteq Nat /\ Displacements \subseteq Int32 /\ Immediates \subseteq Int32
      /\ Longs \subseteq Int /\ Shorts \subseteq -128..127
      /\ Registers \subseteq 0..15 /\ Xmms \subseteq 0..15
  BY NumberAssumption, RegisterAssumption
<1>1. ASSUME NEW i, NEW w, Emit(i, w), Spells(w, i)
      PROVE  Meant
  <2>1. CASE w = << >>
    BY <1>1, <2>1 DEF Emit
  <2>2. CASE w # << >>
    <3>1. asked' = Append(asked, i) /\ pending' = w
      BY <1>1, <2>2 DEF Emit
    <3> QED BY <1>1, <3>1
  <2> QED BY <2>1, <2>2
<1> HIDE DEF Meant
<1>2. CASE OnStack
  <2>1. ASSUME NEW r \in Registers, Emit(<<"push", r>>, emit_push(r)) \/ Emit(<<"pop", r>>, emit_pop(r))
        PROVE  Meant
    <3>1. Spells(emit_push(r), <<"push", r>>) /\ Spells(emit_pop(r), <<"pop", r>>)
      BY <1>0, PushAndPopSpell
    <3> QED BY <1>1, <2>1, <3>1
  <2>2. ASSUME NEW n \in Frames, \/ Emit(<<"sub_i", 4, n>>, emit_sub_rsp(n))
                                 \/ Emit(<<"add_i", 4, n>>, emit_add_rsp(n))
        PROVE  Meant
    <3>1. CASE n = 0
      BY <2>2, <3>1 DEF Emit, emit_sub_rsp, emit_add_rsp, Meant
    <3>2. CASE n # 0
      <4>1. n \in Nat \ {0}
        BY <1>0, <3>2
      <4>2. Spells(emit_sub_rsp(n), <<"sub_i", 4, n>>) /\ Spells(emit_add_rsp(n), <<"add_i", 4, n>>)
        BY <4>1, RspMovesSpell
      <4> QED BY <1>1, <2>2, <4>2
    <3> QED BY <3>1, <3>2
  <2> QED BY <1>2, <2>1, <2>2 DEF OnStack
<1>3. CASE Transfer
  <2>1. ASSUME NEW n \in Longs, Emit(<<"call", n>>, emit_call(n)) \/ Emit(<<"jmp", n>>, emit_jmp_rel32(n))
        PROVE  Meant
    <3>1. Spells(emit_call(n), <<"call", n>>) /\ Spells(emit_jmp_rel32(n), <<"jmp", n>>)
      BY <1>0, TransfersSpell
    <3> QED BY <1>1, <2>1, <3>1
  <2>2. ASSUME NEW n \in Shorts, NEW j \in DOMAIN Rel8Opcodes, Emit(<<j, n>>, emit_rel8(Rel8Opcodes[j], n))
        PROVE  Meant
    <3>1. Spells(emit_rel8(Rel8Opcodes[j], n), <<j, n>>)
      BY <1>0, TransfersSpell
    <3> QED BY <1>1, <2>2, <3>1
  <2>3. /\ Spells(emit_ret, <<"ret">>) /\ Spells(emit_syscall, <<"syscall">>)
        /\ Spells(emit_nop, <<"nop">>) /\ Spells(emit_int3, <<"int3">>)
    BY TransfersSpell
  <2> QED BY <1>1, <1>3, <2>1, <2>2, <2>3 DEF Transfer
<1>4. CASE OnRegisters
  <2>1. ASSUME NEW a \in Registers, NEW b \in Registers,
               \/ Emit(<<"mov", a, b>>, emit_move_rr(a, b))
               \/ \E o \in DOMAIN RROpcodes : Emit(<<o, a, b>>, emit_rr(RROpcodes[o], a, b))
               \/ Emit(<<"div", a, b>>, emit_div_rr(a, b))
               \/ Emit(<<"mul", a, b>>, emit_mul_rr(a, b))
        PROVE  Meant
    <3>1. /\ Spells(emit_move_rr(a, b), <<"mov", a, b>>)
          /\ \A o \in DOMAIN RROpcodes : Spells(emit_rr(RROpcodes[o], a, b), <<o, a, b>>)
          /\ Spells(emit_div_rr(a, b), <<"div", a, b>>)
          /\ Spells(emit_mul_rr(a, b), <<"mul", a, b>>)
      BY <1>0, RegistersSpell
    <3> QED BY <1>1, <2>1, <3>1
  <2>2. ASSUME NEW r \in Registers, NEW n \in Immediates, Emit(<<"mov_i", r, n>>, emit_mov_ri(r, n))
        PROVE  Meant
    <3>1. Spells(emit_mov_ri(r, n), <<"mov_i", r, n>>)
      BY <1>0, RegistersSpell
    <3> QED BY <1>1, <2>2, <3>1
  <2> QED BY <1>4, <2>1, <2>2 DEF OnRegisters
<1>5. CASE OnXmms
  <2>1. ASSUME NEW x \in Xmms, NEW y \in Xmms,
               \/ Emit(<<"movsd", x, y>>, emit_movsd(x, y))
               \/ \E o \in DOMAIN XmmOpcodes :
                    Emit(<<o, x, y>>, emit_xmm_xmm(XmmOpcodes[o][1], XmmOpcodes[o][2], x, y))
        PROVE  Meant
    <3>1. /\ Spells(emit_movsd(x, y), <<"movsd", x, y>>)
          /\ \A o \in DOMAIN XmmOpcodes :
               Spells(emit_xmm_xmm(XmmOpcodes[o][1], XmmOpcodes[o][2], x, y), <<o, x, y>>)
      BY <1>0, XmmPairsSpell
    <3> QED BY <1>1, <2>1, <3>1
  <2>2. ASSUME NEW x \in Xmms, NEW r \in Registers,
               \/ Emit(<<"cvtsi2sd", x, r>>, emit_cvtsi2sd(x, r))
               \/ Emit(<<"cvtsd2si", r, x>>, emit_cvtsd2si(r, x))
        PROVE  Meant
    <3>1. /\ Spells(emit_cvtsi2sd(x, r), <<"cvtsi2sd", x, r>>)
          /\ Spells(emit_cvtsd2si(r, x), <<"cvtsd2si", r, x>>)
      BY <1>0, ConversionsSpell
    <3> QED BY <1>1, <2>2, <3>1
  <2>3. ASSUME NEW x \in Xmms, NEW r \in Registers, NEW d \in Displacements,
               \/ Emit(<<"load", x, r, d>>, emit_movsd_rm(x, r, d))
               \/ Emit(<<"store", r, d, x>>, emit_movsd_mr(r, d, x))
        PROVE  Meant
    <3>1. /\ Spells(emit_movsd_rm(x, r, d), <<"load", x, r, d>>)
          /\ Spells(emit_movsd_mr(r, d, x), <<"store", r, d, x>>)
      BY <1>0, MemorySpells
    <3> QED BY <1>1, <2>3, <3>1
  <2> QED BY <1>5, <2>1, <2>2, <2>3 DEF OnXmms
<1> QED BY <1>2, <1>3, <1>4, <1>5 DEF Call

-----------------------------------------------------------------------------
(* The bytes b are those of the instructions s, one behind the other: st   *)
(* holds where each begins.                                                *)
Pieces(b, s, st) ==
  /\ st \in [1..Len(s) + 1 -> 0..Len(b)]
  /\ st[1] = 0 /\ st[Len(s) + 1] = Len(b)
  /\ \A k \in 1..Len(s) : Spelled(SubSeq(b, st[k] + 1, st[k + 1]), s[k])

SpelledAll(b, s) == (\E S : s \in Seq(S)) /\ (\E st : Pieces(b, s, st))

(* At the beginning, and after the last write of an emitter.                *)
LEMMA NothingSpelled ==
  SpelledAll(<< >>, << >>) /\ Yields(<< >>, << >>)
<1> DEFINE st == [k \in 1..1 |-> 0]
<1>1. Pieces(<< >>, << >>, st)
  BY DEF Pieces
<1>2. << >> \in Seq({})
  OBVIOUS
<1>3. Yields(<< >>, << >>)
  <2>1. st \in [1..Len(<< >>) + 1 -> 0..Len(<< >>)] /\ st[1] = 0 /\ st[Len(<< >>) + 1] = Len(<< >>)
    OBVIOUS
  <2> HIDE DEF st
  <2> QED BY <2>1 DEF Yields
<1> QED BY <1>1, <1>2, <1>3 DEF SpelledAll

LEMMA NothingYielded ==
  ASSUME NEW b \in Seq(Byte), Yields(<< >>, b)
  PROVE  b = << >>
<1>1. PICK at \in [1..Len(<< >>) + 1 -> 0..Len(b)] : at[1] = 0 /\ at[Len(<< >>) + 1] = Len(b)
  BY DEF Yields
<1>2. Len(b) = 0
  BY <1>1
<1> QED BY <1>2

(* Making the first write leaves the others to be made.                    *)
LEMMA YieldsRest ==
  ASSUME NEW w \in Writes, w # << >>, NEW b \in Seq(Byte), Yields(w, b)
  PROVE  \E c \in Seq(Byte) : b = Head(w) \o c /\ Yields(Tail(w), c)
<1> DEFINE h == Head(w)
           v == Tail(w)
           n == Len(h)
           c == SubSeq(b, n + 1, Len(b))
<1>1. PICK at \in [1..Len(w) + 1 -> 0..Len(b)] :
        /\ at[1] = 0 /\ at[Len(w) + 1] = Len(b)
        /\ \A k \in 1..Len(w) : /\ at[k + 1] = at[k] + Len(w[k])
                                /\ \A i \in 1..Len(w[k]) : b[at[k] + i] = w[k][i]
  BY DEF Yields
<1>2. /\ Len(w) \in Nat \ {0} /\ h = w[1] /\ h \in Seq(Byte) /\ n \in Nat
      /\ v \in Writes /\ Len(v) = Len(w) - 1 /\ \A k \in 1..Len(v) : v[k] = w[k + 1]
  BY DEF Writes
<1>3. Len(b) \in Nat /\ at[2] = n /\ n <= Len(b) /\ \A i \in 1..n : b[i] = h[i]
  <2>1. 1 \in 1..Len(w) /\ 2 \in 1..Len(w) + 1
    BY <1>2
  <2>2. at[2] = 0 + n /\ \A i \in 1..n : b[0 + i] = h[i]
    BY <1>1, <1>2, <2>1
  <2>3. at[2] \in 0..Len(b)
    BY <2>1
  <2> QED BY <1>2, <2>2, <2>3
<1> HIDE DEF h, v, n
<1>4. c \in Seq(Byte) /\ Len(c) = Len(b) - n /\ \A i \in 1..Len(c) : c[i] = b[n + i]
  BY <1>2, <1>3
<1> HIDE DEF c
<1>5. b = h \o c
  <2>1. h \o c \in Seq(Byte) /\ Len(h \o c) = Len(b)
    BY <1>2, <1>3, <1>4 DEF n
  <2>2. \A i \in 1..Len(b) : (h \o c)[i] = b[i]
    <3> TAKE i \in 1..Len(b)
    <3>1. CASE i <= n
      BY <1>2, <1>3, <1>4, <3>1, ConcatProperties DEF n
    <3>2. CASE ~ (i <= n)
      <4>1. (h \o c)[i] = c[i - n]
        BY <1>2, <1>3, <1>4, <3>2, ConcatProperties DEF n
      <4>2. i - n \in 1..Len(c) /\ n + (i - n) = i
        BY <1>2, <1>3, <1>4, <3>2
      <4> QED BY <1>4, <4>1, <4>2
    <3> QED BY <3>1, <3>2
  <2> QED BY <2>1, <2>2, SeqEqual
<1>6. Yields(v, c)
  <2> DEFINE ct == [k \in 1..Len(v) + 1 |-> at[k + 1] - n]
  <2>1. \A k \in 1..Len(w) + 1 : at[k] \in 0..Len(b)
    OBVIOUS
  <2>2. \A k \in 1..Len(w) : Len(w[k]) \in Nat
    BY DEF Writes
  <2>3. \A k \in 1..Len(v) + 1 : at[k + 1] >= n
    <3> DEFINE E == {k \in Nat : k <= Len(v) => at[k + 2] >= n}
    <3>1. 0 \in E
      BY <1>2, <1>3
    <3>2. \A k \in Nat : k \in E => k + 1 \in E
      <4> SUFFICES ASSUME NEW k \in Nat, k \in E, k + 1 <= Len(v) PROVE at[(k + 1) + 2] >= n
        <5>1. \A j \in Nat : j + 1 \in E <=> (j + 1 <= Len(v) => at[(j + 1) + 2] >= n)
          OBVIOUS
        <5> HIDE DEF E
        <5> QED BY <5>1
      <4>1. k + 2 \in 1..Len(w) /\ k <= Len(v) /\ (k + 1) + 2 = (k + 2) + 1
        BY <1>2
      <4>2. at[(k + 2) + 1] = at[k + 2] + Len(w[k + 2]) /\ at[k + 2] >= n /\ Len(w[k + 2]) \in Nat
        BY <1>1, <2>2, <4>1
      <4>3. at[k + 2] \in Nat
        BY <1>2, <2>1, <4>1
      <4> QED BY <1>2, <4>1, <4>2, <4>3
    <3> HIDE DEF E
    <3>3. \A k \in Nat : k \in E
      BY <3>1, <3>2, SetInduction
    <3> USE DEF E
    <3> TAKE k \in 1..Len(v) + 1
    <3>4. k - 1 \in Nat /\ k - 1 <= Len(v) /\ (k - 1) + 2 = k + 1
      BY <1>2
    <3>5. k - 1 \in E
      BY <3>3, <3>4
    <3> QED BY <3>4, <3>5
  <2>4. ct \in [1..Len(v) + 1 -> 0..Len(c)]
    <3>1. \A k \in 1..Len(v) + 1 : at[k + 1] - n \in 0..Len(c)
      <4> TAKE k \in 1..Len(v) + 1
      <4>1. k + 1 \in 1..Len(w) + 1
        BY <1>2
      <4>2. at[k + 1] \in 0..Len(b) /\ at[k + 1] >= n
        BY <2>1, <2>3, <4>1
      <4> QED BY <1>2, <1>3, <1>4, <4>2
    <3> QED BY <3>1
  <2>5. ct[1] = 0 /\ ct[Len(v) + 1] = Len(c)
    <3>1. 1 \in 1..Len(v) + 1 /\ Len(v) + 1 \in 1..Len(v) + 1 /\ (Len(v) + 1) + 1 = Len(w) + 1
      BY <1>2
    <3> QED BY <1>1, <1>2, <1>3, <1>4, <3>1
  <2>6. \A k \in 1..Len(v) : /\ ct[k + 1] = ct[k] + Len(v[k])
                             /\ \A i \in 1..Len(v[k]) : c[ct[k] + i] = v[k][i]
    <3> TAKE k \in 1..Len(v)
    <3>1. k + 1 \in 1..Len(w) /\ k \in 1..Len(v) + 1 /\ k + 1 \in 1..Len(v) + 1 /\ v[k] = w[k + 1]
      BY <1>2
    <3>2. at[(k + 1) + 1] = at[k + 1] + Len(v[k]) /\ Len(v[k]) \in Nat
          /\ at[k + 1] \in Nat /\ at[(k + 1) + 1] <= Len(b) /\ at[k + 1] >= n
      <4>1. (k + 1) + 1 \in 1..Len(w) + 1 /\ k + 1 \in 1..Len(w) + 1
        BY <1>2, <3>1
      <4>2. at[(k + 1) + 1] \in 0..Len(b) /\ at[k + 1] \in 0..Len(b)
        BY <2>1, <4>1
      <4> QED BY <1>1, <1>3, <2>2, <2>3, <3>1, <4>2
    <3>3. ct[k + 1] = ct[k] + Len(v[k])
      BY <1>2, <3>1, <3>2
    <3>4. ASSUME NEW i \in 1..Len(v[k]) PROVE c[ct[k] + i] = v[k][i]
      <4>1. b[at[k + 1] + i] = v[k][i]
        BY <1>1, <3>1
      <4>2. ct[k] = at[k + 1] - n
        BY <3>1
      <4> HIDE DEF ct
      <4>3. ct[k] + i \in 1..Len(c) /\ n + (ct[k] + i) = at[k + 1] + i
        <5>1. i \in Nat /\ 1 <= i /\ i <= Len(v[k])
          BY <3>2
        <5>2. at[k + 1] + i <= Len(b)
          BY <1>3, <3>2, <5>1
        <5>3. at[k + 1] \in Nat /\ at[k + 1] >= n
          BY <3>2
        <5>4. n \in Nat /\ Len(b) \in Nat /\ Len(c) = Len(b) - n
          BY <1>2, <1>3, <1>4
        <5>5. \A a, j, m, l \in Nat : m <= a /\ 1 <= j /\ a + j <= l
                                        => (a - m) + j \in 1..l - m /\ m + ((a - m) + j) = a + j
          OBVIOUS
        <5>6. (at[k + 1] - n) + i \in 1..Len(b) - n /\ n + ((at[k + 1] - n) + i) = at[k + 1] + i
          BY <5>1, <5>2, <5>3, <5>4, <5>5
        <5> QED BY <4>2, <5>4, <5>6
      <4> QED BY <1>4, <4>1, <4>3
    <3> QED BY <3>3, <3>4
  <2> HIDE DEF ct
  <2> QED BY <2>4, <2>5, <2>6 DEF Yields
<1> QED BY <1>4, <1>5, <1>6 DEF h, v

(* Sequences that begin alike have the same parts there.                   *)
LEMMA SamePart ==
  ASSUME NEW b \in Seq(Byte), NEW t \in Seq(Byte), NEW m \in Nat \ {0}, NEW q \in Nat,
         q <= Len(b), q <= Len(t), \A j \in 1..q : t[j] = b[j]
  PROVE  SubSeq(t, m, q) = SubSeq(b, m, q)
<1> DEFINE x == SubSeq(t, m, q)
           y == SubSeq(b, m, q)
<1>1. x \in Seq(Byte) /\ y \in Seq(Byte) /\ Len(x) = Len(y) /\ \A j \in 1..Len(x) : x[j] = y[j]
  OBVIOUS
<1> HIDE DEF x, y
<1>2. x = y
  BY <1>1, SeqEqual
<1> QED BY <1>2 DEF x, y

(* A further instruction behind those that are there.                      *)
LEMMA SpelledFurther ==
  ASSUME NEW b \in Seq(Byte), NEW s, SpelledAll(b, s), NEW c, NEW i, Spelled(c, i)
  PROVE  SpelledAll(b \o c, Append(s, i))
<1>1. PICK st : Pieces(b, s, st)
  BY DEF SpelledAll
<1>2. PICK S : s \in Seq(S)
  BY DEF SpelledAll
<1> DEFINE r == Append(s, i)
           t == b \o c
           T == S \union {i}
           n == Len(s)
           rt == [k \in 1..n + 2 |-> IF k = n + 2 THEN Len(b) + Len(c) ELSE st[k]]
<1>3. s \in Seq(T) /\ i \in T /\ n \in Nat
  BY <1>2
<1>4. r \in Seq(T) /\ Len(r) = n + 1 /\ r[n + 1] = i /\ \A k \in 1..n : r[k] = s[k]
  BY <1>3
<1>5. c \in Seq(Byte) /\ Len(c) \in Nat /\ Len(b) \in Nat
  BY DEF Spelled
<1>6. /\ t \in Seq(Byte) /\ Len(t) = Len(b) + Len(c)
      /\ \A j \in 1..Len(b) : t[j] = b[j]
      /\ \A j \in 1..Len(c) : t[Len(b) + j] = c[j]
  BY <1>5
<1>7. \A k \in 1..n + 1 : st[k] \in 0..Len(b)
  BY <1>1 DEF Pieces
<1> HIDE DEF r, t
<1>8. rt \in [1..Len(r) + 1 -> 0..Len(t)] /\ rt[1] = 0 /\ rt[Len(r) + 1] = Len(t)
  <2>1. \A k \in 1..n + 2 : k # n + 2 => st[k] \in 0..Len(t)
    BY <1>3, <1>5, <1>6, <1>7
  <2>2. st[1] = 0
    BY <1>1 DEF Pieces
  <2> QED BY <1>3, <1>4, <1>5, <1>6, <2>1, <2>2
<1>9. ASSUME NEW k \in 1..Len(r) PROVE Spelled(SubSeq(t, rt[k] + 1, rt[k + 1]), r[k])
  <2>1. CASE k = n + 1
    <3>1. rt[k] = Len(b) /\ rt[k + 1] = Len(t)
      BY <1>1, <1>3, <1>6, <2>1 DEF Pieces
    <3>2. SubSeq(t, Len(b) + 1, Len(t)) = c
      <4> DEFINE u == SubSeq(t, Len(b) + 1, Len(t))
      <4>1. u \in Seq(Byte) /\ Len(u) = Len(c) /\ \A j \in 1..Len(c) : u[j] = t[Len(b) + j]
        BY <1>5, <1>6
      <4> HIDE DEF u
      <4>2. u = c
        BY <1>5, <1>6, <4>1, SeqEqual
      <4> QED BY <4>2 DEF u
    <3> QED BY <1>4, <2>1, <3>1, <3>2
  <2>2. CASE k # n + 1
    <3>1. k \in 1..n /\ rt[k] = st[k] /\ rt[k + 1] = st[k + 1] /\ r[k] = s[k]
      BY <1>3, <1>4, <2>2
    <3>2. st[k] \in 0..Len(b) /\ st[k + 1] \in 0..Len(b)
      BY <1>3, <1>7, <3>1
    <3>3. SubSeq(t, st[k] + 1, st[k + 1]) = SubSeq(b, st[k] + 1, st[k + 1])
      <4>1. /\ st[k] + 1 \in Nat \ {0} /\ st[k + 1] \in Nat /\ st[k + 1] <= Len(b) /\ st[k + 1] <= Len(t)
            /\ \A j \in 1..st[k + 1] : t[j] = b[j]
        BY <1>5, <1>6, <3>2
      <4> QED BY <1>6, <4>1, SamePart
    <3> QED BY <1>1, <3>1, <3>3 DEF Pieces
  <2> QED BY <2>1, <2>2
<1> HIDE DEF rt
<1>10. Pieces(t, r, rt)
  BY <1>8, <1>9 DEF Pieces
<1> QED BY <1>4, <1>10 DEF SpelledAll, r, t

-----------------------------------------------------------------------------
(* Reading: every byte is a byte, also beyond the end.                     *)
LEMMA BytesAt ==
  ASSUME NEW b \in Seq(Byte), NEW i \in Int
  PROVE  At(b, i) \in Byte
<1>1. CASE i \in DOMAIN b
  <2>1. b[i] \in Byte
    BY <1>1
  <2> QED BY <1>1, <2>1 DEF At
<1>2. CASE i \notin DOMAIN b
  BY <1>2 DEF At, Byte
<1> QED BY <1>1, <1>2

(* Whatever the processor meets, it goes on by at least one byte.          *)
LEMMA DecodeProgresses ==
  ASSUME NEW b \in Seq(Byte)
  PROVE  /\ Decode(b) = Ins(Decode(b).ins, Decode(b).len)
         /\ Decode(b).len \in Nat \ {0}
<1>1. OpPlace(b) \in {1, 2, 3}
  BY DEF OpPlace, RexPlace
<1>2. PICK p \in {1, 2, 3} : OpPlace(b) = p
  BY <1>1
<1>3. CASE Prefix(b) = 0
  <2>1. \E x, n : n \in {p, p + 1, p + 2, p + 4, p + 5, p + 8} /\ DecodeGeneral(b) = [ins |-> x, len |-> n]
    <3>1. DecodeGeneral(b).len \in {p, p + 1, p + 2, p + 4, p + 5, p + 8}
      BY <1>2 DEF DecodeGeneral, Ins, Bad, OneByte, Jumps, RegReg
    <3>2. DecodeGeneral(b) = [ins |-> DecodeGeneral(b).ins, len |-> DecodeGeneral(b).len]
      BY <1>2 DEF DecodeGeneral, Ins, Bad, OneByte, Jumps, RegReg
    <3> QED BY <3>1, <3>2
  <2> QED BY <1>2, <1>3, <2>1 DEF Decode, Ins
<1>4. CASE Prefix(b) # 0
  <2>1. PlainMemory(b, p + 2) => DisplacementLen(b, p + 2) \in {0, 1, 4}
    <3> SUFFICES ASSUME PlainMemory(b, p + 2) PROVE DisplacementLen(b, p + 2) \in {0, 1, 4}
      OBVIOUS
    <3>1. 0 <= At(b, p + 2) /\ At(b, p + 2) <= 255 /\ At(b, p + 2) \in Int
      <4>1. p + 2 \in Int
        OBVIOUS
      <4>2. At(b, p + 2) \in Byte
        BY <4>1, BytesAt
      <4>3. \A x \in Byte : 0 <= x /\ x <= 255 /\ x \in Int
        BY DEF Byte
      <4> QED BY <4>2, <4>3
    <3>2. \A x \in Int : 0 <= x /\ x <= 255 => x \div 64 \in 0..3
      OBVIOUS
    <3>3. Mod(b, p + 2) \in {0, 1, 2}
      <4>1. At(b, p + 2) \div 64 \in 0..3
        BY <3>1, <3>2
      <4>2. Mod(b, p + 2) \in 0..3 /\ Mod(b, p + 2) # 3
        BY <4>1 DEF Mod, PlainMemory
      <4> QED BY <4>2
    <3> QED BY <3>3 DEF DisplacementLen
  <2>2. DecodeSse(b).len \in {p, p + 2, p + 2 + DisplacementLen(b, p + 2)}
        /\ (DecodeSse(b).len \notin {p, p + 2} => PlainMemory(b, p + 2))
    BY <1>2 DEF DecodeSse, Ins, Bad, SseRegReg
  <2>3. DecodeSse(b) = [ins |-> DecodeSse(b).ins, len |-> DecodeSse(b).len]
    BY <1>2 DEF DecodeSse, Ins, Bad, SseRegReg
  <2> QED BY <1>2, <1>4, <2>1, <2>2, <2>3 DEF Decode, Ins
<1> QED BY <1>3, <1>4

-----------------------------------------------------------------------------
(* What is read from a place on depends on later places only.              *)
LEMMA LaterPlaces ==
  ASSUME NEW b \in Seq(Byte), NEW i \in 1..Len(b) + 1, NEW g, NEW h,
         \A j \in i + 1..Len(b) + 1 : g[j] = h[j]
  PROVE  ReadOn(b, i, g) = ReadOn(b, i, h)
<1>1. CASE i > Len(b)
  BY <1>1 DEF ReadOn
<1>2. CASE ~ (i > Len(b))
  <2> DEFINE d == Decode(SubSeq(b, i, Len(b)))
  <2>1. SubSeq(b, i, Len(b)) \in Seq(Byte)
    OBVIOUS
  <2>2. d.len \in Nat \ {0}
    BY <2>1, DecodeProgresses
  <2> HIDE DEF d
  <2>3. i + d.len > Len(b) + 1 \/ g[i + d.len] = h[i + d.len]
    <3>1. CASE ~ (i + d.len > Len(b) + 1)
      <4>1. i + d.len \in i + 1..Len(b) + 1
        BY <2>2, <3>1
      <4> QED BY <4>1
    <3> QED BY <3>1
  <2> QED BY <1>2, <2>3 DEF ReadOn, d
<1> QED BY <1>1, <1>2

LEMMA ReadingsUnfold ==
  ASSUME NEW b \in Seq(Byte)
  PROVE  \A i \in 1..Len(b) + 1 : Readings(b)[i] = ReadOn(b, i, Readings(b))
<1> DEFINE n == Len(b)
           From(m) == n + 1 - m..n + 1
           P(g, m) == g = [i \in From(m) |-> ReadOn(b, i, g)]
           S == {m \in Nat : m <= n => \E g : P(g, m)}
<1>1. n \in Nat
  OBVIOUS
<1>2. 0 \in S
  <2> DEFINE g == [i \in From(0) |-> ReadOn(b, i, << >>)]
  <2>1. \A i \in From(0) : i \in 1..n + 1 /\ i + 1 > n + 1
    BY <1>1
  <2>2. \A i \in From(0) : ReadOn(b, i, << >>) = ReadOn(b, i, g)
    <3> TAKE i \in From(0)
    <3>1. i \in 1..n + 1 /\ \A j \in i + 1..n + 1 : << >>[j] = g[j]
      BY <1>1, <2>1
    <3> HIDE DEF g
    <3> QED BY <3>1, LaterPlaces
  <2>3. P(g, 0)
    BY <2>2
  <2> QED BY <2>3
<1>3. \A m \in Nat : m \in S => m + 1 \in S
  <2> SUFFICES ASSUME NEW m \in Nat, m \in S, m + 1 <= n PROVE \E g : P(g, m + 1)
    <3> HIDE DEF P, n
    <3> QED OBVIOUS
  <2>1. PICK g : P(g, m)
    BY <1>1
  <2> DEFINE h == [i \in From(m + 1) |-> IF i = n - m THEN ReadOn(b, i, g) ELSE g[i]]
  <2>2. From(m + 1) \subseteq 1..n + 1 /\ \A i \in From(m + 1) : i = n - m \/ i \in From(m)
    BY <1>1
  <2>3. \A i \in From(m + 1) : \A j \in i + 1..n + 1 : g[j] = h[j]
    <3> TAKE i \in From(m + 1)
    <3> TAKE j \in i + 1..n + 1
    <3>1. j \in From(m + 1) /\ j # n - m
      BY <1>1
    <3> QED BY <3>1
  <2>4. \A i \in From(m + 1) : ReadOn(b, i, g) = ReadOn(b, i, h)
    <3> TAKE i \in From(m + 1)
    <3>1. i \in 1..n + 1 /\ \A j \in i + 1..n + 1 : g[j] = h[j]
      BY <2>2, <2>3
    <3> HIDE DEF h
    <3> QED BY <3>1, LaterPlaces
  <2>5. \A i \in From(m + 1) : h[i] = ReadOn(b, i, h)
    <3> TAKE i \in From(m + 1)
    <3>1. CASE i = n - m
      BY <2>4, <3>1
    <3>2. CASE i # n - m
      <4>1. i \in From(m) /\ h[i] = g[i]
        BY <2>2, <3>2
      <4>2. g[i] = ReadOn(b, i, g)
        BY <2>1, <4>1
      <4> QED BY <2>4, <4>1, <4>2
    <3> QED BY <3>1, <3>2
  <2>6. P(h, m + 1)
    <3>1. h = [i \in From(m + 1) |-> h[i]]
      OBVIOUS
    <3> HIDE DEF h
    <3> QED BY <2>5, <3>1
  <2> QED BY <2>6
<1>4. n \in S
  <2> HIDE DEF S
  <2> QED BY <1>1, <1>2, <1>3, SetInduction
<1> DEFINE Q(g) == g = [i \in 1..n + 1 |-> ReadOn(b, i, g)]
<1>5. \E g : Q(g)
  <2>1. From(n) = 1..n + 1
    BY <1>1
  <2> QED BY <1>4, <2>1
<1>6. Readings(b) = CHOOSE g : Q(g)
  BY DEF Readings
<1>7. Q(Readings(b))
  <2> HIDE DEF Q
  <2> QED BY <1>5, <1>6
<1> QED BY <1>7

(* From every place the processor reads a sequence of instructions, empty  *)
(* only at the end.                                                        *)
LEMMA ReadingsAreSequences ==
  ASSUME NEW b \in Seq(Byte)
  PROVE  \E T : \A i \in 1..Len(b) + 1 :
           Readings(b)[i] \in Seq(T) /\ (i <= Len(b) => Len(Readings(b)[i]) >= 1)
<1> DEFINE n == Len(b)
           D(i) == Decode(SubSeq(b, i, n))
           T == {D(i).ins : i \in 1..n} \union {<<"?">>}
           r == Readings(b)
           S == {m \in Nat : m <= n => \A i \in n + 1 - m..n + 1 : r[i] \in Seq(T) /\ (i <= n => Len(r[i]) >= 1)}
<1>1. n \in Nat
  OBVIOUS
<1>2. \A i \in 1..n + 1 : r[i] = ReadOn(b, i, r)
  BY ReadingsUnfold
<1>3. \A i \in 1..n : D(i).len \in Nat \ {0} /\ D(i).ins \in T
  <2> TAKE i \in 1..n
  <2>1. SubSeq(b, i, n) \in Seq(Byte)
    OBVIOUS
  <2> QED BY <2>1, DecodeProgresses
<1>4. \A i \in 1..n : r[i] = IF D(i).ins = <<"?">> \/ i + D(i).len > n + 1 THEN <<<<"?">>>>
                             ELSE <<D(i).ins>> \o r[i + D(i).len]
  <2> TAKE i \in 1..n
  <2>1. i \in 1..n + 1 /\ ~ (i > n)
    BY <1>1
  <2> HIDE DEF r
  <2> QED BY <1>2, <2>1 DEF ReadOn
<1>5. r[n + 1] = << >>
  <2>1. n + 1 \in 1..n + 1 /\ n + 1 > n
    BY <1>1
  <2> HIDE DEF r
  <2> QED BY <1>2, <2>1 DEF ReadOn
<1>6. /\ << >> \in Seq(T)
      /\ \A x \in T : <<x>> \in Seq(T) /\ Len(<<x>>) = 1
      /\ <<"?">> \in T
  OBVIOUS
<1> HIDE DEF r, D, T, n
<1>7. 0 \in S
  <2>1. \A i \in n + 1 - 0..n + 1 : i = n + 1
    BY <1>1
  <2>2. ASSUME NEW i \in n + 1 - 0..n + 1 PROVE r[i] \in Seq(T) /\ (i <= n => Len(r[i]) >= 1)
    <3>1. i = n + 1 /\ ~ (i <= n)
      BY <1>1, <2>1
    <3> QED BY <1>5, <1>6, <3>1
  <2> QED BY <2>2
<1>8. \A m \in Nat : m \in S => m + 1 \in S
  <2> SUFFICES ASSUME NEW m \in Nat, m \in S, m + 1 <= n,
                      NEW i \in n + 1 - (m + 1)..n + 1
               PROVE  r[i] \in Seq(T) /\ (i <= n => Len(r[i]) >= 1)
    OBVIOUS
  <2>1. \A j \in n + 1 - m..n + 1 : r[j] \in Seq(T) /\ (j <= n => Len(r[j]) >= 1)
    BY <1>1
  <2>2. CASE i \in n + 1 - m..n + 1
    BY <2>1, <2>2
  <2>3. CASE i \notin n + 1 - m..n + 1
    <3>1. i \in 1..n /\ i = n - m
      BY <1>1, <2>3
    <3>2. CASE D(i).ins = <<"?">> \/ i + D(i).len > n + 1
      <4>1. r[i] = <<<<"?">>>>
        BY <1>4, <3>1, <3>2
      <4>2. <<<<"?">>>> \in Seq(T) /\ Len(<<<<"?">>>>) = 1
        BY <1>6
      <4> QED BY <4>1, <4>2
    <3>3. CASE ~ (D(i).ins = <<"?">> \/ i + D(i).len > n + 1)
      <4>1. D(i).len \in Nat \ {0} /\ D(i).ins \in T
        BY <1>3, <3>1
      <4>2. i + D(i).len \in n + 1 - m..n + 1
        BY <1>1, <3>1, <3>3, <4>1
      <4>3. r[i + D(i).len] \in Seq(T)
        BY <2>1, <4>2
      <4>4. <<D(i).ins>> \in Seq(T) /\ Len(<<D(i).ins>>) = 1
        BY <1>6, <4>1
      <4>5. r[i] = <<D(i).ins>> \o r[i + D(i).len]
        BY <1>4, <3>1, <3>3
      <4> QED BY <4>3, <4>4, <4>5, ConcatProperties
    <3> QED BY <3>2, <3>3
  <2> QED BY <2>2, <2>3
<1>9. n \in S
  <2> HIDE DEF S
  <2> QED BY <1>1, <1>7, <1>8, SetInduction
<1>10. \A i \in 1..n + 1 : r[i] \in Seq(T) /\ (i <= n => Len(r[i]) >= 1)
  <2>1. n + 1 - n = 1
    BY <1>1
  <2> QED BY <1>1, <1>9, <2>1
<1> QED BY <1>10 DEF r, n

(* What is left from a place on begins with the piece that is there.       *)
LEMMA BeginsWithItsPart ==
  ASSUME NEW b \in Seq(Byte), NEW p \in 0..Len(b), NEW q \in p..Len(b)
  PROVE  /\ SubSeq(b, p + 1, Len(b)) \in Seq(Byte)
         /\ SubSeq(b, p + 1, q) \in Seq(Byte) /\ Len(SubSeq(b, p + 1, q)) = q - p
         /\ Begins(SubSeq(b, p + 1, Len(b)), SubSeq(b, p + 1, q))
<1> DEFINE d == SubSeq(b, p + 1, Len(b))
           c == SubSeq(b, p + 1, q)
<1>1. d \in Seq(Byte) /\ Len(d) = Len(b) - p /\ \A k \in 1..Len(b) - p : d[k] = b[p + k]
  OBVIOUS
<1>2. c \in Seq(Byte) /\ Len(c) = q - p /\ \A k \in 1..q - p : c[k] = b[p + k]
  OBVIOUS
<1> HIDE DEF d, c
<1>3. ASSUME NEW k \in 1..Len(c) PROVE At(d, k) = c[k]
  <2>1. k \in 1..q - p /\ k \in 1..Len(b) - p
    BY <1>2
  <2>2. k \in DOMAIN d
    BY <1>1, <2>1
  <2> QED BY <1>1, <1>2, <2>1, <2>2 DEF At
<1> QED BY <1>1, <1>2, <1>3 DEF Begins, d, c

(* Bytes that are those of instructions that can be encoded are read as    *)
(* these: from the last one to the first.                                  *)
LEMMA ReadsBack ==
  ASSUME NEW b \in Seq(Byte), NEW s, SpelledAll(b, s), \A k \in DOMAIN s : Encodable(s[k])
  PROVE  Instructions(b) = s
<1>1. PICK st : Pieces(b, s, st)
  BY DEF SpelledAll
<1>2. PICK T : s \in Seq(T)
  BY DEF SpelledAll
<1> DEFINE n == Len(s)
           r == Readings(b)
           S == {m \in Nat : m <= n => r[st[n + 1 - m] + 1] = SubSeq(s, n + 1 - m, n)}
<1>3. n \in Nat /\ Len(b) \in Nat
  BY <1>2
<1>4. \A i \in 1..Len(b) + 1 : r[i] = ReadOn(b, i, r)
  BY ReadingsUnfold
<1>5. /\ \A k \in 1..n + 1 : st[k] \in 0..Len(b)
      /\ st[1] = 0 /\ st[n + 1] = Len(b)
      /\ \A k \in 1..n : Spelled(SubSeq(b, st[k] + 1, st[k + 1]), s[k])
  BY <1>1 DEF Pieces
<1>6. \A k \in 1..n : Encodable(s[k])
  BY <1>2
<1>7. 0 \in S
  <2>1. r[Len(b) + 1] = << >>
    <3>1. Len(b) + 1 \in 1..Len(b) + 1 /\ Len(b) + 1 > Len(b)
      BY <1>3
    <3> HIDE DEF r
    <3> QED BY <1>4, <3>1 DEF ReadOn
  <2>2. SubSeq(s, n + 1, n) = << >>
    BY <1>2
  <2>3. n + 1 - 0 = n + 1
    BY <1>3
  <2> QED BY <1>5, <2>1, <2>2, <2>3
<1>8. \A m \in Nat : m \in S => m + 1 \in S
  <2> SUFFICES ASSUME NEW m \in Nat, m \in S, m + 1 <= n
               PROVE  r[st[n + 1 - (m + 1)] + 1] = SubSeq(s, n + 1 - (m + 1), n)
    OBVIOUS
  <2> DEFINE k == n - m
             p == st[k]
             q == st[k + 1]
             c == SubSeq(b, p + 1, q)
             d == SubSeq(b, p + 1, Len(b))
  <2>1. k \in 1..n /\ k \in 1..n + 1 /\ k + 1 \in 1..n + 1 /\ n + 1 - (m + 1) = k /\ n + 1 - m = k + 1 /\ m <= n
    BY <1>3
  <2>2. r[q + 1] = SubSeq(s, k + 1, n)
    BY <2>1
  <2> HIDE DEF k
  <2>3. p \in 0..Len(b) /\ q \in 0..Len(b) /\ Spelled(c, s[k]) /\ Encodable(s[k])
    BY <1>5, <1>6, <2>1
  <2>4. p < q
    <3>1. CASE ~ (p < q)
      <4>1. Len(c) = 0
        BY <1>3, <2>3, <3>1
      <4> QED BY <2>3, <4>1 DEF Spelled
    <3> QED BY <3>1
  <2>5. d \in Seq(Byte) /\ Len(c) = q - p /\ Begins(d, c)
    <3>1. q \in p..Len(b)
      BY <1>3, <2>3, <2>4
    <3> HIDE DEF p, q
    <3> QED BY <2>3, <3>1, BeginsWithItsPart
  <2>6. Decode(d) = Ins(s[k], q - p) /\ s[k] # <<"?">>
    <3> HIDE DEF c, d, p, q
    <3> QED BY <2>3, <2>5 DEF Spelled
  <2>7. ReadOn(b, p + 1, r) = <<s[k]>> \o r[q + 1]
    <3>1. ~ (p + 1 > Len(b)) /\ ~ (p + 1 + (q - p) > Len(b) + 1) /\ p + 1 + (q - p) = q + 1
      <4>1. p \in Nat /\ q \in Nat /\ q <= Len(b) /\ p < q /\ Len(b) \in Nat
        BY <1>3, <2>3, <2>4
      <4> HIDE DEF p, q
      <4> QED BY <4>1
    <3>2. Decode(d).ins = s[k] /\ Decode(d).len = q - p
      BY <2>6 DEF Ins
    <3> HIDE DEF p, q, r
    <3> QED BY <2>6, <3>1, <3>2 DEF ReadOn
  <2>8. r[p + 1] = <<s[k]>> \o SubSeq(s, k + 1, n)
    <3>1. p + 1 \in 1..Len(b) + 1
      BY <1>3, <2>3
    <3> HIDE DEF p, q, r
    <3> QED BY <1>4, <2>2, <2>7, <3>1
  <2>9. <<s[k]>> \o SubSeq(s, k + 1, n) = SubSeq(s, k, n)
    BY <1>2, <2>1, SubSeqRecursiveFirst
  <2> QED BY <2>1, <2>8, <2>9
<1>9. n \in S
  <2> HIDE DEF S, n
  <2> QED BY <1>3, <1>7, <1>8, SetInduction
<1>10. r[1] = SubSeq(s, 1, n)
  <2>1. n + 1 - n = 1 /\ st[1] + 1 = 1
    BY <1>3, <1>5
  <2>2. r[st[n + 1 - n] + 1] = SubSeq(s, n + 1 - n, n)
    BY <1>3, <1>9
  <2> QED BY <2>1, <2>2
<1>11. SubSeq(s, 1, n) = s
  BY <1>2, SubSeqFull
<1> QED BY <1>10, <1>11 DEF Instructions

(* One instruction that cannot be encoded is read as something else.       *)
LEMMA MisreadsOne ==
  ASSUME NEW b \in Seq(Byte), NEW s, SpelledAll(b, s), Len(s) = 1, ~ Encodable(s[1])
  PROVE  Instructions(b) # s
<1>1. PICK st : Pieces(b, s, st)
  BY DEF SpelledAll
<1>2. PICK T : s \in Seq(T)
  BY DEF SpelledAll
<1> DEFINE r == Readings(b)
           n == Len(b)
<1>3. SubSeq(b, 1, n) = b /\ n \in Nat
  BY SubSeqFull
<1>4. Spelled(b, s[1])
  <2>1. st[1] = 0 /\ st[2] = n /\ Spelled(SubSeq(b, st[1] + 1, st[1 + 1]), s[1])
    BY <1>1 DEF Pieces
  <2>2. st[1] + 1 = 1 /\ 1 + 1 = 2
    BY <2>1
  <2> QED BY <1>3, <2>1, <2>2
<1>5. n > 0 /\ s[1] # <<"?">> /\ Decode(b) # Ins(s[1], n)
  <2>1. Begins(b, b)
    BY DEF Begins, At
  <2> QED BY <1>4, <2>1 DEF Spelled
<1> SUFFICES ASSUME r[1] = s PROVE FALSE
  BY DEF Instructions
<1>6. PICK S : \A i \in 1..n + 1 : r[i] \in Seq(S) /\ (i <= n => Len(r[i]) >= 1)
  BY ReadingsAreSequences
<1>7. r[1] = ReadOn(b, 1, r)
  <2>1. 1 \in 1..n + 1
    BY <1>3
  <2> HIDE DEF r
  <2> QED BY <2>1, ReadingsUnfold DEF r
<1>8. Decode(b) = Ins(Decode(b).ins, Decode(b).len) /\ Decode(b).len \in Nat \ {0}
  BY DecodeProgresses
<1> HIDE DEF r
<1>16. r[1] = IF Decode(b).ins = <<"?">> \/ 1 + Decode(b).len > n + 1 THEN <<<<"?">>>>
              ELSE <<Decode(b).ins>> \o r[1 + Decode(b).len]
  <2>1. ~ (1 > n)
    BY <1>3, <1>5
  <2> QED BY <1>3, <1>7, <2>1 DEF ReadOn
<1>9. ~ (Decode(b).ins = <<"?">> \/ 1 + Decode(b).len > n + 1)
  <2> SUFFICES ASSUME Decode(b).ins = <<"?">> \/ 1 + Decode(b).len > n + 1 PROVE FALSE
    OBVIOUS
  <2>1. s = <<<<"?">>>>
    BY <1>16
  <2> QED BY <1>5, <2>1
<1>10. s = <<Decode(b).ins>> \o r[1 + Decode(b).len]
  BY <1>9, <1>16
<1>11. 1 + Decode(b).len \in 1..n + 1
  BY <1>3, <1>8, <1>9
<1> DEFINE x == Decode(b).ins
           y == r[1 + Decode(b).len]
<1>12. y \in Seq(S) /\ (1 + Decode(b).len <= n => Len(y) >= 1)
  BY <1>6, <1>11
<1>13. Len(s) = 1 + Len(y) /\ s[1] = x
  <2>1. y \in Seq(S \union {x}) /\ <<x>> \in Seq(S \union {x})
    BY <1>12
  <2> HIDE DEF x, y
  <2>2. s = <<x>> \o y
    BY <1>10 DEF x, y
  <2> QED BY <2>1, <2>2
<1>14. Len(y) = 0
  <2>1. Len(y) \in Nat
    BY <1>12
  <2>2. 1 = 1 + Len(y)
    BY <1>13
  <2> HIDE DEF y
  <2> QED BY <2>1, <2>2
<1>15. Decode(b).len = n
  BY <1>3, <1>8, <1>11, <1>12, <1>14
<1> QED BY <1>5, <1>8, <1>13, <1>15

-----------------------------------------------------------------------------
(* The bytes that are there and those still to be written are, together,   *)
(* those of the instructions asked for.                                    *)
Prepared ==
  \E rest \in Seq(Byte) : Yields(pending, rest) /\ SpelledAll(Contents \o rest, asked)

LEMMA ContentsAreBytes ==
  ASSUME IInv
  PROVE  Contents \in Seq(Byte) /\ Len(Contents) = size
<1>1. size \in Nat
  BY DEF IInv, TypeOK
<1> QED BY <1>1 DEF IInv, SizeFits, Contents

LEMMA EmptyPrepared == size = 0 /\ pending = << >> /\ asked = << >> => Prepared
<1> SUFFICES ASSUME size = 0, pending = << >>, asked = << >> PROVE Prepared
  OBVIOUS
<1>1. Contents = << >>
  BY DEF Contents
<1>2. << >> \o << >> = << >> /\ << >> \in Seq(Byte)
  OBVIOUS
<1> QED BY <1>1, <1>2, NothingSpelled DEF Prepared

(* A call appends the bytes of its instruction to those to be written, a    *)
(* write moves some of them into the section, and nothing else is touched.  *)
LEMMA StepPrepared == IInv /\ Prepared /\ [Next]_vars => Prepared'
<1> SUFFICES ASSUME IInv, Prepared, [Next]_vars PROVE Prepared'
  OBVIOUS
<1>1. PICK rest \in Seq(Byte) : Yields(pending, rest) /\ SpelledAll(Contents \o rest, asked)
  BY DEF Prepared
<1>2. Contents \in Seq(Byte) /\ pending \in Writes
  BY ContentsAreBytes DEF IInv, TypeOK, Writes
<1>3. CASE Call
  <2>1. Contents' = Contents /\ pending = << >>
    BY <1>3 DEF Call, Contents
  <2>2. rest = << >>
    BY <1>1, <2>1, NothingYielded
  <2>3. Contents \o << >> = Contents /\ << >> \in Seq(Byte)
    BY <1>2
  <2>4. SpelledAll(Contents, asked)
    BY <1>1, <2>2, <2>3
  <2>5. CASE pending' = << >> /\ asked' = asked
    BY <1>1, <2>1, <2>2, <2>5 DEF Prepared
  <2>6. ASSUME NEW i, asked' = Append(asked, i), Spells(pending', i)
        PROVE  Prepared'
    <3>1. PICK b : Yields(pending', b) /\ Spelled(b, i)
      BY <2>6 DEF Spells
    <3>2. b \in Seq(Byte) /\ SpelledAll(Contents \o b, Append(asked, i))
      BY <1>2, <2>4, <3>1, SpelledFurther DEF Spelled
    <3> QED BY <2>1, <2>6, <3>1, <3>2 DEF Prepared
  <2> QED BY <1>3, <2>5, <2>6, CallsSpell
<1>4. CASE section_emit_bytes
  <2> DEFINE bytes == Head(pending)
  <2>1. pending # << >> /\ bytes \in Seq(Byte) /\ asked' = asked
    BY <1>2, <1>4 DEF section_emit_bytes, Writes
  <2>2. CASE (EmitInPlace(bytes) \/ EmitGrowing(bytes)) /\ pending' = Tail(pending)
    <3>1. PICK c \in Seq(Byte) : rest = bytes \o c /\ Yields(Tail(pending), c)
      BY <1>1, <1>2, <2>1, YieldsRest
    <3>2. Contents' = Contents \o bytes
      BY <2>1, <2>2, WritesLand, WrittenAppends
    <3>3. (Contents \o bytes) \o c = Contents \o (bytes \o c)
      <4>1. bytes \in Seq(Byte) /\ c \in Seq(Byte) /\ Contents \in Seq(Byte)
        BY <1>2, <2>1
      <4> HIDE DEF bytes
      <4> QED BY <4>1, ConcatAssociative
    <3> QED BY <1>1, <2>1, <2>2, <3>1, <3>2, <3>3 DEF Prepared
  <2>3. CASE EmitThroughNull(bytes) /\ UNCHANGED pending
    <3>1. Contents' = Contents
      BY <2>3 DEF EmitThroughNull, Contents
    <3> QED BY <1>1, <2>1, <2>3, <3>1 DEF Prepared
  <2> QED BY <1>4, <2>2, <2>3 DEF section_emit_bytes
<1>5. CASE section_destroy
  <2>1. size' = 0 /\ pending' = << >> /\ asked' = << >>
    BY <1>5 DEF section_destroy
  <2>2. (size = 0 /\ pending = << >> /\ asked = << >> => Prepared)'
    BY EmptyPrepared, PTL
  <2> QED BY <2>1, <2>2
<1>6. CASE UNCHANGED vars
  <2>1. Contents' = Contents /\ pending' = pending /\ asked' = asked
    BY <1>6 DEF vars, Contents
  <2> QED BY <1>1, <2>1 DEF Prepared
<1> QED BY <1>3, <1>4, <1>5, <1>6 DEF Next

LEMMA PreparedDecodes == IInv /\ Prepared => DecodesToWhatWasAsked
<1> SUFFICES ASSUME IInv, Prepared, pending = << >>
             PROVE  /\ (\A k \in DOMAIN asked : Encodable(asked[k])) => Instructions(Contents) = asked
                    /\ (Len(asked) = 1 /\ ~ Encodable(asked[1])) => Instructions(Contents) # asked
  BY DEF DecodesToWhatWasAsked
<1>1. Contents \in Seq(Byte)
  BY ContentsAreBytes
<1>2. SpelledAll(Contents, asked)
  <2>1. PICK rest \in Seq(Byte) : Yields(<< >>, rest) /\ SpelledAll(Contents \o rest, asked)
    BY DEF Prepared
  <2>2. rest = << >> /\ Contents \o << >> = Contents
    BY <1>1, <2>1, NothingYielded
  <2> QED BY <2>1, <2>2
<1> QED BY <1>1, <1>2, ReadsBack, MisreadsOne

(* As long as every call was one that can be encoded (Encodable), the       *)
(* processor reads back what was asked for, in order, for any number of     *)
(* calls, all operands in range and any growth between them.  Outside of    *)
(* Encodable, which the emitters do not test, the opposite holds: one call  *)
(* is read as another instruction or as none (mov between different         *)
(* registers, emiters.cpp:206; cvtsi2sd and cvtsd2si, 421, 435; extended    *)
(* bases, 237; xmm8 and above, 366).                                        *)
THEOREM SectionDecodes == Spec => []DecodesToWhatWasAsked
<1>1. Init => IInv /\ Prepared
  BY InitOK, EmptyPrepared DEF Init
<1>2. (IInv /\ Prepared) /\ [Next]_vars => (IInv /\ Prepared)'
  BY StepOK, StepPrepared
<1> QED BY <1>1, <1>2, PreparedDecodes, PTL DEF Spec
=============================================================================
