------------------------------ MODULE Section ------------------------------
(***************************************************************************)
(* The growing byte array of source/elf/emiters.cpp and the emitters that  *)
(* write machine code into it.                                             *)
(*                                                                         *)
(* data is the heap block: a function on 0..capacity-1, or NoBlock for the *)
(* NULL pointer.  A cell realloc has just added holds Undef.  calloc and   *)
(* realloc may fail; their results are not looked at, so that the write    *)
(* which follows goes through NULL and the process ends ("crashed").  A    *)
(* step is one call of an emitter or one of its writes.                    *)
(***************************************************************************)
EXTENDS Emitters

CONSTANTS
  Undef,           (* an indeterminate cell                                 *)
  InitCapacities,  (* the capacities section_init is called with            *)
  Registers,       (* general registers emitters are called with            *)
  Xmms,            (* SSE registers                                         *)
  Frames,          (* sizes rsp is moved by                                 *)
  Displacements,   (* of a memory operand                                   *)
  Immediates,      (* of mov_ri: those that are 32 bits with their sign     *)
  Shorts,          (* offsets of the jumps with one byte, an int8_t         *)
  Longs,           (* addresses of calls and offsets of the long jump       *)
  MaxCalls         (* BOUND: on the number of emitters called               *)

ASSUME CapacityAssumption == InitCapacities \subseteq Nat
ASSUME UndefAssumption    == Undef \notin Byte
ASSUME RegisterAssumption == Registers \subseteq 0..15 /\ Xmms \subseteq 0..15
ASSUME NumberAssumption   ==
  /\ Frames \subseteq Nat
  /\ Displacements \subseteq Int32 /\ Immediates \subseteq Int32 /\ Longs \subseteq Int
  /\ Shorts \subseteq -128..127
  /\ MaxCalls \in Nat

VARIABLES
  phase,      (* "live" | "crashed"                                         *)
  data,       (* section->data                                              *)
  size,       (* section->size                                              *)
  capacity,   (* section->capacity                                          *)
  pending,    (* the writes the running emitter still has to make           *)
  asked       (* ghost: the instructions that were asked for                *)

vars == <<phase, data, size, capacity, pending, asked>>

NoBlock == << >>

Contents == [i \in 1..size |-> data[i - 1]]

-----------------------------------------------------------------------------
(* section_init, whose calloc may fail.                                    *)
Init ==
  /\ phase = "live"
  /\ capacity \in InitCapacities
  /\ data \in {[i \in 0..capacity - 1 |-> 0], NoBlock}
  /\ size = 0
  /\ pending = << >>
  /\ asked = << >>

section_destroy ==
  /\ phase = "live" /\ pending = << >>
  /\ data' = NoBlock
  /\ size' = 0
  /\ capacity' = 0
  /\ asked' = << >>
  /\ UNCHANGED <<phase, pending>>

Fits(add) == size + add < capacity

(* Seeded fault: the array doubles, however long the write is.             *)
FaultDoubled(add) == capacity * 2

Grown(add) ==
  IF capacity * 2 < size + add THEN size + add + 64 ELSE capacity * 2

(* Seeded fault: malloc in the place of realloc.                           *)
FaultStored(bytes, c) ==
  [i \in 0..c - 1 |->
     IF i \in size..size + Len(bytes) - 1 THEN bytes[i - size + 1] ELSE Undef]

(* The block after realloc to c cells and memcpy of bytes behind the first
   size ones.                                                              *)
Stored(bytes, c) ==
  [i \in 0..c - 1 |->
     IF i \in size..size + Len(bytes) - 1 THEN bytes[i - size + 1]
     ELSE IF i \in DOMAIN data THEN data[i] ELSE Undef]

EmitInPlace(bytes) ==
  /\ Fits(Len(bytes))
  /\ data # NoBlock
  /\ data' = Stored(bytes, capacity)
  /\ size' = size + Len(bytes)
  /\ UNCHANGED <<phase, capacity>>

(* Seeded fault: realloc comes before the correction of the new capacity.  *)
FaultEmitGrowing(bytes) ==
  /\ ~Fits(Len(bytes))
  /\ capacity' = Grown(Len(bytes))
  /\ data' = Stored(bytes, capacity * 2)
  /\ size' = size + Len(bytes)
  /\ UNCHANGED phase

EmitGrowing(bytes) ==
  /\ ~Fits(Len(bytes))
  /\ capacity' = Grown(Len(bytes))
  /\ data' = Stored(bytes, capacity')
  /\ size' = size + Len(bytes)
  /\ UNCHANGED phase

(* realloc has failed, or calloc had and there is nothing to grow.         *)
EmitThroughNull(bytes) ==
  /\ ~Fits(Len(bytes)) \/ data = NoBlock
  /\ phase' = "crashed"
  /\ UNCHANGED <<data, size, capacity>>

section_emit_bytes ==
  /\ phase = "live" /\ pending # << >>
  /\ \/ /\ EmitInPlace(Head(pending)) \/ EmitGrowing(Head(pending))
        /\ pending' = Tail(pending)
     \/ /\ EmitThroughNull(Head(pending))
        /\ UNCHANGED pending
  /\ UNCHANGED asked

-----------------------------------------------------------------------------
(* The emitter of instruction begins; its writes are steps of their own.   *)
Emit(instruction, writes) ==
  /\ pending' = writes
  /\ asked' = IF writes = << >> THEN asked ELSE Append(asked, instruction)

OnStack ==
  \/ \E r \in Registers : Emit(<<"push", r>>, emit_push(r)) \/ Emit(<<"pop", r>>, emit_pop(r))
  \/ \E n \in Frames : \/ Emit(<<"sub_i", 4, n>>, emit_sub_rsp(n))
                       \/ Emit(<<"add_i", 4, n>>, emit_add_rsp(n))

Transfer ==
  \/ \E n \in Longs : Emit(<<"call", n>>, emit_call(n)) \/ Emit(<<"jmp", n>>, emit_jmp_rel32(n))
  \/ \E n \in Shorts, j \in DOMAIN Rel8Opcodes : Emit(<<j, n>>, emit_rel8(Rel8Opcodes[j], n))
  \/ Emit(<<"ret">>, emit_ret) \/ Emit(<<"syscall">>, emit_syscall)
  \/ Emit(<<"nop">>, emit_nop) \/ Emit(<<"int3">>, emit_int3)

OnRegisters ==
  \/ \E a, b \in Registers :
       \/ Emit(<<"mov", a, b>>, emit_move_rr(a, b))
       \/ \E o \in DOMAIN RROpcodes : Emit(<<o, a, b>>, emit_rr(RROpcodes[o], a, b))
       \/ Emit(<<"div", a, b>>, emit_div_rr(a, b))
       \/ Emit(<<"mul", a, b>>, emit_mul_rr(a, b))
  \/ \E r \in Registers, n \in Immediates : Emit(<<"mov_i", r, n>>, emit_mov_ri(r, n))

OnXmms ==
  \/ \E x, y \in Xmms :
       \/ Emit(<<"movsd", x, y>>, emit_movsd(x, y))
       \/ \E o \in DOMAIN XmmOpcodes :
            Emit(<<o, x, y>>, emit_xmm_xmm(XmmOpcodes[o][1], XmmOpcodes[o][2], x, y))
  \/ \E x \in Xmms, r \in Registers :
       \/ Emit(<<"cvtsi2sd", x, r>>, emit_cvtsi2sd(x, r))
       \/ Emit(<<"cvtsd2si", r, x>>, emit_cvtsd2si(r, x))
       \/ \E d \in Displacements : \/ Emit(<<"load", x, r, d>>, emit_movsd_rm(x, r, d))
                                   \/ Emit(<<"store", r, d, x>>, emit_movsd_mr(r, d, x))

Call ==
  /\ phase = "live" /\ pending = << >>
  /\ Len(asked) < MaxCalls
  /\ OnStack \/ Transfer \/ OnRegisters \/ OnXmms
  /\ UNCHANGED <<phase, data, size, capacity>>

Next == Call \/ section_emit_bytes \/ section_destroy

Spec == Init /\ [][Next]_vars

-----------------------------------------------------------------------------
TypeOK ==
  /\ phase \in {"live", "crashed"}
  /\ capacity \in Nat
  /\ size \in Nat
  /\ data \in [0..capacity - 1 -> Byte \union {Undef}] \union {NoBlock}
  /\ pending \in Seq(Seq(Byte))

(* The bytes of the section lie inside its block and every one of them was
   written: check_capacity leaves room for whatever is about to be copied,
   also for eight bytes into a section of no capacity.                     *)
SizeFits ==
  /\ size <= capacity
  /\ \A i \in 0..size - 1 : i \in DOMAIN data /\ data[i] \in Byte

(* The growing array is the append-only sequence AbstractSection promises:
   no write of an emitter is lost or moved when the block is reallocated.  *)
Abstract == INSTANCE AbstractSection WITH out <- Contents

AbstractSpec == Abstract!Spec
=============================================================================
