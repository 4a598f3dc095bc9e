------------------------------ MODULE Emitters ------------------------------
(***************************************************************************)
(* What each emitter of source/elf/emiters.cpp hands to its section: the   *)
(* sequence of its writes, a write being the bytes of one call of          *)
(* section_emit_byte or section_emit_bytes.  Registers are numbered as in  *)
(* reg_t.  ORs of disjoint bits are sums.                                  *)
(***************************************************************************)
EXTENDS Integers, Sequences

Byte  == 0..255
Int32 == {n \in Int : -2147483647 - 1 <= n /\ n <= 2147483647}

Extended(reg) == reg >= 8      \* REG_EXTENDED
RegCode(reg)  == reg % 8       \* REG_CODE, and xmm & 7

EMIT(byte) == << <<byte>> >>

(* The bytes of a little-endian integer between -2^31 and 2^31 - 1 that
   has been extended to more than four bytes with its sign.                *)
ByteOf(n, k) ==
  IF k < 4 THEN (n \div (CASE k = 0 -> 1 [] k = 1 -> 256 [] k = 2 -> 65536 [] k = 3 -> 16777216)) % 256
  ELSE IF n < 0 THEN 255 ELSE 0

emit_bytes(n, len) == << [i \in 1..len |-> ByteOf(n, i - 1)] >>

make_rex(dst_ext, src_ext) ==
  72 + (IF dst_ext THEN 4 ELSE 0) + (IF src_ext THEN 1 ELSE 0)

ModRM(mod, reg, rm) == mod * 64 + RegCode(reg) * 8 + RegCode(rm)

-----------------------------------------------------------------------------
(* The stack.                                                              *)
WithRegister(op_code, reg) ==
  IF Extended(reg) THEN EMIT(65) \o EMIT(op_code + RegCode(reg))
                   ELSE EMIT(op_code + reg)

emit_push(reg) == WithRegister(80, reg)
emit_pop(reg)  == WithRegister(88, reg)

MoveRsp(byteForm, n) ==
  IF n < 128 THEN EMIT(72) \o EMIT(131) \o EMIT(byteForm) \o EMIT(n)
             ELSE EMIT(72) \o EMIT(129) \o EMIT(byteForm) \o emit_bytes(n, 4)

(* Seeded fault: the short form up to 255, which the processor reads as a
   negative number.                                                        *)
FaultSubRspUnsigned(n) ==
  IF n = 0 THEN << >>
  ELSE IF n < 256 THEN EMIT(72) \o EMIT(131) \o EMIT(236) \o EMIT(n)
  ELSE EMIT(72) \o EMIT(129) \o EMIT(236) \o emit_bytes(n, 4)

emit_sub_rsp(n) == IF n = 0 THEN << >> ELSE MoveRsp(236, n)
emit_add_rsp(n) == IF n = 0 THEN << >> ELSE MoveRsp(196, n)

-----------------------------------------------------------------------------
(* Calls and jumps.                                                        *)
emit_call(addr)         == EMIT(232) \o emit_bytes(addr, 4)
emit_jmp_rel32(offset)  == EMIT(233) \o emit_bytes(offset, 4)

emit_rel8(op, offset)   == EMIT(op) \o EMIT(offset % 256)

Rel8Opcodes == [jmp |-> 235, je |-> 116, jne |-> 117, jg |-> 127,
                jge |-> 125, jl |-> 124, jle |-> 126]

emit_ret     == EMIT(195)
emit_syscall == EMIT(15) \o EMIT(5)
emit_nop     == EMIT(144)
emit_int3    == EMIT(204)

-----------------------------------------------------------------------------
(* Moves and arithmetic on general registers.                              *)
emit_move_rr(dst, src) ==
  EMIT(make_rex(Extended(dst), Extended(src))) \o EMIT(137) \o EMIT(ModRM(3, dst, src))

emit_mov_ri(dst, imm) ==
  EMIT(make_rex(FALSE, Extended(dst))) \o EMIT(184 + RegCode(dst)) \o emit_bytes(imm, 8)

emit_rr(op, dst, src) ==
  EMIT(make_rex(Extended(dst), Extended(src))) \o EMIT(op) \o EMIT(ModRM(3, src, dst))

RROpcodes == [cmp |-> 57, add |-> 1, sub |-> 41]

(* div and mul work on RAX whatever their first argument is.               *)
emit_unary(extension, src) ==
  EMIT(make_rex(FALSE, Extended(src))) \o EMIT(247) \o EMIT(ModRM(3, extension, src))

emit_div_rr(dst, src) == emit_unary(6, src)
emit_mul_rr(dst, src) == emit_unary(4, src)

-----------------------------------------------------------------------------
(* SSE.  REX, where there is one, is written behind the opcode.            *)
movsd(op_code, xmm, base, offset) ==
  EMIT(242) \o EMIT(15) \o EMIT(op_code)
    \o (IF Extended(base) THEN EMIT(65) ELSE << >>)
    \o (IF offset = 0 THEN EMIT(ModRM(0, xmm, base))
        ELSE IF offset \in -128..127 THEN EMIT(ModRM(1, xmm, base)) \o EMIT(offset % 256)
        ELSE EMIT(ModRM(2, xmm, base)) \o emit_bytes(offset, 4))

emit_movsd_rm(xmm_dst, base, offset) == movsd(16, xmm_dst, base, offset)
emit_movsd_mr(base, offset, xmm_src) == movsd(17, xmm_src, base, offset)

OrCodes(a, b) ==
  LET bit(x, k) == (x \div k) % 2 IN
    4 * (IF bit(a, 4) + bit(b, 4) > 0 THEN 1 ELSE 0)
      + 2 * (IF bit(a, 2) + bit(b, 2) > 0 THEN 1 ELSE 0)
      + (IF bit(a, 1) + bit(b, 1) > 0 THEN 1 ELSE 0)

(* Neither register is shifted into the middle field of ModRM.             *)
emit_movsd(xmm_dst, xmm_src) ==
  EMIT(242) \o EMIT(15) \o EMIT(16) \o EMIT(192 + OrCodes(xmm_dst, xmm_src))

emit_xmm_xmm(prefix, op_code, xmm_dst, xmm_src) ==
  EMIT(prefix) \o EMIT(15) \o EMIT(op_code) \o EMIT(ModRM(3, xmm_dst, xmm_src))

XmmOpcodes ==
  [addsd |-> <<242, 88>>, subsd |-> <<242, 92>>, mulsd  |-> <<242, 89>>, divsd |-> <<242, 94>>,
   xorpd |-> <<102, 87>>, comisd |-> <<102, 47>>]

emit_cvtsi2sd(xmm_dst, src) ==
  EMIT(242) \o EMIT(15) \o EMIT(42) \o EMIT(make_rex(FALSE, Extended(src))) \o EMIT(ModRM(3, xmm_dst, src))

emit_cvtsd2si(dst, xmm_src) ==
  EMIT(242) \o EMIT(15) \o EMIT(45) \o EMIT(make_rex(Extended(dst), FALSE)) \o EMIT(ModRM(3, dst, xmm_src))
=============================================================================
