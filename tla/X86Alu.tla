------------------------------- MODULE X86Alu -------------------------------
(***************************************************************************)
(* The instructions of the free BIOS emulator (video/x86/x86_ops.c), one   *)
(* definition per handler, named as in the source, each an instance of the *)
(* form its opcode family shares.  A handler starts after the opcode byte. *)
(* This module: arithmetic and logic on a register and an operand, the     *)
(* instructions on one register, and the stack.                            *)
(***************************************************************************)
EXTENDS X86Prims, X86Bios

(***************************************************************************)
(* Operands.  The r/m operand is a register for mode 3 and memory          *)
(* otherwise; its address is decoded once and used for both the fetch and  *)
(* the store.  An operand is a record: the machine that decoding it left,  *)
(* the middle field of the mode byte, where it is, and its value once it   *)
(* was read.                                                               *)
(***************************************************************************)
Decoded(x, w, a) == [m |-> a.m, rh |-> x.rh, inReg |-> x.mod = 3,
                     ref |-> Reg(w, x.rl), off |-> a.v, v |-> 0]
Operand(x, w) == Decoded(x, w, IF x.mod = 3 THEN [m |-> x.m, v |-> 0]
                               ELSE Address(x.m, x.mod, x.rl))
Decode(m, w) == Operand(fetch_decode_modrm(m), w)
Valued(e, f) == [e EXCEPT !.m = f.m, !.v = f.v]
Load(e, w) == Valued(e, IF e.inReg THEN [m |-> e.m, v |-> Get(e.m, e.ref)]
                        ELSE Fetch(e.m, w, e.off))
Read(m, w) == Load(Decode(m, w), w)
Save(e, w, r) == IF e.inReg THEN Put(r.m, e.ref, r.v) ELSE Store(r.m, w, e.off, r.v)
Other(e, w) == Get(e.m, Reg(w, e.rh))
PutFrom(f, ref) == Put(f.m, ref, f.v)

\* op r/m, reg and op reg, r/m; Only sets the flags alone.
ToOperand(e, w, Op(_, _, _))   == CLR(Save(e, w, Op(e.m, e.v, Other(e, w))))
FromOperand(e, w, Op(_, _, _)) == CLR(PutFrom(Op(e.m, Other(e, w), e.v), Reg(w, e.rh)))
OfOperand(e, w, Op(_, _, _))   == CLR(Op(e.m, e.v, Other(e, w)).m)
OpRM_R(m, w, Op(_, _, _))   == ToOperand(Read(m, w), w, Op)
OpR_RM(m, w, Op(_, _, _))   == FromOperand(Read(m, w), w, Op)
OnlyRM_R(m, w, Op(_, _, _)) == OfOperand(Read(m, w), w, Op)
\* op accumulator, immediate; a compare returns the accumulator's value.
WithAcc(f, w, Op(_, _, _)) == CLR(PutFrom(Op(f.m, Get(f.m, Reg(w, 0)), f.v), Reg(w, 0)))
OpAcc(m, w, Op(_, _, _)) == WithAcc(FetchImm(m, w), w, Op)

x86op_add_byte_RM_R(m) == OpRM_R(m, Byte, add_byte)
x86op_add_byte_R_RM(m) == OpR_RM(m, Byte, add_byte)
x86op_add_byte_AL_IMM(m) == OpAcc(m, Byte, add_byte)
x86op_add_word_RM_R(m) == OpRM_R(m, Word, add_word)
x86op_add_word_R_RM(m) == OpR_RM(m, Word, add_word)
x86op_add_word_AX_IMM(m) == OpAcc(m, Word, add_word)
x86op_or_byte_RM_R(m) == OpRM_R(m, Byte, or_byte)
x86op_or_byte_R_RM(m) == OpR_RM(m, Byte, or_byte)
x86op_or_byte_AL_IMM(m) == OpAcc(m, Byte, or_byte)
x86op_or_word_RM_R(m) == OpRM_R(m, Word, or_word)
x86op_or_word_R_RM(m) == OpR_RM(m, Word, or_word)
x86op_or_word_AX_IMM(m) == OpAcc(m, Word, or_word)
x86op_adc_byte_RM_R(m) == OpRM_R(m, Byte, adc_byte)
x86op_adc_byte_R_RM(m) == OpR_RM(m, Byte, adc_byte)
x86op_adc_byte_AL_IMM(m) == OpAcc(m, Byte, adc_byte)
x86op_adc_word_RM_R(m) == OpRM_R(m, Word, adc_word)
x86op_adc_word_R_RM(m) == OpR_RM(m, Word, adc_word)
x86op_adc_word_AX_IMM(m) == OpAcc(m, Word, adc_word)
x86op_sbb_byte_RM_R(m) == OpRM_R(m, Byte, sbb_byte)
x86op_sbb_byte_R_RM(m) == OpR_RM(m, Byte, sbb_byte)
x86op_sbb_byte_AL_IMM(m) == OpAcc(m, Byte, sbb_byte)
x86op_sbb_word_RM_R(m) == OpRM_R(m, Word, sbb_word)
x86op_sbb_word_R_RM(m) == OpR_RM(m, Word, sbb_word)
x86op_sbb_word_AX_IMM(m) == OpAcc(m, Word, sbb_word)
x86op_and_byte_RM_R(m) == OpRM_R(m, Byte, and_byte)
x86op_and_byte_R_RM(m) == OpR_RM(m, Byte, and_byte)
x86op_and_byte_AL_IMM(m) == OpAcc(m, Byte, and_byte)
x86op_and_word_RM_R(m) == OpRM_R(m, Word, and_word)
x86op_and_word_R_RM(m) == OpR_RM(m, Word, and_word)
x86op_and_word_AX_IMM(m) == OpAcc(m, Word, and_word)
x86op_sub_byte_RM_R(m) == OpRM_R(m, Byte, sub_byte)
x86op_sub_byte_R_RM(m) == OpR_RM(m, Byte, sub_byte)
x86op_sub_byte_AL_IMM(m) == OpAcc(m, Byte, sub_byte)
x86op_sub_word_RM_R(m) == OpRM_R(m, Word, sub_word)
x86op_sub_word_R_RM(m) == OpR_RM(m, Word, sub_word)
x86op_sub_word_AX_IMM(m) == OpAcc(m, Word, sub_word)
x86op_xor_byte_RM_R(m) == OpRM_R(m, Byte, xor_byte)
x86op_xor_byte_R_RM(m) == OpR_RM(m, Byte, xor_byte)
x86op_xor_byte_AL_IMM(m) == OpAcc(m, Byte, xor_byte)
x86op_xor_word_RM_R(m) == OpRM_R(m, Word, xor_word)
x86op_xor_word_R_RM(m) == OpR_RM(m, Word, xor_word)
x86op_xor_word_AX_IMM(m) == OpAcc(m, Word, xor_word)
x86op_cmp_byte_RM_R(m) == OnlyRM_R(m, Byte, cmp_byte)
x86op_cmp_byte_R_RM(m) == OpR_RM(m, Byte, cmp_byte)
x86op_cmp_byte_AL_IMM(m) == OpAcc(m, Byte, cmp_byte)
x86op_test_byte_RM_R(m) == OnlyRM_R(m, Byte, test_byte)
x86op_test_AL_IMM(m) == OpAcc(m, Byte, test_byte)
x86op_cmp_word_RM_R(m) == OnlyRM_R(m, Word, cmp_word)
x86op_cmp_word_R_RM(m) == OpR_RM(m, Word, cmp_word)
x86op_cmp_word_AX_IMM(m) == OpAcc(m, Word, cmp_word)
x86op_test_word_RM_R(m) == OnlyRM_R(m, Word, test_word)
x86op_test_AX_IMM(m) == OpAcc(m, Word, test_word)

(***************************************************************************)
(* One register.                                                           *)
(***************************************************************************)
OnReg(m, ref, Op(_, _)) == CLR(PutFrom(Op(m, Get(m, ref)), ref))
PushReg(m, ref) == CLR(push_word(m, Get(m, ref)))
PopReg(m, ref) == CLR(PutFrom(pop_word(m), ref))
PushSeg(m, seg) == CLR(push_word(m, m.s[seg]))
PopSeg(m, seg) == LET f == pop_word(m) IN CLR(SetSeg(f.m, seg, f.v))
Exchange(m, ref) == CLR(Put(Put(m, AX, Get(m, ref)), ref, Get(m, AX)))

x86op_inc_AX(m) == OnReg(m, AX, inc_word)
x86op_inc_CX(m) == OnReg(m, CX, inc_word)
x86op_inc_DX(m) == OnReg(m, DX, inc_word)
x86op_inc_BX(m) == OnReg(m, BX, inc_word)
x86op_inc_SP(m) == OnReg(m, SP, inc_word)
x86op_inc_BP(m) == OnReg(m, BP, inc_word)
x86op_inc_SI(m) == OnReg(m, SI, inc_word)
x86op_inc_DI(m) == OnReg(m, DI, inc_word)
x86op_dec_AX(m) == OnReg(m, AX, dec_word)
x86op_dec_CX(m) == OnReg(m, CX, dec_word)
x86op_dec_DX(m) == OnReg(m, DX, dec_word)
x86op_dec_BX(m) == OnReg(m, BX, dec_word)
x86op_dec_SP(m) == OnReg(m, SP, dec_word)
x86op_dec_BP(m) == OnReg(m, BP, dec_word)
x86op_dec_SI(m) == OnReg(m, SI, dec_word)
x86op_dec_DI(m) == OnReg(m, DI, dec_word)
x86op_push_AX(m) == PushReg(m, AX)
x86op_push_CX(m) == PushReg(m, CX)
x86op_push_DX(m) == PushReg(m, DX)
x86op_push_BX(m) == PushReg(m, BX)
x86op_push_SP(m) == CLR(push_word(m, Low(Word, Get(m, SP) - 2)))
x86op_push_BP(m) == PushReg(m, BP)
x86op_push_SI(m) == PushReg(m, SI)
x86op_push_DI(m) == PushReg(m, DI)
x86op_pop_AX(m) == PopReg(m, AX)
x86op_pop_CX(m) == PopReg(m, CX)
x86op_pop_DX(m) == PopReg(m, DX)
x86op_pop_BX(m) == PopReg(m, BX)
x86op_pop_SP(m) == PopReg(m, SP)
x86op_pop_BP(m) == PopReg(m, BP)
x86op_pop_SI(m) == PopReg(m, SI)
x86op_pop_DI(m) == PopReg(m, DI)
x86op_push_ES(m) == PushSeg(m, "ES")
x86op_push_CS(m) == PushSeg(m, "CS")
x86op_push_SS(m) == PushSeg(m, "SS")
x86op_push_DS(m) == PushSeg(m, "DS")
x86op_pop_ES(m) == PopSeg(m, "ES")
x86op_pop_SS(m) == PopSeg(m, "SS")
x86op_pop_DS(m) == PopSeg(m, "DS")
x86op_xchg_word_AX_CX(m) == Exchange(m, CX)
x86op_xchg_word_AX_DX(m) == Exchange(m, DX)
x86op_xchg_word_AX_BX(m) == Exchange(m, BX)
x86op_xchg_word_AX_SP(m) == Exchange(m, SP)
x86op_xchg_word_AX_BP(m) == Exchange(m, BP)
x86op_xchg_word_AX_SI(m) == Exchange(m, SI)
x86op_xchg_word_AX_DI(m) == Exchange(m, DI)

(***************************************************************************)
(* PUSHA and POPA.  The stack pointer is pushed as it was and dropped when *)
(* popped.                                                                 *)
(***************************************************************************)
PushAll(m, w, Push(_, _)) ==
    FoldLeft(LAMBDA x, i : Push(x, Get(IF i = 4 THEN m ELSE x, Reg(w, i))),
             m, [i \in 1..8 |-> i - 1])
PopAll(m, w, Pop(_)) ==
    FoldLeft(LAMBDA x, i : IF i = 4 THEN Add(x, Reg(w, 4), Bytes(w))
                           ELSE PutFrom(Pop(x), Reg(w, i)),
             m, [i \in 1..8 |-> 8 - i])
x86op_push_all(m) == CLR(IF HasPrefix(m, "DATA") THEN PushAll(m, Long, push_long)
                                                 ELSE PushAll(m, Word, push_word))
PopAllForgetsSP(m) ==                                            \* mutant
    CLR(FoldLeft(LAMBDA x, i : IF i = 4 THEN x
                               ELSE PutFrom(pop_word(x), Reg(Word, i)),
                 m, [i \in 1..8 |-> 8 - i]))
x86op_pop_all(m)  == CLR(IF HasPrefix(m, "DATA") THEN PopAll(m, Long, pop_long)
                                                 ELSE PopAll(m, Word, pop_word))
=============================================================================
