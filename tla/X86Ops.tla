------------------------------- MODULE X86Ops -------------------------------
(***************************************************************************)
(* The remaining instructions (video/x86/x86_ops.c and x86_fpu.c): moves,  *)
(* strings, ports, the groups whose operation is in the mode byte, decimal *)
(* arithmetic, the coprocessor; and x86_optab, the dispatch table.         *)
(***************************************************************************)
EXTENDS X86Flow

(***************************************************************************)
(* Moves.                                                                  *)
(***************************************************************************)
MovRM_R(m, w) == OpRM_R(m, w, LAMBDA x, d, s : [m |-> x, v |-> s])
MovR_RM(m, w) == OpR_RM(m, w, LAMBDA x, d, s : [m |-> x, v |-> s])
Swap(e, w) == CLR(Save(e, w, [m |-> Put(e.m, Reg(w, e.rh), e.v), v |-> Other(e, w)]))
Xchg(m, w) == Swap(Read(m, w), w)
\* A middle field other than 0 halts the machine, but the move is made.
HaltUnless0(x) == IF x.rh # 0 THEN [x EXCEPT !.m = halt_sys(@)] ELSE x
DecodeOnly0(m, w) == Operand(HaltUnless0(fetch_decode_modrm(m)), w)
SaveFrom(e, w, Source(_)) == CLR(Save(e, w, Source(e.m)))
MovRM_Imm(m, w) == SaveFrom(DecodeOnly0(m, w), w, LAMBDA x : FetchImm(x, w))
MovR_Imm(m, ref, w) == CLR(PutFrom(FetchImm(m, w), ref))
LongIfData(m) == IF HasPrefix(m, "DATA") THEN Long ELSE Word

x86op_mov_byte_RM_R(m) == MovRM_R(m, Byte)
x86op_mov_word_RM_R(m) == MovRM_R(m, Word)
x86op_mov_byte_R_RM(m) == MovR_RM(m, Byte)
x86op_mov_word_R_RM(m) == MovR_RM(m, LongIfData(m))
x86op_xchg_byte_RM_R(m) == Xchg(m, Byte)
x86op_xchg_word_RM_R(m) == Xchg(m, Word)
x86op_mov_byte_RM_IMM(m) == MovRM_Imm(m, Byte)
x86op_mov_word_RM_IMM(m) == MovRM_Imm(m, Word)
x86op_mov_byte_AL_IMM(m) == MovR_Imm(m, Reg(Byte, 0), Byte)
x86op_mov_byte_CL_IMM(m) == MovR_Imm(m, Reg(Byte, 1), Byte)
x86op_mov_byte_DL_IMM(m) == MovR_Imm(m, Reg(Byte, 2), Byte)
x86op_mov_byte_BL_IMM(m) == MovR_Imm(m, Reg(Byte, 3), Byte)
x86op_mov_byte_AH_IMM(m) == MovR_Imm(m, Reg(Byte, 4), Byte)
x86op_mov_byte_CH_IMM(m) == MovR_Imm(m, Reg(Byte, 5), Byte)
x86op_mov_byte_DH_IMM(m) == MovR_Imm(m, Reg(Byte, 6), Byte)
x86op_mov_byte_BH_IMM(m) == MovR_Imm(m, Reg(Byte, 7), Byte)
\* Without the operand size prefix the word moved to EAX clears its upper half.
x86op_mov_word_AX_IMM(m) == MovR_Imm(m, EAX, LongIfData(m))
x86op_mov_word_CX_IMM(m) == MovR_Imm(m, CX, Word)
x86op_mov_word_DX_IMM(m) == MovR_Imm(m, DX, Word)
x86op_mov_word_BX_IMM(m) == MovR_Imm(m, BX, Word)
x86op_mov_word_SP_IMM(m) == MovR_Imm(m, SP, Word)
x86op_mov_word_BP_IMM(m) == MovR_Imm(m, BP, Word)
x86op_mov_word_SI_IMM(m) == MovR_Imm(m, SI, Word)
x86op_mov_word_DI_IMM(m) == MovR_Imm(m, DI, Word)
SaveSeg(e) == CLR(Save(e, Word, [m |-> e.m, v |-> e.m.s[decode_rm_seg_register(e.rh)]]))
x86op_mov_word_RM_SR(m) == SaveSeg(Decode(m, Word))
LoadSeg(e) == CLR(SetSeg(e.m, decode_rm_seg_register(e.rh), e.v))
x86op_mov_word_SR_RM(m) == LoadSeg(Read(m, Word))
\* A mode 3 operand makes lea, les and lds do nothing.
PutOffset(e) == CLR(IF e.inReg THEN e.m ELSE Put(e.m, Reg(Word, e.rh), e.off))
x86op_lea_word_R_M(m) == PutOffset(Decode(m, Word))
SetSegFrom(f, seg) == SetSeg(f.m, seg, f.v)
PutPointer(e, seg) ==
    CLR(IF e.inReg THEN e.m
        ELSE SetSegFrom(fetch_data_word(PutFrom(fetch_data_word(e.m, e.off), Reg(Word, e.rh)),
                                        Low(Word, e.off + 2)), seg))
LoadFar(m, seg) == PutPointer(Decode(m, Word), seg)
x86op_les_R_IMM(m) == LoadFar(m, "ES")
x86op_lds_R_IMM(m) == LoadFar(m, "DS")
x86op_pop_RM(m) == SaveFrom(DecodeOnly0(m, Word), Word, pop_word)
FromOffset(o, w) == CLR(PutFrom(Fetch(o.m, w, o.v), Reg(w, 0)))
ToOffset(o, w) == CLR(Store(o.m, w, o.v, Get(o.m, Reg(w, 0))))
x86op_mov_AL_M_IMM(m) == FromOffset(fetch_word_imm(m), Byte)
x86op_mov_AX_M_IMM(m) == FromOffset(fetch_word_imm(m), Word)
x86op_mov_M_AL_IMM(m) == ToOffset(fetch_word_imm(m), Byte)
x86op_mov_M_AX_IMM(m) == ToOffset(fetch_word_imm(m), Word)
x86op_xlat(m) == CLR(PutFrom(fetch_data_byte(m, Low(Word, Get(m, BX) + Get(m, AL))), AL))
x86op_cbw(m) == CLR(Put(m, AH, IF Top(Byte, Get(m, AL)) THEN 255 ELSE 0))
x86op_cwd(m) == CLR(Put(m, DX, IF Top(Word, Get(m, AX)) THEN 65535 ELSE 0))

(***************************************************************************)
(* Strings.  The source is in the data segment, which a prefix may         *)
(* override; the destination is always in ES.                              *)
(***************************************************************************)
RepString(m, Step(_)) ==
    CLR(IF m.mode \cap REP = {} THEN Step(m)
        ELSE EndRep(Iterate(LAMBDA x : Add(Step(x), CX, -1), m, Get(m, CX))))
\* A repeated compare goes on while ZF is set for REPE, clear for REPNE.
RepCompare(m, Step(_)) ==
    LET While(zf) == FoldLeft(LAMBDA x, i : IF i = 1 \/ ACCESS_FLAG(x, F_ZF) = zf
                                            THEN Add(Step(x), CX, -1) ELSE x,
                              m, [i \in 1..Get(m, CX) |-> i])
    IN  CLR(CASE HasPrefix(m, "REPE") -> [While(TRUE) EXCEPT !.mode = @ \ {"REPE"}]
              [] ~HasPrefix(m, "REPE") /\ HasPrefix(m, "REPNE") ->
                     [While(FALSE) EXCEPT !.mode = @ \ {"REPNE"}]
              [] OTHER -> Step(m))

Movs(m, w) == RepString(m, LAMBDA x :
    LET f == Fetch(x, w, Get(x, SI))
        y == StoreAbs(f.m, w, "ES", Get(x, DI), f.v)
    IN  Add(Add(y, SI, Stride(x, w)), DI, Stride(x, w)))
Cmps(m, w, Cmp(_, _, _)) == RepCompare(m, LAMBDA x :
    LET f == Fetch(x, w, Get(x, SI))
        g == FetchAbs(f.m, w, "ES", Get(x, DI))
        y == Cmp(g.m, f.v, g.v).m
    IN  Add(Add(y, SI, Stride(x, w)), DI, Stride(x, w)))
Stos(m, w) == RepString(m, LAMBDA x :
    Add(StoreAbs(x, w, "ES", Get(x, DI), Get(x, Reg(w, 0))), DI, Stride(x, w)))
Lods(m, w) == RepString(m, LAMBDA x :
    LET f == Fetch(x, w, Get(x, SI))
    IN  Add(Put(f.m, Reg(w, 0), f.v), SI, Stride(x, w)))
Scas(m, w, Cmp(_, _, _)) == RepCompare(m, LAMBDA x :
    LET g == FetchAbs(x, w, "ES", Get(x, DI))
    IN  Add(Cmp(g.m, Get(x, Reg(w, 0)), g.v).m, DI, Stride(x, w)))

StosRunsOn(m) ==                                                 \* mutant
    CLR(EndRep(Iterate(LAMBDA x : Add(Add(StoreAbs(x, Byte, "ES", Get(x, DI), Get(x, AL)),
                                          DI, 1), CX, -1), m, Get(m, CX))))
x86op_movs_byte(m) == Movs(m, Byte)
x86op_movs_word(m) == Movs(m, Word)
x86op_cmps_byte(m) == Cmps(m, Byte, cmp_byte)
x86op_cmps_word(m) == Cmps(m, Word, cmp_word)
x86op_stos_byte(m) == Stos(m, Byte)
x86op_stos_word(m) == Stos(m, LongIfData(m))
x86op_lods_byte(m) == Lods(m, Byte)
x86op_lods_word(m) == Lods(m, Word)
x86op_scas_byte(m) == Scas(m, Byte, cmp_byte)
x86op_scas_word(m) == IF HasPrefix(m, "DATA") THEN Scas(m, Long, cmp_long)
                                              ELSE Scas(m, Word, cmp_word)
x86op_ins_byte(m) == CLR(ins(m, Byte))
x86op_ins_word(m) == CLR(ins(m, LongIfData(m)))
x86op_outs_byte(m) == CLR(outs(m, Byte))
x86op_outs_word(m) == CLR(outs(m, LongIfData(m)))

(***************************************************************************)
(* Input and output.                                                       *)
(***************************************************************************)
InImm(m, w) == LET f == fetch_byte_imm(m)
               IN  CLR(Put(f.m, Reg(w, 0), sys_in(f.m, w, f.v)))
OutImm(m, w) == LET f == fetch_byte_imm(m)
                IN  CLR(sys_out(f.m, w, f.v, Get(f.m, Reg(w, 0))))
x86op_in_byte_AL_IMM(m) == InImm(m, Byte)
x86op_in_word_AX_IMM(m) == InImm(m, Word)
x86op_out_byte_IMM_AL(m) == OutImm(m, Byte)
x86op_out_word_IMM_AX(m) == OutImm(m, Word)
x86op_in_byte_AL_DX(m) == CLR(Put(m, AL, sys_in(m, Byte, Get(m, DX))))
x86op_in_word_AX_DX(m) == CLR(Put(m, AX, sys_in(m, Word, Get(m, DX))))
x86op_out_byte_DX_AL(m) == CLR(sys_out(m, Byte, Get(m, DX), Get(m, AL)))
x86op_out_word_DX_AX(m) == CLR(sys_out(m, Word, Get(m, DX), Get(m, AX)))

(***************************************************************************)
(* Groups: the operation is chosen by the middle field of the mode byte.   *)
(***************************************************************************)
opc80_byte_operation(rh, m, d, s) ==
    CASE rh = 0 -> add_byte(m, d, s)  [] rh = 1 -> or_byte(m, d, s)
      [] rh = 2 -> adc_byte(m, d, s)  [] rh = 3 -> sbb_byte(m, d, s)
      [] rh = 4 -> and_byte(m, d, s)  [] rh = 5 -> sub_byte(m, d, s)
      [] rh = 6 -> xor_byte(m, d, s)  [] rh = 7 -> cmp_byte(m, d, s)
opc81_word_operation(rh, m, d, s) ==
    CASE rh = 0 -> add_word(m, d, s)  [] rh = 1 -> or_word(m, d, s)
      [] rh = 2 -> adc_word(m, d, s)  [] rh = 3 -> sbb_word(m, d, s)
      [] rh = 4 -> and_word(m, d, s)  [] rh = 5 -> sub_word(m, d, s)
      [] rh = 6 -> xor_word(m, d, s)  [] rh = 7 -> cmp_word(m, d, s)
SaveBut7(e, w, r) == CLR(IF e.rh # 7 THEN Save(e, w, r) ELSE r.m)
WithImm(e, f, w, immw, Op(_, _, _, _)) ==
    SaveBut7(e, w, Op(e.rh, f.m, e.v, Low(w, Signed(immw, f.v))))
OpImm(e, w, immw, Op(_, _, _, _)) == WithImm(e, FetchImm(e.m, immw), w, immw, Op)
GroupImm(m, w, immw, Op(_, _, _, _)) == OpImm(Read(m, w), w, immw, Op)
x86op_opc80_byte_RM_IMM(m) == GroupImm(m, Byte, Byte, opc80_byte_operation)
x86op_opc81_word_RM_IMM(m) == GroupImm(m, Word, Word, opc81_word_operation)
x86op_opc82_byte_RM_IMM(m) == GroupImm(m, Byte, Byte, opc80_byte_operation)
x86op_opc83_word_RM_IMM(m) == GroupImm(m, Word, Byte, opc81_word_operation)

opcD0_byte_operation(rh, m, d, s) ==
    CASE rh = 0 -> rol_byte(m, d, s)  [] rh = 1 -> ror_byte(m, d, s)
      [] rh = 2 -> rcl_byte(m, d, s)  [] rh = 3 -> rcr_byte(m, d, s)
      [] rh = 4 -> shl_byte(m, d, s)  [] rh = 5 -> shr_byte(m, d, s)
      [] rh = 6 -> shl_byte(m, d, s)  [] rh = 7 -> sar_byte(m, d, s)
opcD1_word_operation(rh, m, d, s) ==
    CASE rh = 0 -> rol_word(m, d, s)  [] rh = 1 -> ror_word(m, d, s)
      [] rh = 2 -> rcl_word(m, d, s)  [] rh = 3 -> rcr_word(m, d, s)
      [] rh = 4 -> shl_word(m, d, s)  [] rh = 5 -> shr_word(m, d, s)
      [] rh = 6 -> shl_word(m, d, s)  [] rh = 7 -> sar_word(m, d, s)
opcD1_long_operation(rh, m, d, s) ==
    CASE rh = 0 -> rol_long(m, d, s)  [] rh = 1 -> ror_long(m, d, s)
      [] rh = 2 -> rcl_long(m, d, s)  [] rh = 3 -> rcr_long(m, d, s)
      [] rh = 4 -> shl_long(m, d, s)  [] rh = 5 -> shr_long(m, d, s)
      [] rh = 6 -> shl_long(m, d, s)  [] rh = 7 -> sar_long(m, d, s)
\* The count is fetched before the operand.
ShiftRead(e, n, w, Op(_, _, _, _)) == CLR(Save(e, w, Op(e.rh, e.m, e.v, n)))
Counted(e, n, w, Op(_, _, _, _)) == ShiftRead(Load([e EXCEPT !.m = n.m], w), n.v, w, Op)
ShiftDecoded(e, w, Count(_), Op(_, _, _, _)) == Counted(e, Count(e.m), w, Op)
ShiftBy(m, w, Count(_), Op(_, _, _, _)) == ShiftDecoded(Decode(m, w), w, Count, Op)
ByOne(m) == [m |-> m, v |-> 1]
ByCL(m)  == [m |-> m, v |-> Get(m, CL)]
x86op_opcC0_byte_RM_MEM(m) == ShiftBy(m, Byte, fetch_byte_imm, opcD0_byte_operation)
x86op_opcC1_word_RM_MEM(m) == ShiftBy(m, Word, fetch_byte_imm, opcD1_word_operation)
x86op_opcD0_byte_RM_1(m) == ShiftBy(m, Byte, ByOne, opcD0_byte_operation)
x86op_opcD1_word_RM_1(m) ==
    IF HasPrefix(m, "DATA") THEN ShiftBy(m, Long, ByOne, opcD1_long_operation)
                            ELSE ShiftBy(m, Word, ByOne, opcD1_word_operation)
x86op_opcD2_byte_RM_CL(m) == ShiftBy(m, Byte, ByCL, opcD0_byte_operation)
x86op_opcD3_word_RM_CL(m) == ShiftBy(m, Word, ByCL, opcD1_word_operation)

\* TEST, NOT, NEG, MUL, IMUL, DIV and IDIV of the operand e.  Number 1 halts
\* the machine before the operand's address is decoded.
ImmTest(e, i, w, Test(_, _, _)) == Test(e.m, e.v, i).m
TestImm(e, i, w, Test(_, _, _)) == ImmTest(Load([e EXCEPT !.m = i.m], w), i.v, w, Test)
opcF6_byte_operation(e, d) ==
    CASE e.rh = 0 -> TestImm(e, fetch_byte_imm(e.m), Byte, test_byte)
      [] e.rh = 2 -> Save(d, Byte, not_byte(d.m, d.v))
      [] e.rh = 3 -> Save(d, Byte, neg_byte(d.m, d.v))
      [] e.rh = 4 -> mul_byte(d.m, d.v)   [] e.rh = 5 -> imul_byte(d.m, d.v)
      [] e.rh = 6 -> div_byte(d.m, d.v)   [] e.rh = 7 -> idiv_byte(d.m, d.v)
opcF7_word_operation(e, d) ==
    CASE e.rh = 0 -> TestImm(e, fetch_word_imm(e.m), Word, test_word)
      [] e.rh = 2 -> Save(d, Word, not_word(d.m, d.v))
      [] e.rh = 3 -> Save(d, Word, neg_word(d.m, d.v))
      [] e.rh = 4 -> mul_word(d.m, d.v)   [] e.rh = 5 -> imul_word(d.m, d.v)
      [] e.rh = 6 -> div_word(d.m, d.v)   [] e.rh = 7 -> idiv_word(d.m, d.v)
OnOperand(e, w, Op(_, _)) == Op(e, Load(e, w))
GroupF(x, w, Op(_, _)) ==
    CLR(IF x.rh = 1 THEN halt_sys(x.m) ELSE OnOperand(Operand(x, w), w, Op))
x86op_opcF6_byte_RM(m) == GroupF(fetch_decode_modrm(m), Byte, opcF6_byte_operation)
x86op_opcF7_word_RM(m) == GroupF(fetch_decode_modrm(m), Word, opcF7_word_operation)

opcFE_byte_operation(e, d) == CASE e.rh = 0 -> Save(d, Byte, inc_byte(d.m, d.v))
                                [] e.rh = 1 -> Save(d, Byte, dec_byte(d.m, d.v))
                                [] OTHER    -> e.m
x86op_opcFE_byte_RM(m) == CLR(OnOperand(Decode(m, Byte), Byte, opcFE_byte_operation))
\* INC, DEC, near and far CALL and JMP, PUSH.  Far calls and jumps through a
\* register halt the machine; s is the segment of a far pointer.
FarThrough(rh, d, s) == IF rh = 3 THEN FarCall(s.m, s.v, d.v) ELSE FarJump(s.m, s.v, d.v)
opcFF_word_operation(e, d) ==
    CASE e.rh = 0 -> Save(d, Word, inc_word(d.m, d.v))
      [] e.rh = 1 -> Save(d, Word, dec_word(d.m, d.v))
      [] e.rh = 2 -> NearCall(d.m, d.v)
      [] e.rh \in {3, 5} /\ e.inReg -> halt_sys(e.m)
      [] e.rh \in {3, 5} /\ ~e.inReg ->
             FarThrough(e.rh, d, fetch_data_word(d.m, Low(Word, e.off + 2)))
      [] e.rh = 4 -> JumpTo(d.m, d.v)
      [] e.rh = 6 -> push_word(d.m, d.v)
      [] e.rh = 7 -> e.m
x86op_opcFF_word_RM(m) == CLR(OnOperand(Decode(m, Word), Word, opcFF_word_operation))

(***************************************************************************)
(* Decimal arithmetic and flag instructions.                               *)
(***************************************************************************)
\* Both adjustments compare with the flags the first half leaves.
Adjust(m, sign) ==
    LET al  == Get(m, AL)
        lo  == ACCESS_FLAG(m, F_AF) \/ al % 16 > 9
        b   == Low(Word, IF lo THEN al + sign * 6 ELSE al)
        cf  == ACCESS_FLAG(m, F_CF) \/ (lo /\ Bit(b, 8))
        hi  == cf \/ (b \div 16) % 16 > 9
        res == Low(Byte, IF hi THEN b + sign * 96 ELSE b)
    IN  CLR(SetFlags(Put(m, AL, res), {F_AF, F_CF} \cup ZSP,
                     When(lo, F_AF) \cup When(hi, F_CF) \cup FlagsOf(Byte, res)))
x86op_daa(m) == Adjust(m, 1)
x86op_das(m) == Adjust(m, -1)
AsciiAdjust(m, sign) ==
    LET adj == Get(m, AL) % 16 > 9 \/ ACCESS_FLAG(m, F_AF)
        x   == IF adj THEN Add(Add(m, AL, sign * 6), AH, sign) ELSE m
    IN  CLR(SetFlags(Put(x, AL, Get(x, AL) % 16), {F_AF, F_CF},
                     IF adj THEN {F_AF, F_CF} ELSE {}))
x86op_aaa(m) == AsciiAdjust(m, 1)
x86op_aas(m) == AsciiAdjust(m, -1)
x86op_aam(m) == LET f == fetch_byte_imm(m)
                    r == aam_word(IF f.v # 10 THEN halt_sys(f.m) ELSE f.m, Get(f.m, AL))
                IN  CLR(Put(r.m, AX, r.v))
x86op_aad(m) == LET f == fetch_byte_imm(m)
                    r == aad_word(f.m, Get(f.m, AX))
                IN  CLR(Put(r.m, AX, r.v))
x86op_cmc(m) == CLR(SetFlags(m, {F_CF}, When(~B(m), F_CF)))
x86op_clc(m) == CLR(SetFlags(m, {F_CF}, {}))
x86op_stc(m) == CLR(SetFlags(m, {F_CF}, {F_CF}))
x86op_cli(m) == CLR(SetFlags(m, {F_IF}, {}))
x86op_sti(m) == CLR(SetFlags(m, {F_IF}, {F_IF}))
x86op_cld(m) == CLR(SetFlags(m, {F_DF}, {}))
x86op_std(m) == CLR(SetFlags(m, {F_DF}, {F_DF}))

(***************************************************************************)
(* The coprocessor is not emulated: its instructions are decoded and       *)
(* skipped.  0xd8 does not even decode its mode byte.                      *)
(***************************************************************************)
Escape(m) == CLR(Decode(m, Word).m)
x86op_esc_coprocess_d8(m) == CLR(m)
x86op_esc_coprocess_d9(m) == Escape(m)
x86op_esc_coprocess_da(m) == Escape(m)
x86op_esc_coprocess_db(m) == Escape(m)
x86op_esc_coprocess_dc(m) == Escape(m)
x86op_esc_coprocess_dd(m) == Escape(m)
x86op_esc_coprocess_de(m) == Escape(m)
x86op_esc_coprocess_df(m) == Escape(m)

(***************************************************************************)
(* The dispatch table.                                                     *)
(***************************************************************************)
x86_optab(op, m) ==
    CASE op = 0 -> x86op_add_byte_RM_R(m)
      [] op = 1 -> x86op_add_word_RM_R(m)
      [] op = 2 -> x86op_add_byte_R_RM(m)
      [] op = 3 -> x86op_add_word_R_RM(m)
      [] op = 4 -> x86op_add_byte_AL_IMM(m)
      [] op = 5 -> x86op_add_word_AX_IMM(m)
      [] op = 6 -> x86op_push_ES(m)
      [] op = 7 -> x86op_pop_ES(m)
      [] op = 8 -> x86op_or_byte_RM_R(m)
      [] op = 9 -> x86op_or_word_RM_R(m)
      [] op = 10 -> x86op_or_byte_R_RM(m)
      [] op = 11 -> x86op_or_word_R_RM(m)
      [] op = 12 -> x86op_or_byte_AL_IMM(m)
      [] op = 13 -> x86op_or_word_AX_IMM(m)
      [] op = 14 -> x86op_push_CS(m)
      [] op = 15 -> x86op_two_byte(m)
      [] op = 16 -> x86op_adc_byte_RM_R(m)
      [] op = 17 -> x86op_adc_word_RM_R(m)
      [] op = 18 -> x86op_adc_byte_R_RM(m)
      [] op = 19 -> x86op_adc_word_R_RM(m)
      [] op = 20 -> x86op_adc_byte_AL_IMM(m)
      [] op = 21 -> x86op_adc_word_AX_IMM(m)
      [] op = 22 -> x86op_push_SS(m)
      [] op = 23 -> x86op_pop_SS(m)
      [] op = 24 -> x86op_sbb_byte_RM_R(m)
      [] op = 25 -> x86op_sbb_word_RM_R(m)
      [] op = 26 -> x86op_sbb_byte_R_RM(m)
      [] op = 27 -> x86op_sbb_word_R_RM(m)
      [] op = 28 -> x86op_sbb_byte_AL_IMM(m)
      [] op = 29 -> x86op_sbb_word_AX_IMM(m)
      [] op = 30 -> x86op_push_DS(m)
      [] op = 31 -> x86op_pop_DS(m)
      [] op = 32 -> x86op_and_byte_RM_R(m)
      [] op = 33 -> x86op_and_word_RM_R(m)
      [] op = 34 -> x86op_and_byte_R_RM(m)
      [] op = 35 -> x86op_and_word_R_RM(m)
      [] op = 36 -> x86op_and_byte_AL_IMM(m)
      [] op = 37 -> x86op_and_word_AX_IMM(m)
      [] op = 38 -> x86op_segovr_ES(m)
      [] op = 39 -> x86op_daa(m)
      [] op = 40 -> x86op_sub_byte_RM_R(m)
      [] op = 41 -> x86op_sub_word_RM_R(m)
      [] op = 42 -> x86op_sub_byte_R_RM(m)
      [] op = 43 -> x86op_sub_word_R_RM(m)
      [] op = 44 -> x86op_sub_byte_AL_IMM(m)
      [] op = 45 -> x86op_sub_word_AX_IMM(m)
      [] op = 46 -> x86op_segovr_CS(m)
      [] op = 47 -> x86op_das(m)
      [] op = 48 -> x86op_xor_byte_RM_R(m)
      [] op = 49 -> x86op_xor_word_RM_R(m)
      [] op = 50 -> x86op_xor_byte_R_RM(m)
      [] op = 51 -> x86op_xor_word_R_RM(m)
      [] op = 52 -> x86op_xor_byte_AL_IMM(m)
      [] op = 53 -> x86op_xor_word_AX_IMM(m)
      [] op = 54 -> x86op_segovr_SS(m)
      [] op = 55 -> x86op_aaa(m)
      [] op = 56 -> x86op_cmp_byte_RM_R(m)
      [] op = 57 -> x86op_cmp_word_RM_R(m)
      [] op = 58 -> x86op_cmp_byte_R_RM(m)
      [] op = 59 -> x86op_cmp_word_R_RM(m)
      [] op = 60 -> x86op_cmp_byte_AL_IMM(m)
      [] op = 61 -> x86op_cmp_word_AX_IMM(m)
      [] op = 62 -> x86op_segovr_DS(m)
      [] op = 63 -> x86op_aas(m)
      [] op = 64 -> x86op_inc_AX(m)
      [] op = 65 -> x86op_inc_CX(m)
      [] op = 66 -> x86op_inc_DX(m)
      [] op = 67 -> x86op_inc_BX(m)
      [] op = 68 -> x86op_inc_SP(m)
      [] op = 69 -> x86op_inc_BP(m)
      [] op = 70 -> x86op_inc_SI(m)
      [] op = 71 -> x86op_inc_DI(m)
      [] op = 72 -> x86op_dec_AX(m)
      [] op = 73 -> x86op_dec_CX(m)
      [] op = 74 -> x86op_dec_DX(m)
      [] op = 75 -> x86op_dec_BX(m)
      [] op = 76 -> x86op_dec_SP(m)
      [] op = 77 -> x86op_dec_BP(m)
      [] op = 78 -> x86op_dec_SI(m)
      [] op = 79 -> x86op_dec_DI(m)
      [] op = 80 -> x86op_push_AX(m)
      [] op = 81 -> x86op_push_CX(m)
      [] op = 82 -> x86op_push_DX(m)
      [] op = 83 -> x86op_push_BX(m)
      [] op = 84 -> x86op_push_SP(m)
      [] op = 85 -> x86op_push_BP(m)
      [] op = 86 -> x86op_push_SI(m)
      [] op = 87 -> x86op_push_DI(m)
      [] op = 88 -> x86op_pop_AX(m)
      [] op = 89 -> x86op_pop_CX(m)
      [] op = 90 -> x86op_pop_DX(m)
      [] op = 91 -> x86op_pop_BX(m)
      [] op = 92 -> x86op_pop_SP(m)
      [] op = 93 -> x86op_pop_BP(m)
      [] op = 94 -> x86op_pop_SI(m)
      [] op = 95 -> x86op_pop_DI(m)
      [] op = 96 -> x86op_push_all(m)
      [] op = 97 -> x86op_pop_all(m)
      [] op = 102 -> x86op_prefix_data(m)
      [] op = 108 -> x86op_ins_byte(m)
      [] op = 109 -> x86op_ins_word(m)
      [] op = 110 -> x86op_outs_byte(m)
      [] op = 111 -> x86op_outs_word(m)
      [] op = 112 -> x86op_jump_near_O(m)
      [] op = 113 -> x86op_jump_near_NO(m)
      [] op = 114 -> x86op_jump_near_B(m)
      [] op = 115 -> x86op_jump_near_NB(m)
      [] op = 116 -> x86op_jump_near_Z(m)
      [] op = 117 -> x86op_jump_near_NZ(m)
      [] op = 118 -> x86op_jump_near_BE(m)
      [] op = 119 -> x86op_jump_near_NBE(m)
      [] op = 120 -> x86op_jump_near_S(m)
      [] op = 121 -> x86op_jump_near_NS(m)
      [] op = 122 -> x86op_jump_near_P(m)
      [] op = 123 -> x86op_jump_near_NP(m)
      [] op = 124 -> x86op_jump_near_L(m)
      [] op = 125 -> x86op_jump_near_NL(m)
      [] op = 126 -> x86op_jump_near_LE(m)
      [] op = 127 -> x86op_jump_near_NLE(m)
      [] op = 128 -> x86op_opc80_byte_RM_IMM(m)
      [] op = 129 -> x86op_opc81_word_RM_IMM(m)
      [] op = 130 -> x86op_opc82_byte_RM_IMM(m)
      [] op = 131 -> x86op_opc83_word_RM_IMM(m)
      [] op = 132 -> x86op_test_byte_RM_R(m)
      [] op = 133 -> x86op_test_word_RM_R(m)
      [] op = 134 -> x86op_xchg_byte_RM_R(m)
      [] op = 135 -> x86op_xchg_word_RM_R(m)
      [] op = 136 -> x86op_mov_byte_RM_R(m)
      [] op = 137 -> x86op_mov_word_RM_R(m)
      [] op = 138 -> x86op_mov_byte_R_RM(m)
      [] op = 139 -> x86op_mov_word_R_RM(m)
      [] op = 140 -> x86op_mov_word_RM_SR(m)
      [] op = 141 -> x86op_lea_word_R_M(m)
      [] op = 142 -> x86op_mov_word_SR_RM(m)
      [] op = 143 -> x86op_pop_RM(m)
      [] op = 144 -> x86op_nop(m)
      [] op = 145 -> x86op_xchg_word_AX_CX(m)
      [] op = 146 -> x86op_xchg_word_AX_DX(m)
      [] op = 147 -> x86op_xchg_word_AX_BX(m)
      [] op = 148 -> x86op_xchg_word_AX_SP(m)
      [] op = 149 -> x86op_xchg_word_AX_BP(m)
      [] op = 150 -> x86op_xchg_word_AX_SI(m)
      [] op = 151 -> x86op_xchg_word_AX_DI(m)
      [] op = 152 -> x86op_cbw(m)
      [] op = 153 -> x86op_cwd(m)
      [] op = 154 -> x86op_call_far_IMM(m)
      [] op = 155 -> x86op_wait(m)
      [] op = 156 -> x86op_pushf_word(m)
      [] op = 157 -> x86op_popf_word(m)
      [] op = 158 -> x86op_sahf(m)
      [] op = 159 -> x86op_lahf(m)
      [] op = 160 -> x86op_mov_AL_M_IMM(m)
      [] op = 161 -> x86op_mov_AX_M_IMM(m)
      [] op = 162 -> x86op_mov_M_AL_IMM(m)
      [] op = 163 -> x86op_mov_M_AX_IMM(m)
      [] op = 164 -> x86op_movs_byte(m)
      [] op = 165 -> x86op_movs_word(m)
      [] op = 166 -> x86op_cmps_byte(m)
      [] op = 167 -> x86op_cmps_word(m)
      [] op = 168 -> x86op_test_AL_IMM(m)
      [] op = 169 -> x86op_test_AX_IMM(m)
      [] op = 170 -> x86op_stos_byte(m)
      [] op = 171 -> x86op_stos_word(m)
      [] op = 172 -> x86op_lods_byte(m)
      [] op = 173 -> x86op_lods_word(m)
      [] op = 174 -> x86op_scas_byte(m)
      [] op = 175 -> x86op_scas_word(m)
      [] op = 176 -> x86op_mov_byte_AL_IMM(m)
      [] op = 177 -> x86op_mov_byte_CL_IMM(m)
      [] op = 178 -> x86op_mov_byte_DL_IMM(m)
      [] op = 179 -> x86op_mov_byte_BL_IMM(m)
      [] op = 180 -> x86op_mov_byte_AH_IMM(m)
      [] op = 181 -> x86op_mov_byte_CH_IMM(m)
      [] op = 182 -> x86op_mov_byte_DH_IMM(m)
      [] op = 183 -> x86op_mov_byte_BH_IMM(m)
      [] op = 184 -> x86op_mov_word_AX_IMM(m)
      [] op = 185 -> x86op_mov_word_CX_IMM(m)
      [] op = 186 -> x86op_mov_word_DX_IMM(m)
      [] op = 187 -> x86op_mov_word_BX_IMM(m)
      [] op = 188 -> x86op_mov_word_SP_IMM(m)
      [] op = 189 -> x86op_mov_word_BP_IMM(m)
      [] op = 190 -> x86op_mov_word_SI_IMM(m)
      [] op = 191 -> x86op_mov_word_DI_IMM(m)
      [] op = 192 -> x86op_opcC0_byte_RM_MEM(m)
      [] op = 193 -> x86op_opcC1_word_RM_MEM(m)
      [] op = 194 -> x86op_ret_near_IMM(m)
      [] op = 195 -> x86op_ret_near(m)
      [] op = 196 -> x86op_les_R_IMM(m)
      [] op = 197 -> x86op_lds_R_IMM(m)
      [] op = 198 -> x86op_mov_byte_RM_IMM(m)
      [] op = 199 -> x86op_mov_word_RM_IMM(m)
      [] op = 202 -> x86op_ret_far_IMM(m)
      [] op = 203 -> x86op_ret_far(m)
      [] op = 204 -> x86op_int3(m)
      [] op = 205 -> x86op_int_IMM(m)
      [] op = 206 -> x86op_into(m)
      [] op = 207 -> x86op_iret(m)
      [] op = 208 -> x86op_opcD0_byte_RM_1(m)
      [] op = 209 -> x86op_opcD1_word_RM_1(m)
      [] op = 210 -> x86op_opcD2_byte_RM_CL(m)
      [] op = 211 -> x86op_opcD3_word_RM_CL(m)
      [] op = 212 -> x86op_aam(m)
      [] op = 213 -> x86op_aad(m)
      [] op = 215 -> x86op_xlat(m)
      [] op = 216 -> x86op_esc_coprocess_d8(m)
      [] op = 217 -> x86op_esc_coprocess_d9(m)
      [] op = 218 -> x86op_esc_coprocess_da(m)
      [] op = 219 -> x86op_esc_coprocess_db(m)
      [] op = 220 -> x86op_esc_coprocess_dc(m)
      [] op = 221 -> x86op_esc_coprocess_dd(m)
      [] op = 222 -> x86op_esc_coprocess_de(m)
      [] op = 223 -> x86op_esc_coprocess_df(m)
      [] op = 224 -> x86op_loopne(m)
      [] op = 225 -> x86op_loope(m)
      [] op = 226 -> x86op_loop(m)
      [] op = 227 -> x86op_jcxz(m)
      [] op = 228 -> x86op_in_byte_AL_IMM(m)
      [] op = 229 -> x86op_in_word_AX_IMM(m)
      [] op = 230 -> x86op_out_byte_IMM_AL(m)
      [] op = 231 -> x86op_out_word_IMM_AX(m)
      [] op = 232 -> x86op_call_near_IMM(m)
      [] op = 233 -> x86op_jump_near_IMM(m)
      [] op = 234 -> x86op_jump_far_IMM(m)
      [] op = 235 -> x86op_jump_byte_IMM(m)
      [] op = 236 -> x86op_in_byte_AL_DX(m)
      [] op = 237 -> x86op_in_word_AX_DX(m)
      [] op = 238 -> x86op_out_byte_DX_AL(m)
      [] op = 239 -> x86op_out_word_DX_AX(m)
      [] op = 240 -> x86op_lock(m)
      [] op = 242 -> x86op_repne(m)
      [] op = 243 -> x86op_repe(m)
      [] op = 244 -> x86op_halt(m)
      [] op = 245 -> x86op_cmc(m)
      [] op = 246 -> x86op_opcF6_byte_RM(m)
      [] op = 247 -> x86op_opcF7_word_RM(m)
      [] op = 248 -> x86op_clc(m)
      [] op = 249 -> x86op_stc(m)
      [] op = 250 -> x86op_cli(m)
      [] op = 251 -> x86op_sti(m)
      [] op = 252 -> x86op_cld(m)
      [] op = 253 -> x86op_std(m)
      [] op = 254 -> x86op_opcFE_byte_RM(m)
      [] op = 255 -> x86op_opcFF_word_RM(m)
      [] OTHER -> x86op_illegal_op(m)
=============================================================================
