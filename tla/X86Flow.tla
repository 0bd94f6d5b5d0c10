------------------------------ MODULE X86Flow -------------------------------
(***************************************************************************)
(* The instructions that change the flow of control or the mode: prefixes, *)
(* jumps, calls and returns, interrupts (video/x86/x86_ops.c).             *)
(***************************************************************************)
EXTENDS X86Alu

(***************************************************************************)
(* Prefixes.  A repeat prefix ends like an instruction, so it drops the    *)
(* overrides and the operand size prefix seen before it.                   *)
(***************************************************************************)
x86op_segovr_ES(m) == SetMode(m, "ES")
x86op_segovr_CS(m) == SetMode(m, "CS")
x86op_segovr_SS(m) == SetMode(m, "SS")
x86op_segovr_DS(m) == SetMode(m, "DS")
x86op_prefix_data(m) == SetMode(m, "DATA")
x86op_repne(m) == CLR(SetMode(m, "REPNE"))
x86op_repe(m) == CLR(SetMode(m, "REPE"))
x86op_nop(m) == CLR(m)
x86op_wait(m) == CLR(m)
x86op_lock(m) == CLR(m)
x86op_halt(m) == CLR(halt_sys(m))
x86op_illegal_op(m) == halt_sys(m)

(***************************************************************************)
(* Jumps.  Displacements count from the end of the instruction.            *)
(***************************************************************************)
JumpTo(m, target) == [m EXCEPT !.ip = Low(Word, target)]
Jump(f, w, taken) == CLR(IF taken THEN JumpTo(f.m, f.m.ip + Signed(w, f.v)) ELSE f.m)
Relative(m, w, taken) == Jump(FetchImm(m, w), w, taken)

O(m)  == ACCESS_FLAG(m, F_OF)
B(m)  == ACCESS_FLAG(m, F_CF)
Z(m)  == ACCESS_FLAG(m, F_ZF)
S(m)  == ACCESS_FLAG(m, F_SF)
P(m)  == ACCESS_FLAG(m, F_PF)
BE(m) == B(m) \/ Z(m)
SignOnly(m) == S(m)                                              \* mutant
L(m)  == S(m) # O(m)
LE(m) == L(m) \/ Z(m)

x86op_jump_near_O(m) == Relative(m, Byte, O(m))
x86op_jump_near_NO(m) == Relative(m, Byte, ~O(m))
x86op_jump_near_B(m) == Relative(m, Byte, B(m))
x86op_jump_near_NB(m) == Relative(m, Byte, ~B(m))
x86op_jump_near_Z(m) == Relative(m, Byte, Z(m))
x86op_jump_near_NZ(m) == Relative(m, Byte, ~Z(m))
x86op_jump_near_S(m) == Relative(m, Byte, S(m))
x86op_jump_near_NS(m) == Relative(m, Byte, ~S(m))
x86op_jump_near_P(m) == Relative(m, Byte, P(m))
x86op_jump_near_NP(m) == Relative(m, Byte, ~P(m))
x86op_jump_near_BE(m) == Relative(m, Byte, BE(m))
x86op_jump_near_NBE(m) == Relative(m, Byte, ~BE(m))
x86op_jump_near_L(m) == Relative(m, Byte, L(m))
x86op_jump_near_NL(m) == Relative(m, Byte, ~L(m))
x86op_jump_near_LE(m) == Relative(m, Byte, LE(m))
x86op_jump_near_NLE(m) == Relative(m, Byte, ~LE(m))

\* The two-byte forms.  0x8d, JNL, tests the same condition as 0x8c, JL; any
\* other second byte halts the machine.
x86op_long_jump(m, op2) ==
    Relative(m, Word, CASE op2 = 128 -> O(m)  [] op2 = 129 -> ~O(m)
                        [] op2 = 130 -> B(m)  [] op2 = 131 -> ~B(m)
                        [] op2 = 132 -> Z(m)  [] op2 = 133 -> ~Z(m)
                        [] op2 = 134 -> BE(m) [] op2 = 135 -> ~BE(m)
                        [] op2 = 136 -> S(m)  [] op2 = 137 -> ~S(m)
                        [] op2 = 138 -> P(m)  [] op2 = 139 -> ~P(m)
                        [] op2 \in {140, 141} -> L(m)
                        [] op2 = 142 -> LE(m) [] op2 = 143 -> ~LE(m))
x86op_two_byte(m) ==
    LET f == fetch_byte_imm(m)
    IN  IF f.v \in 128..143 THEN x86op_long_jump(f.m, f.v) ELSE halt_sys(f.m)

CountDown(m, w, Taken(_)) == LET x == Add(m, CX, -1)
                             IN  Relative(x, w, Get(x, CX) # 0 /\ Taken(x))
x86op_loopne(m) == CountDown(m, Byte, LAMBDA x : ~Z(x))
x86op_loope(m) == CountDown(m, Byte, Z)
x86op_loop(m) == CountDown(m, Byte, LAMBDA x : TRUE)
x86op_jcxz(m) == Relative(m, Byte, Get(m, CX) = 0)
x86op_jump_near_IMM(m) == Relative(m, Word, TRUE)
x86op_jump_byte_IMM(m) == Relative(m, Byte, TRUE)

(***************************************************************************)
(* Calls and returns.  A far pointer is an offset followed by a segment.   *)
(***************************************************************************)
FarJump(m, seg, off) == [SetSeg(m, "CS", seg) EXCEPT !.ip = off]
FarCall(m, seg, off) == LET x == SetSeg(push_word(m, m.s["CS"]), "CS", seg)
                        IN  [push_word(x, m.ip) EXCEPT !.ip = off]
NearCall(m, off) == [push_word(m, m.ip) EXCEPT !.ip = off]
FarImm(m) == LET o == fetch_word_imm(m)
                 s == fetch_word_imm(o.m)
             IN  [m |-> s.m, off |-> o.v, seg |-> s.v]
GoTo(f) == [f.m EXCEPT !.ip = f.v]
PopIP(m) == GoTo(pop_word(m))
PopCS(m) == LET f == pop_word(m) IN SetSeg(f.m, "CS", f.v)

x86op_call_near_IMM(m) == LET f == fetch_word_imm(m)
                          IN  CLR(NearCall(f.m, Low(Word, f.m.ip + f.v)))
x86op_call_far_IMM(m) == LET f == FarImm(m) IN CLR(FarCall(f.m, f.seg, f.off))
x86op_jump_far_IMM(m) == LET f == FarImm(m) IN CLR(FarJump(f.m, f.seg, f.off))
x86op_ret_near(m) == CLR(PopIP(m))
x86op_ret_near_IMM(m) == LET f == fetch_word_imm(m) IN CLR(Add(PopIP(f.m), SP, f.v))
x86op_ret_far(m) == CLR(PopCS(PopIP(m)))
x86op_ret_far_IMM(m) == LET f == fetch_word_imm(m)
                        IN  CLR(Add(PopCS(PopIP(f.m)), SP, f.v))

(***************************************************************************)
(* Interrupts by instruction.  A vector whose segment is BIOS_SEG is       *)
(* served by the emulator itself; any other is called as the processor     *)
(* would.                                                                  *)
(***************************************************************************)
Enter(m, n) == GoTo(mem_access_word(push_word(m, m.ip), n * 4))
PushCS(m, cs) == SetSeg(push_word(m, m.s["CS"]), "CS", cs)
PushFlags(m) == SetFlags(push_word(m, FlagWord(m.fl)), {F_IF, F_TF}, {})
Vector(cs, n) == IF cs.v = BIOS_SEG THEN BiosCall(cs.m, n)
                 ELSE Enter(PushCS(PushFlags(cs.m), cs.v), n)
Interrupt(m, n) == Vector(mem_access_word(m, n * 4 + 2), n)
x86op_int3(m) == CLR(Interrupt(m, 3))
x86op_int_IMM(m) == LET f == fetch_byte_imm(m) IN CLR(Interrupt(f.m, f.v))
x86op_into(m) == CLR(IF ACCESS_FLAG(m, F_OF) THEN Interrupt(m, 4) ELSE m)
PopFlags(m) == LET f == pop_word(m) IN [f.m EXCEPT !.fl = FlagSet(f.v)]
x86op_iret(m) == CLR(PopFlags(PopCS(PopIP(m))))
x86op_pushf_word(m) == CLR(push_word(m, FlagWord((m.fl \cap F_MSK) \cup F_ALWAYS_ON)))
x86op_popf_word(m) == CLR(PopFlags(m))
x86op_sahf(m) == CLR([m EXCEPT !.fl = {f \in @ : f >= 256} \cup FlagSet(Get(m, AH))])
x86op_lahf(m) == CLR(Put(m, AH, FlagWord({f \in m.fl : f < 256} \cup {2})))
=============================================================================
