---------------------------- MODULE MCX86Emulator ---------------------------
(***************************************************************************)
(* Small ROMs for X86Emulator, in groups.  Each ends in HLT (244); the     *)
(* segments are apart, so that a wrong one is noticed.                     *)
(***************************************************************************)
EXTENDS X86Emulator

General0 == [n \in {"A", "C", "D", "B", "SP", "BP", "SI", "DI"} |-> 0]
PowerOn  == [General0 EXCEPT !["SP"] = STACK]
Busy     == [General0 EXCEPT !["A"] = 513, !["C"] = 3, !["D"] = 7, !["B"] = 32,
                             !["SP"] = 256, !["BP"] = 64, !["SI"] = 16, !["DI"] = 24]
Flat  == [CS |-> 49152, DS |-> 0, ES |-> 0, SS |-> 0]
Apart == [CS |-> 49152, DS |-> 256, ES |-> 512, SS |-> 768]
Job(code, r, s, fl, mem) ==
    [code |-> code \o <<244, 244>>, r |-> r, s |-> s, fl |-> fl, mem |-> mem,
     balanced |-> FALSE]
SetA(r, v) == [r EXCEPT !["A"] = v]
NoMem == [a \in {} |-> 0]

Bytes8  == {0, 1, 15, 127, 128, 255}
Words16 == {0, 255, 32767, 32768, 65535}
AluJobs ==
    { Job(<<8 * k + 4, i>>, SetA(PowerOn, a), Flat, When(c, F_CF), NoMem) :
          k \in 0..7, i \in Bytes8, a \in Bytes8, c \in BOOLEAN }
    \cup { Job(<<8 * k + 5, i % 256, i \div 256>>, SetA(PowerOn, a), Flat, When(c, F_CF), NoMem) :
          k \in 0..7, i \in Words16, a \in Words16, c \in BOOLEAN }
BranchJobs ==
    { Job(<<60, i, 112 + c, 2, 244, 244, 144>>, SetA(PowerOn, a), Flat, {}, NoMem) :
          i \in Bytes8, a \in Bytes8, c \in 0..15 }
LongBranchJobs ==
    { Job(<<60, i, 15, 128 + c, 254, 0>>, SetA(PowerOn, a), Flat, {}, NoMem) :
          i \in {1, 128}, a \in {1, 127}, c \in 0..15 }
Counts == {0, 1, 2, 7, 8, 9, 15, 16, 17, 31}
ShiftJobs ==
    { Job(<<192 + wd, 192 + 8 * k, n>>, SetA(PowerOn, a), Flat, When(c, F_CF), NoMem) :
          wd \in {0, 1}, k \in 0..7, n \in Counts, a \in {129, 33024}, c \in BOOLEAN }
    \cup { Job(<<208 + wd, 192 + 8 * k>>, [SetA(PowerOn, a) EXCEPT !["C"] = n],
               Flat, When(c, F_CF), NoMem) :
          wd \in 0..3, k \in 0..7, n \in {1, 9}, a \in {129, 32769}, c \in BOOLEAN }
    \cup { Job(<<102, 209, 192 + 8 * k>>, SetA(PowerOn, 8388609), Flat, {F_CF}, NoMem) :
          k \in 0..7 }
\* DS:SI at 0x1010, ES:DI at 0x1012 (overlapping) or at the end of segment 0.
Strings == 4112 :> 5 @@ 4113 :> 5 @@ 4114 :> 5 @@ 4115 :> 6 @@ 4116 :> 5
               @@ 65534 :> 5 @@ 65535 :> 7
StringJobs ==
    { Job(<<p, op>>, [Busy EXCEPT !["A"] = 5, !["C"] = n, !["DI"] = dst[2]],
          [Apart EXCEPT !["ES"] = dst[1]], When(d, F_DF), Strings) :
          p \in {144, 242, 243}, op \in 164..167 \cup 170..175, n \in {0, 1, 3},
          dst \in {<<256, 18>>, <<0, 65534>>}, d \in BOOLEAN }
    \cup { Job(<<102, p, 171>>, Busy, Apart, {}, NoMem) : p \in {144, 243} }
    \cup { Job(<<p, op>>, Busy, Apart, {}, Strings) : p \in {144, 243}, op \in 108..111 }
\* A different byte wherever an operand of these instructions may be.
Offsets == {16, 24, 32, 40, 48, 56, 64, 80, 88, 5, 37, 69, 85, 517, 581}
Scattered == [a \in UNION {{seg * 16 + o, seg * 16 + o + 5} :
                             seg \in {256, 512, 768}, o \in Offsets} |-> (a * 7) % 251]
OperandJobs ==
    { Job(p \o <<op, 64 * md + 8 * rg + rm, 5, 2>>, Busy, Apart, {}, Scattered) :
          p \in {<<>>, <<38>>, <<46>>, <<54>>, <<62>>}, op \in 136..139,
          md \in 0..2, rg \in {1}, rm \in 0..7 }
\* Every opcode with a choice of operands.
SweepJobs ==
    { Job(<<op, mr, 4, 0, 1, 2>>, Busy, Apart, {F_CF}, NoMem) :
          op \in 0..255 \ {140, 142}, mr \in {0, 6, 74, 134, 192, 200, 211, 216, 233, 249} }
    \cup { Job(<<op, mr, 4, 0, 1, 2>>, Busy, Apart, {F_OF}, NoMem) :
          op \in {140, 142}, mr \in {0, 6, 74, 134, 192, 211, 216} }
    \cup { Job(<<102, op, 192, 4, 0, 1>>, Busy, Apart, {F_ZF}, NoMem) :
          op \in 0..255 \ {140, 142} }
    \cup { Job(<<246 + wd, 192 + 8 * k + 1, 3>>, [SetA(Busy, a) EXCEPT !["C"] = n], Apart, {}, NoMem) :
          wd \in {0, 1}, k \in 0..7, a \in {0, 7, 509, 65535}, n \in {0, 3, 255} }
    \cup { Job(<<136, 7, 137, 7, 26, 255>>, [Busy EXCEPT !["B"] = b], Flat, {}, NoMem) :
          b \in {65534, 65535} }
    \cup { Job(<<102, 96>>, Busy, Apart, {}, NoMem), Job(<<205, 16>>, SetA(PowerOn, 4608), Flat, {}, NoMem) }
    \cup { Job(<<205, 26>>, SetA(PowerOn, a), Flat, {}, NoMem) : a \in 45313..45326 }
    \cup { Job(<<205, 16>>, [SetA(PowerOn, a) EXCEPT !["B"] = 50], Flat, {}, NoMem) : a \in 4608..4610 }
\* Offsets in the ROM count from its entry at 3; vector 33 is at 132.
Hook(n, off) == <<199, 6, 4 * n, 0, off, 0, 199, 6, 4 * n + 2, 0, 0, 192>>
Routines ==
    { <<96, 97>>, <<156, 96, 4, 1, 97, 157>>, <<80, 83, 91, 88>>,
      <<80, 83, 88, 91, 147>>, <<6, 30, 22, 23, 31, 7>>,
      <<84, 88, 184, 1, 2>>,
      <<232, 2, 0, 244, 244, 195>>,                         \* CALL near, RET
      <<80, 232, 2, 0, 244, 244, 194, 2, 0>>,               \* RET 2
      <<154, 10, 0, 0, 192, 244, 244, 203>>,                \* CALL far, RETF
      <<80, 154, 11, 0, 0, 192, 244, 244, 202, 2, 0>>,      \* RETF 2
      <<184, 14, 0, 255, 208, 184, 1, 2, 244, 244, 244, 195>>, \* CALL AX
      Hook(33, 19) \o <<205, 33, 244, 244, 207>>,           \* INT 33, IRET
      Hook(33, 19) \o <<205, 33, 244, 244, 249, 253, 207>>, \* handler sets flags
      Hook(3, 18) \o <<204, 244, 244, 96, 64, 97, 207>>,    \* INT3
      Hook(4, 18) \o <<206, 244, 244, 207>>,                \* INTO
      <<156, 64, 72, 65, 73, 157>>, <<145, 145, 146, 146>> }
BalancedJobs ==
    { [Job(c, Busy, [Flat EXCEPT !["SS"] = 768], f, NoMem) EXCEPT !.balanced = TRUE] :
          c \in Routines, f \in {{F_OF, F_CF}, {F_IF, F_ZF}} }
\* A ROM that hooks INT 10 and halts: vgabios_init's own INT 10 enters it.
ModeJobs == { Job(Hook(16, 18) \o <<244, 244, 244, 96, 97, 207>>, PowerOn, Flat, {}, NoMem),
              Job(Hook(16, 18) \o <<244, 244, 244, 244>>, PowerOn, Flat, {}, NoMem) }

MCJobs == AluJobs \cup BranchJobs \cup LongBranchJobs \cup ShiftJobs \cup StringJobs \cup OperandJobs
              \cup SweepJobs \cup BalancedJobs \cup ModeJobs
MCPci == [ah |-> 0, bus |-> 1, devfn |-> 8, data |-> 4660]
=============================================================================
