----------------------------- MODULE X86Machine -----------------------------
(***************************************************************************)
(* The machine that the free BIOS emulator (video/x86) interprets: the     *)
(* registers of x86_regs.h, the memory that freebiosvga.c lends it, and    *)
(* the decoding of operands in x86_decode.c.  The emulator's functions     *)
(* change the SysEnv they are given; here each of them takes a machine m   *)
(* and returns the machine it leaves, or a record [m, v] of that machine   *)
(* and the value returned.                                                 *)
(*                                                                         *)
(* A machine is a record:                                                  *)
(*   r     the eight general registers, a long each                        *)
(*   s     the segment registers      ip    the instruction pointer        *)
(*   fl    the set of the one bits of FLAGS, each by its weight            *)
(*   mode  the prefixes seen, and whether [BP+..] selected SS              *)
(*   intr  the pending interrupt bits intno the number of the last one     *)
(*   mem   the bytes written so far, 0 elsewhere                           *)
(*   out   what was written to I/O ports                                   *)
(***************************************************************************)
EXTENDS Integers, Sequences, FiniteSets, TLC, Bitwise, SequencesExt, FiniteSetsExt

CONSTANTS
    LongBits,     \* width of a long register: 32 in the code
    MemSize       \* bytes of memory lent to the emulated machine (MEM_SIZE)

ASSUME X86Assumption ==
    /\ LongBits \in Nat /\ LongBits % 8 = 0 /\ LongBits > 16
    /\ MemSize \in Nat /\ MemSize >= 1024

(***************************************************************************)
(* Widths, bits and signs.                                                 *)
(***************************************************************************)
Byte == 8
Word == 16
Long == LongBits
Bytes(w) == w \div 8

Low(w, v)  == v % 2^w
Bit(v, i)  == (v \div 2^i) % 2 = 1
Top(w, v)  == Bit(v, w - 1)
Signed(w, v) == IF Top(w, v) THEN v - 2^w ELSE v
XOR2(v, i) == Bit(v, i) # Bit(v, i + 1)
When(b, x) == IF b THEN {x} ELSE {}

\* x86_parity_tab has a one where the byte has an odd number of ones.
PARITY(v) == Cardinality({i \in 0..7 : Bit(v, i)}) % 2 = 1

(***************************************************************************)
(* Flags.                                                                  *)
(***************************************************************************)
F_CF == 1
F_PF == 4
F_AF == 16
F_ZF == 64
F_SF == 128
F_TF == 256
F_IF == 512
F_DF == 1024
F_OF == 2048
F_MSK == {F_CF, F_PF, F_AF, F_ZF, F_SF, F_TF, F_IF, F_DF, F_OF}
F_ALWAYS_ON == {2, 4096, 8192, 16384, 32768}

ACCESS_FLAG(m, f) == f \in m.fl
\* Of the flags fs, exactly those in on become one.
SetFlags(m, fs, on) == [m EXCEPT !.fl = (@ \ fs) \cup on]
FlagWord(fs) == FoldLeft(LAMBDA a, i : IF 2^i \in fs THEN a + 2^i ELSE a,
                         0, [i \in 1..16 |-> i - 1])
FlagSet(v)   == {2^i : i \in {j \in 0..15 : Bit(v, j)}}

\* The flags that a result of width w sets from its value alone.
ZSP == {F_ZF, F_SF, F_PF}
FlagsOf(w, v) == When(Low(w, v) = 0, F_ZF) \cup When(Top(w, v), F_SF)
                     \cup When(PARITY(v), F_PF)

(***************************************************************************)
(* The mode word.                                                          *)
(***************************************************************************)
SEGOVR  == {"CS", "DS", "ES", "SS"}
SEGMASK == SEGOVR \cup {"DS_SS"}
CLRMASK == SEGMASK \cup {"DATA", "ADR"}
REP     == {"REPE", "REPNE"}

SetMode(m, b) == [m EXCEPT !.mode = @ \cup {b}]
HasPrefix(m, b) == b \in m.mode
NoCLR(m) == m                                                    \* mutant
\* What every instruction but a prefix ends with (DECODE_CLEAR_SEGOVR).
CLR(m) == [m EXCEPT !.mode = @ \ CLRMASK]

halt_sys(m) == [m EXCEPT !.intr = @ \cup {"HALTED"}]
x86_intr_raise(m, n) == [m EXCEPT !.intno = n, !.intr = @ \cup {"SYNCH"}]
Halted(m) == "HALTED" \in m.intr

(***************************************************************************)
(* Memory.  Addresses from 0xa0000 to 0xfffff are the adapter's window,    *)
(* taken to be memory as well; the others lie in the block that            *)
(* vgabios_init allocated.  A write checks only its first byte, and a      *)
(* long written to an even address of the block writes only two bytes.     *)
(***************************************************************************)
Peek(m, a) == IF a \in DOMAIN m.mem THEN m.mem[a] ELSE 0
\* The n low bytes of v, stored from address a upwards.
Poke(m, a, v, n) ==
    [m EXCEPT !.mem = [x \in a..a + n - 1 |-> (v \div 256^(x - a)) % 256] @@ @]
PeekLow(m, a, n) == FoldLeft(LAMBDA v, k : v + Peek(m, a + k) * 256^k,
                             0, [k \in 1..n |-> k - 1])
Adapter(a) == a >= 655360 /\ a <= 1048575

mem_read(m, addr, size) ==
    IF ~Adapter(addr) /\ addr > MemSize - size
    THEN [m |-> halt_sys(m), v |-> 0]
    ELSE [m |-> m, v |-> PeekLow(m, addr, size)]

mem_write(m, addr, val, size) ==
    IF ~Adapter(addr) /\ addr >= MemSize THEN halt_sys(m)
    ELSE IF Adapter(addr) /\ size = Bytes(Long) /\ addr % 4 # 0
    THEN Poke(m, addr, (val % 256) + 256 * (val \div 256^(size - 1)), 2)
    ELSE Poke(m, addr, val, IF ~Adapter(addr) /\ size = Bytes(Long) /\ addr % 2 = 0
                            THEN 2 ELSE size)

sys_rdb(m, a) == mem_read(m, a, 1)
sys_rdw(m, a) == mem_read(m, a, 2)
sys_rdl(m, a) == mem_read(m, a, Bytes(Long))
sys_wrb(m, a, v) == mem_write(m, a, v, 1)
sys_wrw(m, a, v) == mem_write(m, a, v, 2)
sys_wrl(m, a, v) == mem_write(m, a, v, Bytes(Long))

Linear(seg, off) == seg * 16 + off
mem_access_word(m, addr) == sys_rdw(m, addr)

(***************************************************************************)
(* Input and output ports.  A port of the adapter answers with its number. *)
(***************************************************************************)
sys_in(m, w, port) == Low(w, port)
sys_out(m, w, port, v) == [m EXCEPT !.out = Append(@, <<port, w, v>>)]

(***************************************************************************)
(* Registers.  A reference names part of a register: the bits [at, at+w).  *)
(***************************************************************************)
General == <<"A", "C", "D", "B", "SP", "BP", "SI", "DI">>
Ref(reg, at, w) == [reg |-> reg, at |-> at, w |-> w]
Get(m, ref) == Low(ref.w, m.r[ref.reg] \div 2^ref.at)
Put(m, ref, v) ==
    [m EXCEPT !.r[ref.reg] = @ + (Low(ref.w, v) - Get(m, ref)) * 2^ref.at]

decode_rm_byte_register(i) ==
    Ref(General[(i % 4) + 1], IF i < 4 THEN 0 ELSE 8, Byte)
decode_rm_word_register(i) == Ref(General[i + 1], 0, Word)
decode_rm_long_register(i) == Ref(General[i + 1], 0, Long)
Reg(w, i) == CASE w = Byte -> decode_rm_byte_register(i)
               [] w = Word -> decode_rm_word_register(i)
               [] w = Long -> decode_rm_long_register(i)

\* The word registers by name, and the parts of A.
AX == Ref("A", 0, Word)
CX == Ref("C", 0, Word)
DX == Ref("D", 0, Word)
BX == Ref("B", 0, Word)
SP == Ref("SP", 0, Word)
BP == Ref("BP", 0, Word)
SI == Ref("SI", 0, Word)
DI == Ref("DI", 0, Word)
AL == Ref("A", 0, Byte)
CL == Ref("C", 0, Byte)
BL == Ref("B", 0, Byte)
AH == Ref("A", 8, Byte)
BH == Ref("B", 8, Byte)
EAX == Ref("A", 0, Long)
ECX == Ref("C", 0, Long)

\* Numbers 4 to 7 halt the machine and return no register; decoding one is
\* left out (the code then writes through a null pointer).
decode_rm_seg_register(i) == <<"ES", "CS", "SS", "DS">>[i + 1]
SetSeg(m, name, v) == [m EXCEPT !.s[name] = v]
Add(m, ref, n) == Put(m, ref, Get(m, ref) + n)

(***************************************************************************)
(* The instruction stream.                                                 *)
(***************************************************************************)
Advance(m, n) == [m EXCEPT !.ip = Low(Word, @ + n)]
Here(m) == Linear(m.s["CS"], m.ip)
fetch_byte_imm(m) == [sys_rdb(m, Here(m)) EXCEPT !.m = Advance(@, 1)]
fetch_word_imm(m) == [sys_rdw(m, Here(m)) EXCEPT !.m = Advance(@, 2)]
fetch_long_imm(m) == [sys_rdl(m, Here(m)) EXCEPT !.m = Advance(@, Bytes(Long))]
FetchImm(m, w) == CASE w = Byte -> fetch_byte_imm(m)
                    [] w = Word -> fetch_word_imm(m)
                    [] w = Long -> fetch_long_imm(m)

\* The two fields and the mode of the byte that follows an opcode.
ModRM(f) == [m |-> f.m, mod |-> f.v \div 64, rh |-> (f.v \div 8) % 8, rl |-> f.v % 8]
fetch_decode_modrm(m) == ModRM(fetch_byte_imm(m))

(***************************************************************************)
(* Addressing.  Only the forms that use BP set DS_SS; mode 0 with rm 6 is  *)
(* a plain offset instead of [BP].                                         *)
(***************************************************************************)
Bases == <<{"B", "SI"}, {"B", "DI"}, {"BP", "SI"}, {"BP", "DI"},
           {"SI"}, {"DI"}, {"BP"}, {"B"}>>
BaseOf(m, rm) == MapThenSumSet(LAMBDA n : Low(Word, m.r[n]), Bases[rm + 1])
SelectSS(m, rm) == IF rm \in {2, 3, 6} THEN SetMode(m, "DS_SS") ELSE m

NeverSS(m, rm) == [m |-> m, v |-> Low(Word, BaseOf(m, rm))]      \* mutant
decode_rm00_address(m, rm) ==
    IF rm = 6 THEN fetch_word_imm(m)
    ELSE [m |-> SelectSS(m, rm), v |-> Low(Word, BaseOf(m, rm))]

Displaced(f, w, rm) ==
    [m |-> SelectSS(f.m, rm), v |-> Low(Word, BaseOf(f.m, rm) + Signed(w, f.v))]
decode_rm01_address(m, rm) == Displaced(fetch_byte_imm(m), Byte, rm)
decode_rm10_address(m, rm) == Displaced(fetch_word_imm(m), Word, rm)
Address(m, mod, rm) == CASE mod = 0 -> decode_rm00_address(m, rm)
                         [] mod = 1 -> decode_rm01_address(m, rm)
                         [] mod = 2 -> decode_rm10_address(m, rm)

(***************************************************************************)
(* Data.  Two overrides at once are an error: the machine halts, a fetch   *)
(* returns 0 and a store goes to segment 0.                                *)
(***************************************************************************)
OneSegment(m) == Cardinality(m.mode \cap SEGOVR) <= 1
DataSegment(m) ==
    LET ovr == m.mode \cap SEGOVR
    IN  IF ovr # {} THEN CHOOSE s \in ovr : TRUE
        ELSE IF HasPrefix(m, "DS_SS") THEN "SS" ELSE "DS"

FetchData(m, w, off) ==
    IF OneSegment(m)
    THEN mem_read(m, Linear(m.s[DataSegment(m)], off), Bytes(w))
    ELSE [m |-> halt_sys(m), v |-> 0]
fetch_data_byte(m, off) == FetchData(m, Byte, off)
fetch_data_word(m, off) == FetchData(m, Word, off)
fetch_data_long(m, off) == FetchData(m, Long, off)
fetch_data_byte_abs(m, seg, off) == sys_rdb(m, Linear(m.s[seg], off))
fetch_data_word_abs(m, seg, off) == sys_rdw(m, Linear(m.s[seg], off))
fetch_data_long_abs(m, seg, off) == sys_rdl(m, Linear(m.s[seg], off))
Fetch(m, w, off) == CASE w = Byte -> fetch_data_byte(m, off)
                      [] w = Word -> fetch_data_word(m, off)
                      [] w = Long -> fetch_data_long(m, off)
FetchAbs(m, w, seg, off) == CASE w = Byte -> fetch_data_byte_abs(m, seg, off)
                              [] w = Word -> fetch_data_word_abs(m, seg, off)
                              [] w = Long -> fetch_data_long_abs(m, seg, off)

StoreData(m, w, off, val) ==
    mem_write(IF OneSegment(m) THEN m ELSE halt_sys(m),
              IF OneSegment(m) THEN Linear(m.s[DataSegment(m)], off) ELSE off,
              val, Bytes(w))
store_data_byte(m, off, val) == StoreData(m, Byte, off, val)
store_data_word(m, off, val) == StoreData(m, Word, off, val)
store_data_long(m, off, val) == StoreData(m, Long, off, val)
store_data_byte_abs(m, seg, off, val) == sys_wrb(m, Linear(m.s[seg], off), val)
store_data_word_abs(m, seg, off, val) == sys_wrw(m, Linear(m.s[seg], off), val)
store_data_long_abs(m, seg, off, val) == sys_wrl(m, Linear(m.s[seg], off), val)
Store(m, w, off, val) == CASE w = Byte -> store_data_byte(m, off, val)
                           [] w = Word -> store_data_word(m, off, val)
                           [] w = Long -> store_data_long(m, off, val)
StoreAbs(m, w, seg, off, val) ==
    CASE w = Byte -> store_data_byte_abs(m, seg, off, val)
      [] w = Word -> store_data_word_abs(m, seg, off, val)
      [] w = Long -> store_data_long_abs(m, seg, off, val)

(***************************************************************************)
(* The stack.                                                              *)
(***************************************************************************)
StackTop(m) == Linear(m.s["SS"], Get(m, SP))
OnTop(m, v, size) == mem_write(m, StackTop(m), v, size)
push_word(m, v) == OnTop(Add(m, SP, -2), v, 2)
push_long(m, v) == OnTop(Add(m, SP, -Bytes(Long)), v, Bytes(Long))
pop_word(m) == [sys_rdw(m, StackTop(m)) EXCEPT !.m = Add(@, SP, 2)]
pop_long(m) == [sys_rdl(m, StackTop(m)) EXCEPT !.m = Add(@, SP, Bytes(Long))]
=============================================================================
