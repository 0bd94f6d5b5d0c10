----------------------------- MODULE X86Emulator ----------------------------
(***************************************************************************)
(* The free BIOS emulator at work: vgabios_init (video/freebiosvga.c)      *)
(* starts the adapter's ROM at C000:3, x86_exec interprets one instruction *)
(* after the other until the machine halts, and vgabios_init then starts   *)
(* it again on an INT 10 of its own that sets the video mode.              *)
(*                                                                         *)
(* A job is a ROM to run with the registers it finds.  vgabios_init leaves *)
(* every register but CS, IP, SS and SP at 0; the other register files of  *)
(* Jobs are the ones that a ROM's earlier instructions leave.  Properties  *)
(* compare what a step did with the meaning of the instruction it found,   *)
(* stated without the emulator's own operators for it.                     *)
(***************************************************************************)
EXTENDS X86Ops

CONSTANTS
    Jobs,         \* [code, r, s, fl, mem]: the ROM from its entry on, and the rest
    MaxSteps      \* bound on the instructions interpreted in one behaviour

VARIABLES
    m,            \* the machine
    phase,        \* "rom", "mode" (the second x86_exec) or "done"
    steps,        \* instructions interpreted so far
    start         \* the job that is being run
vars == <<m, phase, steps, start>>

ROM_ENTRY == 3
STACK == 65528

Loaded(j) ==
    x86_bios_init(
        [r |-> j.r, s |-> j.s, ip |-> ROM_ENTRY, fl |-> j.fl, mode |-> {},
         intr |-> {}, intno |-> 0, out |-> <<>>,
         mem |-> [a \in Linear(j.s["CS"], ROM_ENTRY) ..
                            Linear(j.s["CS"], ROM_ENTRY) + Len(j.code) - 1 |->
                      j.code[a - Linear(j.s["CS"], ROM_ENTRY) + 1]] @@ j.mem])

Init ==
    /\ start \in Jobs
    /\ m = Loaded(start)
    /\ phase = "rom"
    /\ steps = 0

\* A raised interrupt is entered before the next instruction.  The vector's two
\* words are taken in the order opposite to Interrupt's, and the request
\* stays, so it is entered again before every later instruction.
EnterSwapped(cs, ip, n) ==
    GoTo(mem_access_word(push_word(SetSeg(cs.m, "CS", cs.v), ip), n * 4 + 2))
x86_intr_handle(x) ==
    EnterSwapped(mem_access_word(push_word(PushFlags(x), x.s["CS"]), x.intno * 4),
                 x.ip, x.intno)
Deliverable(x) == "SYNCH" \in x.intr /\ (x.intno \in {0, 2} \/ ~ACCESS_FLAG(x, F_IF))
Ready(x) == IF Deliverable(x) THEN x86_intr_handle(x) ELSE x

\* One turn of x86_exec's loop.
Perform(f) == x86_optab(f.v, f.m)
Dispatch(x) == Perform(fetch_byte_imm(x))
Execute ==
    /\ phase # "done" /\ ~Halted(m) /\ steps < MaxSteps
    /\ m' = Dispatch(Ready(m))
    /\ steps' = steps + 1
    /\ UNCHANGED <<phase, start>>

\* x86_exec returned: the bytes CD 10 C3 are run at 0:4000 with AX = 0083, which
\* sets mode 3 without clearing the screen.  The prefixes are not reset.
SetMode3 ==
    /\ phase = "rom" /\ Halted(m)
    /\ m' = [Put(Put(m, AX, 131), SP, STACK) EXCEPT
                 !.mem = (16384 :> 205 @@ 16385 :> 16 @@ 16386 :> 195) @@ @,
                 !.s["CS"] = 0, !.s["SS"] = 0, !.ip = 16384, !.intr = {}]
    /\ phase' = "mode"
    /\ UNCHANGED <<steps, start>>
vgabios_done ==
    /\ phase = "mode" /\ Halted(m)
    /\ phase' = "done"
    /\ UNCHANGED <<m, steps, start>>

Next == Execute \/ SetMode3 \/ vgabios_done
Spec == Init /\ [][Next]_vars

(***************************************************************************)
(* What a step means.  An executed step interprets the instruction that m  *)
(* stands at; the references below read its bytes and the registers, and   *)
(* say what the processor would do with them.                              *)
(***************************************************************************)
Executed == steps' # steps /\ ~Deliverable(m)
At(k)    == Peek(m, Linear(m.s["CS"], m.ip + k))
Imm(w, k) == IF w = Byte THEN At(k) ELSE At(k) + 256 * At(k + 1)
opcode   == At(0)
mod      == At(1) \div 64
rh       == (At(1) \div 8) % 8
rl       == At(1) % 8
Ran(ops) == Executed /\ opcode \in ops

SegmentPrefix == {38, 46, 54, 62}

(***************************************************************************)
(* Lengths of instructions, from the encoding alone.                       *)
(***************************************************************************)
Arith == {op \in 0..63 : op % 8 < 4}
HasModRM == Arith \cup 128..143 \cup {192, 193} \cup 196..199 \cup 208..211
                \cup 217..223 \cup {246, 247, 254, 255}
Imm8  == {op \in 0..63 : op % 8 = 4} \cup {128, 130, 131, 168, 192, 193, 198, 212, 213}
             \cup 176..183 \cup 228..231
Imm16 == {op \in 0..63 : op % 8 = 5} \cup {129, 169, 199} \cup 184..191 \cup 160..163
Transfers == {15} \cup 112..127 \cup {154, 194, 195} \cup 202..207 \cup 224..227
                 \cup 232..235 \cup {216}
GoesElsewhere == opcode \in Transfers \/ (opcode = 255 /\ rh \in 2..5)
Displacement == IF mod = 1 THEN 1 ELSE IF mod = 2 \/ (mod = 0 /\ rl = 6) THEN 2 ELSE 0
Length == 1 + (IF opcode \in HasModRM THEN 1 + Displacement ELSE 0)
            + (IF opcode \in Imm8 \/ (opcode = 246 /\ rh = 0) THEN 1
               ELSE IF opcode \in Imm16 \/ (opcode = 247 /\ rh = 0) THEN 2 ELSE 0)

\* Instructions do not leak into each other.  "After every instruction except the
\* segment override instructions, this bit (as well as any bits indicating segment
\* overrides) will be clear" (x86_decode.c:380): whatever was decoded, no override,
\* operand size prefix or SS default outlives its instruction.  And every handler
\* consumes exactly the bytes of its instruction, whatever the operand, so the next
\* fetch starts at the next one.  (Instructions after an operand size prefix, and
\* 0xd8, do not: README.)
InstructionsApart ==
    [][/\ steps' # steps /\ Peek(m, Here(Ready(m))) \notin SegmentPrefix \cup {102}
          => m'.mode \cap CLRMASK = {} \/ Halted(m')
       /\ Executed /\ ~GoesElsewhere /\ ~HasPrefix(m, "DATA") /\ ~Halted(m')
          => m'.ip = Low(Word, m.ip + Length)]_vars

(***************************************************************************)
(* Arithmetic with the accumulator.                                        *)
(***************************************************************************)
AluWidth == IF opcode % 2 = 0 THEN Byte ELSE Word
Alu == {op \in 0..63 : op % 8 \in {4, 5}}
AluMeans(kind, w, d, s, c, res) ==
    LET sum   == kind \in {0, 2}
        carry == IF kind \in {2, 3} THEN c ELSE 0
        value == IF sum THEN d + s + carry ELSE d - s - carry
        sv    == IF sum THEN Signed(w, d) + Signed(w, s) + carry
                 ELSE Signed(w, d) - Signed(w, s) - carry
        af    == IF sum THEN (d % 16) + (s % 16) + carry > 15 ELSE d % 16 < (s % 16) + carry
        bits  == [i \in 0..w - 1 |-> CASE kind = 1 -> Bit(d, i) \/ Bit(s, i)
                                       [] kind = 4 -> Bit(d, i) /\ Bit(s, i)
                                       [] kind = 6 -> Bit(d, i) # Bit(s, i)
                                       [] OTHER -> Bit(Low(w, value), i)]
        logic == kind \in {1, 4, 6}
    IN  /\ \A i \in 0..w - 1 : Bit(res, i) = bits[i]
        /\ ACCESS_FLAG(m', F_ZF) = (\A i \in 0..w - 1 : ~bits[i])
        /\ ACCESS_FLAG(m', F_SF) = bits[w - 1]
        /\ ACCESS_FLAG(m', F_CF) = (~logic /\ (value >= 2^w \/ value < 0))
        /\ ACCESS_FLAG(m', F_OF) = (~logic /\ (sv >= 2^(w - 1) \/ sv < -(2^(w - 1))))
        /\ ~logic => ACCESS_FLAG(m', F_AF) = af

(***************************************************************************)
(* Comparing and branching.                                                *)
(***************************************************************************)
AfterCompare ==                                                \* of CMP AL, imm8
    steps = 1 /\ m.ip = ROM_ENTRY + 2 /\ Peek(m, Here(m) - 2) = 60
Compared == Peek(m, Here(m) - 1)
\* The relation that the branch with condition c tests after a CMP of a and b.
Relation(c, a, b) ==
    LET sa == Signed(Byte, a)
        sb == Signed(Byte, b)
        d  == Low(Byte, a - b)
    IN  CASE c = 0 -> sa - sb \notin -128..127  [] c = 1 -> sa - sb \in -128..127
          [] c = 2 -> a < b     [] c = 3 -> a >= b
          [] c = 4 -> a = b     [] c = 5 -> a # b
          [] c = 6 -> a <= b    [] c = 7 -> a > b
          [] c = 8 -> d >= 128  [] c = 9 -> d < 128
          [] c = 12 -> sa < sb  [] c = 13 -> sa >= sb
          [] c = 14 -> sa <= sb [] c = 15 -> sa > sb

\* After a comparison, each conditional jump, short or long, is taken exactly
\* when the unsigned or signed relation that its mnemonic names holds.  The long
\* JNL (0F 8D) and the parity jumps do not: README.
BranchesDecide ==
    [][/\ Ran(112..127 \ {122, 123}) /\ AfterCompare
          => m'.ip = Low(Word, m.ip + 2 + IF Relation(opcode - 112, Get(m, AL), Compared)
                                          THEN Signed(Byte, At(1)) ELSE 0)
       /\ Ran({15}) /\ AfterCompare /\ At(1) \in 128..143 \ {138, 139, 141}
          => m'.ip = Low(Word, m.ip + 4 + IF Relation(At(1) - 128, Get(m, AL), Compared)
                                          THEN Signed(Word, Imm(Word, 2)) ELSE 0)]_vars

(***************************************************************************)
(* Shifts and rotations of AL or AX by a count.                            *)
(***************************************************************************)
ShiftOps == {192, 193, 208, 209, 210, 211}
ShiftWidth == IF opcode % 2 = 0 THEN Byte ELSE Word
ShiftCount == CASE opcode \in {192, 193} -> At(2)
                [] opcode \in {208, 209} -> 1
                [] opcode \in {210, 211} -> Get(m, CL)
\* One bit of kind k on a value and a carry, as a record of the two.
OneBit(k, w, x) ==
    LET up == 2 * (x.v % 2^(w - 1))
        dn == x.v \div 2
        hi == Top(w, x.v)
        lo == Bit(x.v, 0)
        One(b, i) == IF b THEN 2^i ELSE 0
    IN  CASE k = 0 -> [v |-> up + One(hi, 0), c |-> hi]
          [] k = 1 -> [v |-> dn + One(lo, w - 1), c |-> lo]
          [] k = 2 -> [v |-> up + One(x.c, 0), c |-> hi]
          [] k = 3 -> [v |-> dn + One(x.c, w - 1), c |-> lo]
          [] k \in {4, 6} -> [v |-> up, c |-> hi]
          [] k = 5 -> [v |-> dn, c |-> lo]
          [] k = 7 -> [v |-> dn + One(hi, w - 1), c |-> lo]

\* ADD, OR, ADC, SBB, AND, SUB, XOR and CMP leave the value and the carry, zero,
\* sign, overflow and auxiliary flags of exact arithmetic, though the emulator
\* recovers the carries from operands and result by its carry and borrow chains.
\* A rotation or shift by n is n times the one by one bit, in value and carry,
\* for every count below the width, and for every count in the rotations through
\* the carry, whose period is one more than the width.
ArithmeticExact ==
    [][/\ Ran(Alu) =>
            LET w == AluWidth
                d == Get(m, Reg(w, 0))
                s == Imm(w, 1)
                r == IF opcode \div 8 = 7 THEN Low(w, d - s) ELSE Get(m', Reg(w, 0))
            IN  AluMeans(opcode \div 8, w, d, s, CF(m), r)
       /\ Ran(ShiftOps) /\ mod = 3 /\ rl = 0 /\ ~HasPrefix(m, "DATA")
          /\ (ShiftCount < ShiftWidth \/ rh \in {2, 3}) =>
            LET w == ShiftWidth
                x == FoldLeft(LAMBDA y, i : OneBit(rh, w, y),
                              [v |-> Get(m, Reg(w, 0)), c |-> ACCESS_FLAG(m, F_CF)],
                              [i \in 1..ShiftCount |-> i])
            IN  Get(m', Reg(w, 0)) = x.v /\ ACCESS_FLAG(m', F_CF) = x.c]_vars

(***************************************************************************)
(* Strings of bytes.                                                       *)
(***************************************************************************)
Dir == IF ACCESS_FLAG(m, F_DF) THEN -1 ELSE 1
Source(i) == Linear(m.s[DataSegment(m)], Low(Word, Get(m, SI) + i * Dir))
Dest(i)   == Linear(m.s["ES"], Low(Word, Get(m, DI) + i * Dir))
Turns     == IF m.mode \cap REP = {} THEN 1 ELSE Get(m, CX)
\* A compare stops behind the first pair that ends it.
StopsAt(Differ(_)) ==
    LET ends == {i \in 1..Turns : HasPrefix(m, "REPE") = Differ(i - 1)}
    IN  IF m.mode \cap REP = {} \/ ends = {} THEN Turns
        ELSE CHOOSE i \in ends : \A j \in ends : i <= j
Moved(n, si) ==
    /\ Get(m', DI) = Low(Word, Get(m, DI) + n * Dir)
    /\ Get(m', SI) = Low(Word, Get(m, SI) + (IF si THEN n * Dir ELSE 0))
    /\ Get(m', CX) = IF m.mode \cap REP = {} THEN Get(m, CX) ELSE Get(m, CX) - n
\* The bytes that a copy in order leaves: a later turn sees what an earlier
\* one wrote where the two strings overlap.
Copied == FoldLeft(LAMBDA f, i : (Dest(i) :> IF Source(i) \in DOMAIN f THEN f[Source(i)]
                                             ELSE Peek(m, Source(i))) @@ f,
                   <<>>, [i \in 1..Turns |-> i - 1])

\* STOSB, MOVSB, SCASB and CMPSB, repeated or not and in either direction, do
\* what the strings as a whole call for: exactly CX elements are written, none
\* beside them, overlapping copies see their own output, a compare stops behind
\* the first element that decides it, also where an index wraps at 64 KB, and a
\* count of 0 touches nothing.
StringsExact ==
    [][/\ Ran({170}) /\ ~Halted(m') =>
            /\ Moved(Turns, FALSE)
            /\ \A a \in DOMAIN m'.mem :
                   m'.mem[a] = IF \E i \in 0..Turns - 1 : a = Dest(i) THEN Get(m, AL)
                               ELSE Peek(m, a)
       /\ Ran({164}) /\ ~Halted(m') =>
            /\ Moved(Turns, TRUE)
            /\ \A a \in DOMAIN m'.mem :
                   m'.mem[a] = IF a \in DOMAIN Copied THEN Copied[a] ELSE Peek(m, a)
       /\ Ran({174}) /\ ~Halted(m') =>
            Moved(StopsAt(LAMBDA i : Peek(m, Dest(i)) # Get(m, AL)), FALSE)
       /\ Ran({166}) /\ ~Halted(m') =>
            Moved(StopsAt(LAMBDA i : Peek(m, Dest(i)) # Peek(m, Source(i))), TRUE)]_vars

(***************************************************************************)
(* Operands in memory, calls and the block of memory.                      *)
(***************************************************************************)
Offset ==
    LET reg(n) == m.r[n] % 2^16
        base == CASE rl = 0 -> reg("B") + reg("SI")  [] rl = 1 -> reg("B") + reg("DI")
                  [] rl = 2 -> reg("BP") + reg("SI") [] rl = 3 -> reg("BP") + reg("DI")
                  [] rl = 4 -> reg("SI")             [] rl = 5 -> reg("DI")
                  [] rl = 6 -> IF mod = 0 THEN 0 ELSE reg("BP")
                  [] rl = 7 -> reg("B")
        disp == CASE mod = 1 -> Signed(Byte, At(2)) [] mod = 2 -> Imm(Word, 2)
                  [] mod = 0 -> IF rl = 6 THEN Imm(Word, 2) ELSE 0
    IN  Low(Word, base + disp)
Leading == m.ip = ROM_ENTRY + steps /\ steps \in {0, 1} /\ ~Halted(m')
\* The prefix standing before the instruction, read from the ROM.
Written == LET p == Peek(m, Here(m) - 1)
           IN  CASE p = 38 -> "ES" [] p = 46 -> "CS" [] p = 54 -> "SS" [] p = 62 -> "DS"
                 [] OTHER -> IF rl \in {2, 3} \/ (rl = 6 /\ mod # 0) THEN "SS" ELSE "DS"

\* A byte moved from or to memory is the one at the address its mode byte names,
\* in the segment that the prefix written before it selects, or SS for the forms
\* with BP and DS for the others.
OperandsFound ==
    [][Ran({136, 138}) /\ mod # 3 /\ Leading
         => LET addr == Linear(m.s[Written], Offset)
            IN  IF opcode = 138 THEN Get(m', Reg(Byte, rh)) = Peek(m, addr)
                ELSE \A a \in DOMAIN m'.mem :
                        m'.mem[a] = IF a = addr THEN Get(m, Reg(Byte, rh))
                                    ELSE Peek(m, a)]_vars

\* A ROM routine that saves what it uses hands everything back: after balanced
\* pushes and pops, near and far calls and returns, software interrupts and
\* their returns, the registers, segments and flags are those it started with.
RoundTrips ==
    phase = "rom" /\ Halted(m) /\ start.balanced =>
        m.r = start.r /\ m.s = start.s /\ m.fl \cap F_MSK = start.fl \cap F_MSK
=============================================================================
