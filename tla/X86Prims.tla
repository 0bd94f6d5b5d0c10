------------------------------ MODULE X86Prims ------------------------------
(***************************************************************************)
(* The arithmetic of the emulator (x86_prim_ops.c).  A primitive of two    *)
(* operands takes the machine, the destination's and the source's value    *)
(* and returns [m, v]: the machine with its flags set and the result.      *)
(* The byte, word and long versions of a primitive differ only in width    *)
(* unless a definition below says otherwise.                               *)
(***************************************************************************)
EXTENDS X86Machine

Result(m, w, v, fs, on) == [m |-> SetFlags(m, fs, on), v |-> Low(w, v)]
ARITH == {F_CF, F_ZF, F_SF, F_PF, F_OF, F_AF}

(***************************************************************************)
(* Addition.  The carry out of bit i is recovered from the operands and    *)
(* the result: the "carry chain".                                          *)
(***************************************************************************)
OneCarry(d, s, res, i) == Bit(s, i) /\ Bit(d, i)                 \* mutant
CarryOut(d, s, res, i) ==
    (Bit(s, i) /\ Bit(d, i)) \/ (~Bit(res, i) /\ (Bit(s, i) \/ Bit(d, i)))

Adder(m, w, d, s, carry, fs) ==
    LET res == d + s + carry
        cc(i) == CarryOut(d, s, res, i)
    IN  Result(m, w, res, fs,
               fs \cap (FlagsOf(w, Low(w, res)) \cup When(Bit(res, w), F_CF)
                        \cup When(cc(w - 1) # cc(w - 2), F_OF)
                        \cup When(cc(3), F_AF)))
CF(m) == IF ACCESS_FLAG(m, F_CF) THEN 1 ELSE 0

add_byte(m, d, s) == Adder(m, Byte, d, s, 0, ARITH)
add_word(m, d, s) == Adder(m, Word, d, s, 0, ARITH)
adc_byte(m, d, s) == Adder(m, Byte, d, s, CF(m), ARITH)
adc_word(m, d, s) == Adder(m, Word, d, s, CF(m), ARITH)
inc_byte(m, d) == Adder(m, Byte, d, 1, 0, ARITH \ {F_CF})
inc_word(m, d) == Adder(m, Word, d, 1, 0, ARITH \ {F_CF})

(***************************************************************************)
(* Subtraction, with the borrow chain.                                     *)
(***************************************************************************)
BorrowOut(d, s, res, i) ==
    (Bit(res, i) /\ (~Bit(d, i) \/ Bit(s, i))) \/ (~Bit(d, i) /\ Bit(s, i))

Subtracter(m, w, d, s, borrow, fs) ==
    LET res == Low(w, d - s - borrow)
        bc(i) == BorrowOut(d, s, res, i)
    IN  Result(m, w, res, fs,
               fs \cap (FlagsOf(w, res) \cup When(bc(w - 1), F_CF)
                        \cup When(bc(w - 1) # bc(w - 2), F_OF)
                        \cup When(bc(3), F_AF)))
Compare(m, w, d, s) == [Subtracter(m, w, d, s, 0, ARITH) EXCEPT !.v = d]

sub_byte(m, d, s) == Subtracter(m, Byte, d, s, 0, ARITH)
sub_word(m, d, s) == Subtracter(m, Word, d, s, 0, ARITH)
sbb_byte(m, d, s) == Subtracter(m, Byte, d, s, CF(m), ARITH)
sbb_word(m, d, s) == Subtracter(m, Word, d, s, CF(m), ARITH)
cmp_byte(m, d, s) == Compare(m, Byte, d, s)
cmp_word(m, d, s) == Compare(m, Word, d, s)
cmp_long(m, d, s) == Compare(m, Long, d, s)
dec_byte(m, d) == Subtracter(m, Byte, d, 1, 0, ARITH \ {F_CF})
dec_word(m, d) == Subtracter(m, Word, d, 1, 0, ARITH \ {F_CF})

\* neg takes its overflow from bits 6 and 7 whatever the width.
Negate(m, w, s) ==
    LET res == Low(w, 2^w - s)
        bc(i) == Bit(res, i) \/ Bit(s, i)
    IN  Result(m, w, res, ARITH,
               FlagsOf(w, res) \cup When(s # 0, F_CF)
               \cup When(bc(6) # bc(7), F_OF) \cup When(bc(3), F_AF))
neg_byte(m, s) == Negate(m, Byte, s)
neg_word(m, s) == Negate(m, Word, s)

(***************************************************************************)
(* Logic.  AF is left alone.                                               *)
(***************************************************************************)
Logical(m, w, res) == Result(m, w, res, ARITH \ {F_AF}, FlagsOf(w, res))
and_byte(m, d, s) == Logical(m, Byte, d & s)
and_word(m, d, s) == Logical(m, Word, d & s)
or_byte(m, d, s)  == Logical(m, Byte, d | s)
or_word(m, d, s)  == Logical(m, Word, d | s)
xor_byte(m, d, s) == Logical(m, Byte, d ^^ s)
xor_word(m, d, s) == Logical(m, Word, d ^^ s)
test_byte(m, d, s) == [and_byte(m, d, s) EXCEPT !.v = d]
test_word(m, d, s) == [and_word(m, d, s) EXCEPT !.v = d]
not_byte(m, s) == [m |-> m, v |-> 2^Byte - 1 - s]
not_word(m, s) == [m |-> m, v |-> 2^Word - 1 - s]

(***************************************************************************)
(* Rotations.  A count that is a multiple of the period changes nothing,   *)
(* not even the flags.                                                     *)
(***************************************************************************)
Left(w, d, n)  == (d % 2^(w - n)) * 2^n
Right(d, n)    == d \div 2^n

Rol(m, w, d, s) ==
    LET cnt == s % w
        res == Left(w, d, cnt) + Right(d, w - cnt)
    IN  IF cnt = 0 THEN [m |-> m, v |-> d]
        ELSE Result(m, w, res, {F_CF, F_OF},
                    When(Bit(res, 0), F_CF)
                    \cup When(cnt = 1 /\ Bit(res, 0) # Top(w, res), F_OF))
rol_byte(m, d, s) == Rol(m, Byte, d, s)
rol_word(m, d, s) == Rol(m, Word, d, s)
rol_long(m, d, s) == Rol(m, Long, d, s)

Ror(m, w, d, s) ==
    LET cnt == s % w
        res == Left(w, d, w - cnt) + Right(d, cnt)
    IN  IF cnt = 0 THEN [m |-> m, v |-> d]
        ELSE Result(m, w, res, {F_CF, F_OF},
                    When(Top(w, res), F_CF)
                    \cup When(cnt = 1 /\ XOR2(res, w - 2), F_OF))
ror_byte(m, d, s) == Ror(m, Byte, d, s)
ror_word(m, d, s) == Ror(m, Word, d, s)
ror_long(m, d, s) == Ror(m, Long, d, s)

\* Left through the carry; what was shifted up is cut to keep bits.
Rcl(m, w, keep, d, s) ==
    LET cnt == s % (w + 1)
        res == Low(keep, Left(w, d, cnt)) + Right(d, w + 1 - cnt)
                   + CF(m) * 2^(cnt - 1)
        cf  == Bit(d, w - cnt)
    IN  IF cnt = 0 THEN [m |-> m, v |-> d]
        ELSE Result(m, w, res, {F_CF, F_OF},
                    When(cf, F_CF) \cup When(cnt = 1 /\ cf # Top(w, res), F_OF))
rcl_byte(m, d, s) == Rcl(m, Byte, Byte, d, s)
rcl_word(m, d, s) == Rcl(m, Word, Word, d, s)
rcl_long(m, d, s) == Rcl(m, Long, Word, d, s)    \* the mask is the word's

\* Right through the carry; OF is touched by a count of one only.
Rcr(m, w, d, s) ==
    LET cnt == s % (w + 1)
        res == Right(d, cnt) + (d % 2^(cnt - 1)) * 2^(w + 1 - cnt)
                   + CF(m) * 2^(w - cnt)
    IN  IF cnt = 0 THEN [m |-> m, v |-> d]
        ELSE Result(m, w, res, {F_CF} \cup When(cnt = 1, F_OF),
                    When(Bit(d, cnt - 1), F_CF)
                    \cup When(cnt = 1 /\ (ACCESS_FLAG(m, F_CF) # Top(w, d)), F_OF))
rcr_byte(m, d, s) == Rcr(m, Byte, d, s)
rcr_word(m, d, s) == Rcr(m, Word, d, s)
rcr_long(m, d, s) == Rcr(m, Long, d, s)

(***************************************************************************)
(* Shifts.                                                                 *)
(***************************************************************************)
SHIFT == {F_CF, F_OF} \cup ZSP

\* Counts of the width and more give 0 with ZF alone.
Shl(m, w, d, s) ==
    LET res == Left(w, d, s)
        cf  == Bit(d, w - s)
    IN  CASE s >= w -> Result(m, w, 0, SHIFT, {F_ZF})
          [] s = 0  -> Result(m, w, d, {F_OF}, {})
          [] OTHER  -> Result(m, w, res, SHIFT,
                              FlagsOf(w, res) \cup When(cf, F_CF)
                              \cup When(s = 1 /\ Top(w, res) # cf, F_OF))
shl_byte(m, d, s) == Shl(m, Byte, d, s)
shl_word(m, d, s) == Shl(m, Word, d, s)
shl_long(m, d, s) == Shl(m, Long, d, s)

Shr(m, w, d, s) ==
    LET res == Right(d, s)
    IN  CASE s >= w -> Result(m, w, 0, SHIFT, {F_ZF})
          [] s = 0  -> Result(m, w, d, {F_OF}, {})
          [] OTHER  -> Result(m, w, res, SHIFT,
                              FlagsOf(w, res) \cup When(Bit(d, s - 1), F_CF)
                              \cup When(s = 1 /\ XOR2(res, w - 2), F_OF))
shr_byte(m, d, s) == Shr(m, Byte, d, s)
shr_word(m, d, s) == Shr(m, Word, d, s)
shr_long(m, d, s) == Shr(m, Long, d, s)

\* The count is taken modulo the width; OF is left alone.
Sar(m, w, d, s) ==
    LET cnt == s % w
        res == Right(d, cnt) + (IF Top(w, d) THEN 2^w - 2^(w - cnt) ELSE 0)
    IN  IF cnt = 0 THEN [m |-> m, v |-> d]
        ELSE Result(m, w, res, SHIFT \ {F_OF},
                    FlagsOf(w, res) \cup When(Bit(d, cnt - 1), F_CF))
sar_byte(m, d, s) == Sar(m, Byte, d, s)
sar_word(m, d, s) == Sar(m, Word, d, s)
sar_long(m, d, s) == Sar(m, Long, d, s)

(***************************************************************************)
(* Multiplication and division.                                            *)
(***************************************************************************)
Product(m, sf, zf, wide) ==
    SetFlags(m, {F_SF, F_ZF, F_CF, F_OF},
             When(sf, F_SF) \cup When(zf, F_ZF)
             \cup (IF wide THEN {F_CF, F_OF} ELSE {}))

mul_byte(m, s) ==
    LET x == Put(m, AX, Get(m, AL) * s)
    IN  Product(x, FALSE, Get(x, AX) = 0, Get(x, AH) # 0)
imul_byte(m, s) ==
    LET x == Put(m, AX, Signed(Byte, Get(m, AL)) * Signed(Byte, s))
    IN  Product(x, Top(Word, Get(x, AX)), Get(x, AX) = 0, Get(x, AH) \notin {0, 255})

\* AX times s in DX:AX, a byte of s at a time.
mul_word(m, s) ==
    LET p  == Get(m, AX) * (s % 256)
        q  == Get(m, AX) * (s \div 256)
        lo == p + 256 * (q % 256)
        x  == Put(Put(m, AX, lo), DX, lo \div 2^Word + q \div 256)
    IN  Product(x, FALSE, Get(x, AX) = 0 /\ Get(x, DX) = 0, Get(x, DX) # 0)
imul_word(m, s) ==
    LET p == Signed(Word, Get(m, AX)) * Signed(Word, s)
        x == Put(Put(m, AX, p), DX, p \div 2^Word)
    IN  Product(x, p < 0, p = 0, Get(x, DX) \notin {0, 65535})

\* C's division and remainder, which round towards zero.
Abs(a) == IF a < 0 THEN -a ELSE a
Quot(a, b) == IF (a < 0) = (b < 0) THEN Abs(a) \div Abs(b) ELSE -(Abs(a) \div Abs(b))
Rem(a, b)  == a - b * Quot(a, b)

Quotient(m, w, lo, hi, div, mod) ==
    SetFlags(Put(Put(m, lo, div), hi, mod), {F_SF, F_ZF},
             When(div < 0 /\ Bit(Low(w, div), w - 1), F_SF)
             \cup When(div = 0, F_ZF))
DivideError(m) == x86_intr_raise(m, 0)

div_byte(m, s) ==
    IF s = 0 \/ Get(m, AX) \div s > 255 THEN DivideError(m)
    ELSE Quotient(m, Byte, AL, AH, Get(m, AX) \div s, Get(m, AX) % s)
idiv_byte(m, s) ==
    LET dvd == Signed(Word, Get(m, AX))
        dvs == Signed(Byte, s)
    IN  IF s = 0 \/ Abs(Quot(dvd, dvs)) > 127 THEN DivideError(m)
        ELSE Quotient(m, Byte, AL, AH, Quot(dvd, dvs), Rem(dvd, dvs))

\* The quotient of words is checked through the signed abs, which lets the
\* 65535 largest unsigned ones through, and 2^31, whose abs is negative: its
\* low word is 0.
Least(m) == Get(m, DX) = 32768 /\ Get(m, AX) = 0
Unchecked(m) == Quotient(m, Word, AX, DX, 2^Word, 0)

\* DX:AX by s, a byte of AX at a time.
div_word(m, s) ==
    LET dx == Get(m, DX)
        ax == Get(m, AX)
        h  == dx * 256 + ax \div 256
        l  == (h % s) * 256 + (ax % 256)
    IN  CASE s = 0 -> DivideError(m)
          [] s # 0 /\ dx < s ->
                Quotient(m, Word, AX, DX, (h \div s) * 256 + l \div s, l % s)
          [] s # 0 /\ dx >= s /\ s = 1 /\ dx = 65535 /\ ax # 0 ->
                Quotient(m, Word, AX, DX, ax, 0)
          [] s = 1 /\ Least(m) -> Unchecked(m)
          [] OTHER -> DivideError(m)
idiv_word(m, s) ==
    LET dvd == Signed(Word, Get(m, DX)) * 2^Word + Get(m, AX)
        dvs == Signed(Word, s)
    IN  IF dvs \in {1, -1} /\ Least(m) THEN Unchecked(m)
        ELSE IF s = 0 \/ Abs(Quot(dvd, dvs)) > 32767 THEN DivideError(m)
        ELSE Quotient(m, Word, AX, DX, Quot(dvd, dvs), Rem(dvd, dvs))

\* Decimal adjustments of a product and before a division.
Adjusted(m, l) == Result(m, Word, l, ZSP, When(Bit(l, 7), F_SF)
                     \cup When(l = 0, F_ZF) \cup When(PARITY(l % 256), F_PF))
aad_word(m, d) == Adjusted(m, (d % 256) + 10 * (d \div 256))
aam_word(m, d) == Adjusted(m, (d % 10) + 256 * (d \div 10))

(***************************************************************************)
(* String input and output.  A repeated transfer of longs stops after the  *)
(* first, and clears the count all the same.                               *)
(***************************************************************************)
Stride(m, w) == IF ACCESS_FLAG(m, F_DF) THEN -Bytes(w) ELSE Bytes(w)
EndRep(m) == [m EXCEPT !.mode = @ \ REP]
Iterate(Step(_), m, n) == FoldLeft(LAMBDA x, i : Step(x), m, [i \in 1..n |-> i])
PortCount(m, w) ==
    LET n == IF HasPrefix(m, "DATA") THEN Get(m, ECX) ELSE Get(m, CX)
    IN  IF w = Long /\ n > 1 THEN 1 ELSE n
PortString(m, w, Step(_)) ==
    IF m.mode \cap REP = {} THEN Step(m)
    ELSE LET x == Iterate(Step, m, PortCount(m, w))
         IN  EndRep(Put(x, IF HasPrefix(m, "DATA") THEN ECX ELSE CX, 0))

ins(m, w) ==
    PortString(m, w, LAMBDA x :
        Add(StoreAbs(x, w, "ES", Get(x, DI), sys_in(x, w, Get(x, DX))),
            DI, Stride(x, w)))
outs(m, w) ==
    PortString(m, w, LAMBDA x :
        LET f == FetchAbs(x, w, "ES", Get(x, SI))
        IN  Add(sys_out(f.m, w, Get(x, DX), f.v), SI, Stride(x, w)))
=============================================================================
