------------------------------ MODULE DiskProofs -------------------------------
(***************************************************************************)
(* Proofs about reading disks.  First BlockIO, for any devices, sizes and  *)
(* reads: the one buffer is never shared, reads return what was asked for  *)
(* when each stays in one block or starts at one (ReadsFit), and the       *)
(* buffer holds every block when a disk is read at start-up (Disks is not  *)
(* empty).  Then the file systems, for any disks, files and failures: the  *)
(* caches of the ext2 reader stay honest about the disk of a command, and  *)
(* while they are true its reads follow the pointers on that disk; those   *)
(* of the msdos reader follow the FAT; and no search is ever short of an   *)
(* inode slot.                                                             *)
(***************************************************************************)
EXTENDS BlockIO, FileSystems, FiniteSetTheorems, TLAPS

\* What device_read's callers ask for: a read that starts within a block
\* ends in it.  block_read advances by whole blocks from where it starts.
Fits(offset, count, size) == offset % size = 0 \/ (offset % size) + count <= size

ReadsFit == \A r \in Reads : Fits(r[1], r[2], r[3])

-----------------------------------------------------------------------------
(* The inductive invariant. *)

Contents == (Devices \cup {NoDevice}) \X Nat

Shapes ==
    /\ inited \in BOOLEAN
    /\ blksize \in [Devices -> Sizes]
    /\ rdev \in Devices \cup {NoDevice}
    /\ pc \in {"idle", "bread", "wait", "copy"}
    /\ want \in [dev : Devices \cup {NoDevice}, offset : Nat, count : Nat, size : Sizes]
    /\ f_pos \in 0 .. (want.offset + want.count)
    /\ out \in Seq(Contents) /\ Len(out) <= want.count
    /\ room \in Nat
    /\ bh \in BufferHeads
    /\ data \in [Cells -> Contents]
    /\ request \in {"none", "plugged", "started"}

\* Who may touch the buffer.
HandOverInv ==
    /\ request # "none" => pc = "wait" /\ bh.lock
    /\ pc = "wait" /\ bh.lock => request # "none" /\ ~bh.uptodate
    /\ pc = "copy" => bh.uptodate
    /\ pc = "idle" /\ want.count # Len(out) => ~bh.uptodate

\* How far a read has got.
ReadingInv ==
    pc # "idle" => f_pos = want.offset + Len(out) /\ Len(out) < want.count

BufferInv == Shapes /\ HandOverInv /\ ReadingInv

\* A read stays in a block or goes from block to block.
AlignedInv ==
    pc # "idle" =>
        /\ out # << >> => f_pos % want.size = 0
        /\ Fits(want.offset, want.count, want.size)

\* The buffer holds the block it is for.
FilledInv ==
    pc \in {"wait", "copy"} =>
        /\ bh.dev = want.dev /\ bh.size = want.size /\ bh.block = f_pos \div want.size
        /\ bh.uptodate =>
              \A c \in Cells : c < bh.size => data[c] = <<bh.dev, bh.block * bh.size + c>>

Prefixed == \A i \in 1 .. Len(out) : out[i] = <<want.dev, want.offset + i - 1>>

ReadInv == AlignedInv /\ FilledInv /\ Prefixed

\* The buffer was allocated for the largest block.
RoomInv ==
    /\ ~inited => rdev = NoDevice /\ pc = "idle"
    /\ room = 0 => /\ bh.size = 0
                   /\ \/ ~inited
                      \/ pc = "bread" /\ want.size = BLOCK
    /\ room # 0 => BLOCK <= room

-----------------------------------------------------------------------------
(* Arithmetic.  The block size is a parameter, so these facts are not      *)
(* linear and are proved once, here.                                       *)

\* Quotient and remainder.
LEMMA DivMod ==
    ASSUME NEW P \in Nat \ {0}, NEW x \in Nat
    PROVE  x \div P \in Nat /\ x % P \in 0 .. (P - 1) /\ x = P * (x \div P) + (x % P)
  BY SMT

LEMMA Product ==
    ASSUME NEW a \in Nat, NEW b \in Nat
    PROVE  a * b = b * a /\ a * b \in Nat
  BY SMT

\* One more block, one block further.
LEMMA NextMultiple ==
    ASSUME NEW P \in Nat \ {0}, NEW a \in Nat, NEW b \in Nat, a < b
    PROVE  P * a + P <= P * b
  BY SMT

\* A position a whole block after the start of a block starts a block.
LEMMA BlockAfter ==
    ASSUME NEW P \in Nat \ {0}, NEW x \in Nat, x % P = 0
    PROVE  (x + P) % P = 0
  <1> DEFINE y == x + P
  <1> DEFINE a == x \div P
  <1> DEFINE q == y \div P
  <1> DEFINE m == y % P
  <1>1. a \in Nat /\ x = P * a
    BY DivMod
  <1>2. y \in Nat /\ q \in Nat /\ m \in 0 .. (P - 1) /\ y = P * q + m
    <2>1. y \in Nat
      OBVIOUS
    <2> HIDE DEF y
    <2> QED BY <2>1, DivMod
  <1>3. P * (a + 1) = P * a + P
    BY <1>1
  <1>4. y = P * (a + 1)
    BY <1>1, <1>3
  <1> HIDE DEF y, a, q, m
  <1>5. ~(q < a + 1)
    BY <1>1, <1>2, <1>4, NextMultiple
  <1>6. ~(a + 1 < q)
    BY <1>1, <1>2, <1>4, NextMultiple
  <1>7. q = a + 1
    BY <1>1, <1>2, <1>5, <1>6
  <1>8. m = 0
    BY <1>2, <1>4, <1>7
  <1> QED BY <1>8 DEF m, y

\* The smaller of two numbers.
LEMMA MinOfTwo ==
    ASSUME NEW a \in Nat, NEW b \in Nat
    PROVE  Min({a, b}) = IF a <= b THEN a ELSE b
  BY DEF Min

\* The sizes, and the cells a block takes of the buffer.
LEMMA SizesNat ==
    /\ Sizes \subseteq Nat \ {0} /\ \A s \in Sizes : s <= BLOCK
    /\ BLOCK \in Sizes /\ SECTOR \in Sizes
    /\ \A s \in Sizes : \A c \in 0 .. (s - 1) : c \in Cells
    /\ \A c \in Cells : c \in Nat
  BY BlockIOAssumption DEF Sizes, Cells

\* The parts of a read and of the buffer.
LEMMA Types ==
    ASSUME Shapes
    PROVE  /\ want.dev \in Devices \cup {NoDevice} /\ want.offset \in Nat /\ want.count \in Nat
           /\ want.size \in Sizes /\ want.size \in Nat \ {0}
           /\ Len(out) \in Nat /\ f_pos \in Nat
           /\ bh.size \in Nat
  <1>1. want \in [dev : Devices \cup {NoDevice}, offset : Nat, count : Nat, size : Sizes]
    BY DEF Shapes
  <1>2. /\ want.dev \in Devices \cup {NoDevice} /\ want.offset \in Nat /\ want.count \in Nat
        /\ want.size \in Sizes /\ want.size \in Nat \ {0}
    BY <1>1, SizesNat
  <1>3. out \in Seq(Contents)
    BY DEF Shapes
  <1>4. f_pos \in Nat
    BY <1>2 DEF Shapes
  <1>5. bh.size \in Nat
    <2>1. bh \in BufferHeads
      BY DEF Shapes
    <2>2. bh.size \in Sizes \cup {0}
      BY <2>1 DEF BufferHeads
    <2> QED BY <2>2, BlockIOAssumption DEF Sizes
  <1> QED BY <1>2, <1>3, <1>4, <1>5

\* Joining two sequences.
LEMMA Joined ==
    ASSUME NEW S, NEW s \in Seq(S), NEW t \in Seq(S)
    PROVE  /\ s \o t \in Seq(S) /\ Len(s \o t) = Len(s) + Len(t)
           /\ \A i \in 1 .. Len(s) : (s \o t)[i] = s[i]
           /\ \A i \in 1 .. Len(t) : (s \o t)[Len(s) + i] = t[i]
  OBVIOUS

\* A read advances by what it has copied.
LEMMA Advance ==
    ASSUME NEW offset \in Nat, NEW count \in Nat, NEW n \in Nat, NEW a \in Nat \ {0},
           a <= count - n
    PROVE  /\ (offset + n) + a \in 0 .. (offset + count) /\ n + a <= count
           /\ (offset + n) + a = offset + (n + a)
           /\ n + a # count => n + a < count
  OBVIOUS

\* How much block_read copies: something, and not more than is left.
LEMMA AmountRange ==
    ASSUME BufferInv, pc = "copy"
    PROVE  /\ Amount \in Nat \ {0} /\ Amount <= want.size /\ Amount <= want.count - Len(out)
           /\ Amount = want.size \/ Amount = want.count - Len(out)
           /\ Len(out) \in Nat
  <1>1. want.size \in Nat \ {0} /\ want.count \in Nat /\ Len(out) \in Nat /\ Len(out) < want.count
    BY Types DEF BufferInv, ReadingInv
  <1>2. want.count - Len(out) \in Nat \ {0}
    BY <1>1
  <1>3. Amount = IF want.count - Len(out) <= want.size THEN want.count - Len(out) ELSE want.size
    BY <1>1, <1>2, MinOfTwo DEF Amount
  <1> QED BY <1>1, <1>2, <1>3

-----------------------------------------------------------------------------
(* One lemma per action: it preserves BufferInv. *)

LEMMA InitBuffer == Init => BufferInv
  <1> SUFFICES ASSUME Init PROVE BufferInv
    OBVIOUS
  <1>1. Junk \in Contents
    BY DEF Junk, Contents
  <1>2. blksize \in [Devices -> Sizes] /\ data \in [Cells -> Contents]
    BY <1>1, SizesNat DEF Init
  <1>3. want \in [dev : Devices \cup {NoDevice}, offset : Nat, count : Nat, size : Sizes]
        /\ want.count = 0 /\ want.offset = 0
    BY SizesNat DEF Init
  <1>4. bh \in BufferHeads /\ ~bh.lock /\ ~bh.uptodate
    BY DEF Init, BufferHeads
  <1>5. out \in Seq(Contents) /\ Len(out) = 0
    BY DEF Init
  <1>6. Shapes
    <2>1. f_pos \in 0 .. (want.offset + want.count) /\ Len(out) <= want.count
      BY <1>3, <1>5 DEF Init
    <2>2. inited \in BOOLEAN /\ rdev \in Devices \cup {NoDevice} /\ room \in Nat
      BY DEF Init
    <2>3. pc \in {"idle", "bread", "wait", "copy"} /\ request \in {"none", "plugged", "started"}
      BY DEF Init
    <2> QED BY <1>2, <1>3, <1>4, <1>5, <2>1, <2>2, <2>3 DEF Shapes
  <1> QED BY <1>4, <1>6 DEF Init, BufferInv, HandOverInv, ReadingInv

\* A read begins with nothing copied out.
LEMMA StartReadStep ==
    ASSUME BufferInv, pc = "idle", NEW d \in Devices, NEW offset \in Nat, NEW count \in Nat \ {0},
           NEW size \in Sizes, StartRead(d, offset, count, size),
           UNCHANGED <<blksize, rdev, buffer, request>>, inited' \in BOOLEAN
    PROVE  BufferInv'
  <1> USE DEF BufferInv, buffer
  <1>1. /\ want' \in [dev : Devices \cup {NoDevice}, offset : Nat, count : Nat, size : Sizes]
        /\ want'.offset = offset /\ want'.count = count
    BY DEF StartRead
  <1>2. out' = << >> /\ out' \in Seq(Contents) /\ Len(out') = 0 /\ f_pos' = offset /\ pc' = "bread"
    BY DEF StartRead
  <1>3. Shapes'
    BY <1>1, <1>2 DEF Shapes
  <1>4. request = "none"
    BY DEF HandOverInv
  <1> QED BY <1>1, <1>2, <1>3, <1>4 DEF HandOverInv, ReadingInv

\* Opening and closing a device, setting its block size, beginning a read.
LEMMA FileSteps ==
    ASSUME BufferInv,
           \/ need_device \/ set_blocksize \/ device_close
           \/ \E d \in Devices : device_open(d)
           \/ \E r \in Reads : device_read(r[1], r[2], r[3])
    PROVE  BufferInv'
  <1> USE DEF BufferInv
  <1>1. CASE need_device
    <2>1. CASE Disks = {}
      BY <1>1, <2>1 DEF need_device, Shapes, HandOverInv, ReadingInv, buffer
    <2>2. CASE Disks # {}
      <3>1. PICK d \in Disks : StartRead(d, 0, BLOCK, BLOCK)
        BY <1>1, <2>2 DEF need_device
      <3>2. d \in Devices /\ BLOCK \in Nat \ {0} /\ BLOCK \in Sizes /\ 0 \in Nat
        BY BlockIOAssumption DEF Sizes
      <3>3. pc = "idle" /\ UNCHANGED <<blksize, rdev, buffer, request>> /\ inited' \in BOOLEAN
        BY <1>1 DEF need_device
      <3> QED BY <3>1, <3>2, <3>3, StartReadStep
    <2> QED BY <2>1, <2>2
  <1>2. CASE set_blocksize
    BY <1>2, SizesNat DEF set_blocksize, Shapes, HandOverInv, ReadingInv, buffer
  <1>3. CASE device_close
    BY <1>3 DEF device_close, Shapes, HandOverInv, ReadingInv, buffer
  <1>4. ASSUME NEW d \in Devices, device_open(d) PROVE BufferInv'
    BY <1>4, SizesNat DEF device_open, Shapes, HandOverInv, ReadingInv, buffer
  <1>5. ASSUME NEW r \in Reads, device_read(r[1], r[2], r[3]) PROVE BufferInv'
    <2>1. r[1] \in Nat /\ r[2] \in Nat \ {0} /\ r[3] \in Sizes
      BY BlockIOAssumption
    <2>2. rdev \in Devices
      BY <1>5 DEF device_read, Shapes
    <2>3. /\ pc = "idle" /\ StartRead(rdev, r[1], r[2], r[3])
          /\ UNCHANGED <<blksize, rdev, buffer, request>> /\ inited' \in BOOLEAN
      BY <1>5 DEF device_read, Shapes, file
    <2> QED BY <2>1, <2>2, <2>3, StartReadStep
  <1> QED BY <1>1, <1>2, <1>3, <1>4, <1>5

\* What bread leaves: a locked buffer for the block at f_pos, cleared.
LEMMA BreadEffect ==
    ASSUME BufferInv, bread
    PROVE  /\ pc' = "wait" /\ request' = "plugged"
           /\ bh' \in BufferHeads /\ bh'.lock /\ ~bh'.uptodate
           /\ bh'.dev = want.dev /\ bh'.size = want.size /\ bh'.block = f_pos \div want.size
           /\ data' \in [Cells -> Contents]
           /\ IF room = 0 THEN room' \in Rooms(want.size) ELSE room' = room
           /\ UNCHANGED <<file, want, f_pos, out>>
  <1> DEFINE block == f_pos \div want.size
  <1> DEFINE new == NewHead(want.dev, block, want.size)
  <1>1. want.dev \in Devices \cup {NoDevice} /\ want.size \in Sizes /\ block \in Nat
    BY DivMod, Types DEF BufferInv
  <1>2. new \in BufferHeads /\ ~new.uptodate /\ new.dev = want.dev /\ new.block = block
        /\ new.size = want.size
    BY <1>1 DEF NewHead, BufferHeads
  <1>3. bh' = [new EXCEPT !.lock = ~new.uptodate]
    BY DEF bread
  <1>4. (new.uptodate => pc' = "copy") /\ (~new.uptodate => pc' = "wait" /\ request' = "plugged")
    BY DEF bread
  <1> HIDE DEF new
  <1>5. bh' \in BufferHeads /\ bh'.lock /\ ~bh'.uptodate
        /\ bh'.dev = want.dev /\ bh'.size = want.size /\ bh'.block = block
    BY <1>2, <1>3 DEF BufferHeads
  <1>6. Zero \in Contents
    BY DEF Zero, Contents
  <1>7. data' \in [Cells -> Contents]
    BY <1>6 DEF bread, getblk, BufferInv, Shapes
  <1> QED BY <1>2, <1>4, <1>5, <1>7 DEF bread, getblk

LEMMA BreadStep == BufferInv /\ bread => BufferInv'
  <1> SUFFICES ASSUME BufferInv, bread PROVE BufferInv'
    OBVIOUS
  <1>1. room' \in Nat
    <2>1. Rooms(want.size) \subseteq Nat
      BY Types DEF Rooms, BufferInv
    <2> QED BY <2>1, BreadEffect DEF BufferInv, Shapes
  <1>2. pc = "bread"
    BY DEF bread
  <1> QED BY <1>1, <1>2, BreadEffect DEF BufferInv, Shapes, HandOverInv, ReadingInv, file

LEMMA WaitStep == BufferInv /\ wait_on_buffer => BufferInv'
  BY DEF wait_on_buffer, BufferInv, Shapes, HandOverInv, ReadingInv, file, buffer

LEMMA BreadReturnsStep == BufferInv /\ bread_returns => BufferInv'
  BY DEF bread_returns, Unlocked, BufferInv, Shapes, HandOverInv, ReadingInv, file, buffer

\* The interrupt writes the whole block or nothing.
LEMMA EndIOEffect ==
    ASSUME BufferInv, NEW ok \in BOOLEAN, buffer_end_io(ok)
    PROVE  /\ pc = "wait" /\ bh.lock /\ request' = "none"
           /\ bh' \in BufferHeads /\ ~bh'.lock /\ bh'.uptodate = ok
           /\ bh'.dev = bh.dev /\ bh'.size = bh.size /\ bh'.block = bh.block
           /\ data' \in [Cells -> Contents]
           /\ ok => \A c \in Cells : c < bh.size => data'[c] = <<bh.dev, bh.block * bh.size + c>>
           /\ UNCHANGED <<file, pc, want, f_pos, out, room>>
  <1>1. pc = "wait" /\ bh.lock
    BY DEF buffer_end_io, BufferInv, HandOverInv
  <1>2. bh \in BufferHeads /\ bh' = [bh EXCEPT !.uptodate = ok, !.lock = FALSE]
    BY DEF buffer_end_io, BufferInv, Shapes
  <1>3. bh' \in BufferHeads /\ ~bh'.lock /\ bh'.uptodate = ok
        /\ bh'.dev = bh.dev /\ bh'.size = bh.size /\ bh'.block = bh.block
    BY <1>2 DEF BufferHeads
  <1>4. bh.dev \in Devices \cup {NoDevice} /\ bh.size \in Nat /\ bh.block \in Nat
    BY <1>2, SizesNat DEF BufferHeads
  <1>5. \A c \in Cells : <<bh.dev, bh.block * bh.size + c>> \in Contents
    BY <1>4, SizesNat DEF Contents
  <1>6. data' \in [Cells -> Contents]
    BY <1>5 DEF buffer_end_io, BufferInv, Shapes
  <1>7. ok => \A c \in Cells : c < bh.size => data'[c] = <<bh.dev, bh.block * bh.size + c>>
    BY DEF buffer_end_io
  <1> QED BY <1>1, <1>3, <1>6, <1>7 DEF buffer_end_io

LEMMA EndIOStep ==
    ASSUME BufferInv, NEW ok \in BOOLEAN, buffer_end_io(ok)
    PROVE  BufferInv'
  BY EndIOEffect DEF BufferInv, Shapes, HandOverInv, ReadingInv, file

\* What block_read appends.
LEMMA BlockReadEffect ==
    ASSUME BufferInv, block_read
    PROVE  LET Piece(i) == IF Skip + i - 1 \in Cells THEN data[Skip + i - 1] ELSE Junk
           IN  /\ out' \in Seq(Contents) /\ Len(out') = Len(out) + Amount
               /\ \A i \in 1 .. Len(out) : out'[i] = out[i]
               /\ \A i \in 1 .. Amount : out'[Len(out) + i] = Piece(i)
  <1> DEFINE Piece(i) == IF Skip + i - 1 \in Cells THEN data[Skip + i - 1] ELSE Junk
  <1> DEFINE more == [i \in 1 .. Amount |-> Piece(i)]
  <1>1. pc = "copy" /\ out' = out \o more
    BY DEF block_read
  <1>2. Amount \in Nat
    BY <1>1, AmountRange
  <1>3. Junk \in Contents
    BY DEF Junk, Contents
  <1>4. \A i \in 1 .. Amount : Piece(i) \in Contents
    BY <1>3 DEF BufferInv, Shapes
  <1> HIDE DEF Piece
  <1>5. more \in Seq(Contents) /\ Len(more) = Amount /\ \A i \in 1 .. Amount : more[i] = Piece(i)
    BY <1>2, <1>4
  <1>6. out \in Seq(Contents)
    BY DEF BufferInv, Shapes
  <1> HIDE DEF more
  <1>7. /\ out' \in Seq(Contents) /\ Len(out') = Len(out) + Amount
        /\ \A i \in 1 .. Len(out) : out'[i] = out[i]
        /\ \A i \in 1 .. Amount : out'[Len(out) + i] = more[i]
    <2>1. /\ out \o more \in Seq(Contents) /\ Len(out \o more) = Len(out) + Len(more)
          /\ \A i \in 1 .. Len(out) : (out \o more)[i] = out[i]
          /\ \A i \in 1 .. Len(more) : (out \o more)[Len(out) + i] = more[i]
      <3>1. ASSUME NEW s \in Seq(Contents), NEW t \in Seq(Contents)
            PROVE  /\ s \o t \in Seq(Contents) /\ Len(s \o t) = Len(s) + Len(t)
                   /\ \A i \in 1 .. Len(s) : (s \o t)[i] = s[i]
                   /\ \A i \in 1 .. Len(t) : (s \o t)[Len(s) + i] = t[i]
        BY Joined
      <3>2. more \in Seq(Contents)
        BY <1>5
      <3> QED BY <1>6, <3>1, <3>2, Zenon
    <2> QED BY <1>1, <1>5, <2>1
  <1> QED BY <1>5, <1>7 DEF Piece

LEMMA BlockReadStep == BufferInv /\ block_read => BufferInv'
  <1> SUFFICES ASSUME BufferInv, block_read PROVE BufferInv'
    OBVIOUS
  <1>1. /\ pc = "copy" /\ f_pos' = f_pos + Amount
        /\ pc' = IF Len(out) + Amount = want.count THEN "idle" ELSE "bread"
        /\ UNCHANGED <<file, want, buffer, request>>
    BY DEF block_read
  <1>2. Amount \in Nat \ {0} /\ Amount <= want.count - Len(out) /\ Len(out) \in Nat
    BY <1>1, AmountRange
  <1>3. out' \in Seq(Contents) /\ Len(out') = Len(out) + Amount
    BY BlockReadEffect
  <1>4. want.offset \in Nat /\ want.count \in Nat /\ f_pos = want.offset + Len(out)
        /\ request = "none"
    BY <1>1 DEF BufferInv, Shapes, ReadingInv, HandOverInv
  <1>5. f_pos' \in 0 .. (want.offset + want.count) /\ Len(out') <= want.count
        /\ f_pos' = want.offset + Len(out') /\ (pc' # "idle" => Len(out') < want.count)
        /\ (pc' = "idle" => want.count = Len(out'))
    <2>1. (pc' = "idle") <=> Len(out) + Amount = want.count
      BY <1>1
    <2>2. Len(out') = Len(out) + Amount /\ f_pos' = f_pos + Amount
      BY <1>1, <1>3
    <2> DEFINE n == Len(out)
    <2> DEFINE m == Len(out')
    <2>3. n \in Nat /\ m = n + Amount /\ f_pos = want.offset + n /\ Amount <= want.count - n
          /\ (pc' = "idle" <=> n + Amount = want.count)
      BY <1>2, <1>4, <2>1, <2>2
    <2> HIDE DEF n, m
    <2>4. /\ f_pos' \in 0 .. (want.offset + want.count) /\ m <= want.count
          /\ f_pos' = want.offset + m
          /\ m # want.count => m < want.count
      <3>1. /\ (want.offset + n) + Amount \in 0 .. (want.offset + want.count)
            /\ n + Amount <= want.count
            /\ (want.offset + n) + Amount = want.offset + (n + Amount)
            /\ n + Amount # want.count => n + Amount < want.count
        <4> DEFINE o == want.offset
                   k == want.count
                   a == Amount
        <4>1. o \in Nat /\ k \in Nat /\ n \in Nat /\ a \in Nat \ {0} /\ a <= k - n
          BY <1>2, <1>4, <2>3
        <4> HIDE DEF o, k, a
        <4>2. /\ (o + n) + a \in 0 .. (o + k) /\ n + a <= k
              /\ (o + n) + a = o + (n + a) /\ (n + a # k => n + a < k)
          BY <4>1, Advance
        <4> QED BY <4>2 DEF o, k, a
      <3>2. f_pos' = (want.offset + n) + Amount
        BY <2>2, <2>3
      <3> QED BY <2>3, <3>1, <3>2, Zenon
    <2> QED BY <2>3, <2>4 DEF m
  <1> QED BY <1>1, <1>3, <1>4, <1>5 DEF BufferInv, Shapes, HandOverInv, ReadingInv, file, buffer

LEMMA NextBuffer == BufferInv /\ [Next]_vars => BufferInv'
  <1> SUFFICES ASSUME BufferInv, [Next]_vars PROVE BufferInv'
    OBVIOUS
  <1>1. CASE UNCHANGED vars
    BY <1>1 DEF vars, BufferInv, Shapes, HandOverInv, ReadingInv
  <1>2. CASE Reader
    BY <1>2, BreadStep, WaitStep, BreadReturnsStep, BlockReadStep DEF Reader
  <1>3. CASE Interrupt
    BY <1>3, EndIOStep DEF Interrupt
  <1> QED BY <1>1, <1>2, <1>3, FileSteps DEF Next

-----------------------------------------------------------------------------
(* The same for what reads return, under ReadsFit. *)

\* Every action that leaves the reader idle keeps what the last read returned.
LEMMA IdleRead ==
    ASSUME ReadInv, pc' = "idle", UNCHANGED <<want, out>>
    PROVE  ReadInv'
  BY DEF ReadInv, AlignedInv, FilledInv, Prefixed

LEMMA StartRead_Read ==
    ASSUME NEW d \in Devices, NEW offset \in Nat, NEW count \in Nat \ {0},
           NEW size \in Sizes, StartRead(d, offset, count, size), Fits(offset, count, size)
    PROVE  ReadInv'
  <1>1. out' = << >> /\ Len(out') = 0 /\ pc' = "bread"
    BY DEF StartRead
  <1>2. Fits(want'.offset, want'.count, want'.size)
    BY DEF StartRead
  <1>3. AlignedInv'
    BY <1>1, <1>2 DEF AlignedInv, Fits
  <1> QED BY <1>1, <1>3 DEF ReadInv, FilledInv, Prefixed

LEMMA FileRead ==
    ASSUME ReadsFit, BufferInv, ReadInv,
           \/ need_device \/ set_blocksize \/ device_close
           \/ \E d \in Devices : device_open(d)
           \/ \E r \in Reads : device_read(r[1], r[2], r[3])
    PROVE  ReadInv'
  <1>1. CASE need_device
    <2>1. CASE Disks = {}
      BY <1>1, <2>1, IdleRead DEF need_device
    <2>2. CASE Disks # {}
      <3>1. PICK d \in Disks : StartRead(d, 0, BLOCK, BLOCK)
        BY <1>1, <2>2 DEF need_device
      <3>2. d \in Devices /\ BLOCK \in Nat \ {0} /\ BLOCK \in Sizes /\ 0 \in Nat
        BY BlockIOAssumption DEF Sizes
      <3>3. Fits(0, BLOCK, BLOCK)
        BY <3>2 DEF Fits
      <3> QED BY <3>1, <3>2, <3>3, StartRead_Read
    <2> QED BY <2>1, <2>2
  <1>2. CASE set_blocksize
    BY <1>2, IdleRead DEF set_blocksize
  <1>3. CASE device_close
    BY <1>3, IdleRead DEF device_close
  <1>4. ASSUME NEW d \in Devices, device_open(d) PROVE ReadInv'
    BY <1>4, IdleRead DEF device_open
  <1>5. ASSUME NEW r \in Reads, device_read(r[1], r[2], r[3]) PROVE ReadInv'
    <2>1. r[1] \in Nat /\ r[2] \in Nat \ {0} /\ r[3] \in Sizes
      BY BlockIOAssumption
    <2>2. rdev \in Devices
      BY <1>5 DEF device_read, BufferInv, Shapes
    <2>3. StartRead(rdev, r[1], r[2], r[3]) /\ Fits(r[1], r[2], r[3])
      BY <1>5 DEF device_read, ReadsFit
    <2> QED BY <2>1, <2>2, <2>3, StartRead_Read
  <1> QED BY <1>1, <1>2, <1>3, <1>4, <1>5

LEMMA BreadRead == BufferInv /\ ReadInv /\ bread => ReadInv'
  <1> SUFFICES ASSUME BufferInv, ReadInv, bread PROVE ReadInv'
    OBVIOUS
  <1>1. pc = "bread"
    BY DEF bread
  <1> QED BY <1>1, BreadEffect DEF ReadInv, AlignedInv, FilledInv, Prefixed

LEMMA WaitRead == ReadInv /\ wait_on_buffer => ReadInv'
  BY DEF wait_on_buffer, ReadInv, AlignedInv, FilledInv, Prefixed, buffer

LEMMA BreadReturnsRead == ReadInv /\ bread_returns => ReadInv'
  BY DEF bread_returns, ReadInv, AlignedInv, FilledInv, Prefixed, buffer

LEMMA EndIORead ==
    ASSUME BufferInv, ReadInv, NEW ok \in BOOLEAN, buffer_end_io(ok)
    PROVE  ReadInv'
  BY EndIOEffect DEF ReadInv, AlignedInv, FilledInv, Prefixed

\* The cells block_read copies: from f_pos on, inside the block.
LEMMA CopyRange ==
    ASSUME BufferInv, ReadInv, pc = "copy"
    PROVE  /\ Skip \in Nat /\ Skip + Amount <= want.size
           /\ bh.block * want.size + Skip = f_pos
           /\ bh.block * want.size \in Nat
           /\ Amount = want.size => f_pos % want.size = 0
  <1> DEFINE size == want.size
  <1> DEFINE r == f_pos % want.size
  <1> DEFINE n == Len(out)
  <1>1. size \in Nat \ {0} /\ f_pos \in Nat /\ want.count \in Nat /\ n \in Nat
    BY Types DEF BufferInv
  <1>2. bh.block = f_pos \div size
    BY DEF ReadInv, FilledInv
  <1>3. bh.block \in Nat /\ r \in 0 .. (size - 1) /\ f_pos = size * bh.block + r
    BY <1>1, <1>2, DivMod
  <1>4. bh.block * size = size * bh.block /\ bh.block * size \in Nat
    BY <1>1, <1>3, Product
  <1>5. /\ Amount \in Nat \ {0} /\ Amount <= size /\ Amount <= want.count - n
    BY AmountRange
  <1>6. CASE out # << >>
    <2>1. r = 0
      BY <1>6 DEF ReadInv, AlignedInv
    <2>2. Skip = 0
      BY <1>6 DEF Skip
    <2> DEFINE start == bh.block * size
    <2> HIDE DEF r, size
    <2>4. start \in Nat /\ f_pos = start + r
      BY <1>3, <1>4
    <2> HIDE DEF start
    <2>5. start + Skip = f_pos /\ Skip + Amount <= size
      BY <1>5, <2>1, <2>2, <2>4
    <2>3. bh.block * size + Skip = f_pos /\ Skip + Amount <= size
      BY <2>5 DEF start
    <2> QED BY <1>4, <2>1, <2>2, <2>3 DEF size, r
  <1>7. CASE out = << >>
    <2>1. n = 0 /\ f_pos = want.offset
      <3>1. n = 0
        BY <1>7
      <3>2. want.offset \in Nat /\ f_pos = want.offset + n
        BY Types DEF BufferInv, ReadingInv
      <3> QED BY <3>1, <3>2
    <2>2. Skip = f_pos - bh.block * size
      BY <1>7 DEF Skip
    <2>3. r = 0 \/ r + want.count <= size
      BY <2>1 DEF ReadInv, AlignedInv, Fits
    <2> HIDE DEF r, size, n
    <2>4. Skip = r
      BY <1>1, <1>3, <1>4, <2>2
    <2>5. Skip \in Nat /\ Skip + Amount <= size /\ (Amount = size => r = 0)
      BY <1>1, <1>3, <1>5, <2>1, <2>3, <2>4
    <2>6. bh.block * size + Skip = f_pos
      BY <1>3, <1>4, <2>4
    <2> QED BY <1>4, <2>5, <2>6 DEF size, r
  <1> QED BY <1>6, <1>7

LEMMA BlockReadRead == BufferInv /\ ReadInv /\ block_read => ReadInv'
  <1> SUFFICES ASSUME BufferInv, ReadInv, block_read PROVE ReadInv'
    OBVIOUS
  <1> DEFINE Piece(i) == IF Skip + i - 1 \in Cells THEN data[Skip + i - 1] ELSE Junk
  <1> DEFINE n == Len(out)
  <1> DEFINE start == bh.block * want.size
  <1>1. /\ pc = "copy" /\ f_pos' = f_pos + Amount
        /\ pc' = IF n + Amount = want.count THEN "idle" ELSE "bread"
        /\ UNCHANGED <<want, buffer>>
    BY DEF block_read
  <1>2. /\ Amount \in Nat \ {0} /\ n \in Nat
        /\ Amount = want.size \/ Amount = want.count - n
    BY <1>1, AmountRange
  <1>3. /\ Skip \in Nat /\ Skip + Amount <= want.size /\ start + Skip = f_pos /\ start \in Nat
        /\ Amount = want.size => f_pos % want.size = 0
    BY <1>1, CopyRange
  <1>4. /\ Len(out') = n + Amount
        /\ \A i \in 1 .. n : out'[i] = out[i]
        /\ \A i \in 1 .. Amount : out'[n + i] = Piece(i)
    BY BlockReadEffect
  <1>5. /\ want.size \in Nat \ {0} /\ want.size \in Sizes /\ want.offset \in Nat
        /\ want.count \in Nat /\ f_pos \in Nat /\ f_pos = want.offset + n
    BY <1>1, Types DEF BufferInv, ReadingInv
  <1>6. ASSUME NEW i \in 1 .. Amount PROVE Piece(i) = <<want.dev, want.offset + (n + i) - 1>>
    <2> DEFINE c == Skip + i - 1
    <2>1. c \in 0 .. (want.size - 1)
      BY <1>2, <1>3, <1>5
    <2>2. c \in Cells /\ c < want.size
      BY <1>5, <2>1, SizesNat
    <2>3. Piece(i) = data[c]
      BY <2>2
    <2>4. bh.uptodate
      BY <1>1 DEF BufferInv, HandOverInv
    <2>5. data[c] = <<want.dev, start + c>>
      BY <1>1, <2>2, <2>4 DEF ReadInv, FilledInv
    <2> HIDE DEF start, n
    <2>6. start + c = want.offset + (n + i) - 1
      BY <1>2, <1>3, <1>5
    <2> QED BY <2>3, <2>5, <2>6
  <1>7. Prefixed'
    <2> SUFFICES ASSUME NEW j \in 1 .. Len(out')
                 PROVE  out'[j] = <<want.dev, want.offset + j - 1>>
      BY <1>1 DEF Prefixed
    <2>1. CASE j \in 1 .. n
      BY <1>4, <2>1 DEF ReadInv, Prefixed
    <2>2. CASE j \notin 1 .. n
      <3> DEFINE i == j - n
      <3> HIDE DEF n
      <3>1. i \in 1 .. Amount /\ n + i = j
        BY <1>2, <1>4, <2>2
      <3> HIDE DEF Piece, i
      <3>2. out'[n + i] = Piece(i)
        BY <1>4, <3>1
      <3>3. Piece(i) = <<want.dev, want.offset + (n + i) - 1>>
        BY <1>6, <3>1
      <3>4. out'[j] = <<want.dev, want.offset + (n + i) - 1>>
        BY <3>1, <3>2, <3>3
      <3> QED BY <3>1, <3>4
    <2> QED BY <2>1, <2>2
  <1>8. AlignedInv'
    <2>1. CASE pc' = "idle"
      BY <2>1 DEF AlignedInv
    <2>2. CASE pc' # "idle"
      <3>1. n + Amount # want.count
        BY <1>1, <2>2
      <3> HIDE DEF n
      <3>2. Amount = want.size
        BY <1>2, <1>5, <3>1
      <3>3. (f_pos + want.size) % want.size = 0
        BY <1>3, <1>5, <3>2, BlockAfter
      <3>4. Fits(want.offset, want.count, want.size)
        BY <1>1 DEF ReadInv, AlignedInv
      <3> QED BY <1>1, <3>2, <3>3, <3>4 DEF AlignedInv, Fits
    <2> QED BY <2>1, <2>2
  <1>9. FilledInv'
    BY <1>1 DEF FilledInv
  <1> QED BY <1>7, <1>8, <1>9 DEF ReadInv

LEMMA NextRead == ReadsFit /\ BufferInv /\ ReadInv /\ [Next]_vars => ReadInv'
  <1> SUFFICES ASSUME ReadsFit, BufferInv, ReadInv, [Next]_vars PROVE ReadInv'
    OBVIOUS
  <1>1. CASE UNCHANGED vars
    BY <1>1 DEF vars, ReadInv, AlignedInv, FilledInv, Prefixed
  <1>2. CASE Reader
    BY <1>2, BreadRead, WaitRead, BreadReturnsRead, BlockReadRead DEF Reader
  <1>3. CASE Interrupt
    BY <1>3, EndIORead DEF Interrupt
  <1> QED BY <1>1, <1>2, <1>3, FileRead DEF Next

-----------------------------------------------------------------------------
(* The buffer's room, when a disk is read at start-up. *)

LEMMA BreadRoom == BufferInv /\ RoomInv /\ bread => RoomInv'
  <1> SUFFICES ASSUME BufferInv, RoomInv, bread PROVE RoomInv'
    OBVIOUS
  <1>1. pc = "bread" /\ inited
    BY DEF bread, RoomInv
  <1>2. inited' = inited /\ (IF room = 0 THEN room' \in Rooms(want.size) ELSE room' = room)
    BY BreadEffect DEF file
  <1>3. BLOCK \in Nat \ {0}
    BY BlockIOAssumption
  <1>4. CASE room = 0
    <2>1. want.size = BLOCK
      BY <1>1, <1>4 DEF RoomInv
    <2>2. room' \in BLOCK .. (2 * BLOCK - 1)
      BY <1>2, <1>4, <2>1 DEF Rooms
    <2>3. room' # 0 /\ BLOCK <= room'
      BY <1>3, <2>2
    <2> QED BY <1>1, <1>2, <2>3 DEF RoomInv
  <1>5. CASE room # 0
    BY <1>1, <1>2, <1>5 DEF RoomInv
  <1> QED BY <1>4, <1>5

LEMMA NextRoom == Disks # {} /\ BufferInv /\ RoomInv /\ [Next]_vars => RoomInv'
  <1> SUFFICES ASSUME Disks # {}, BufferInv, RoomInv, [Next]_vars PROVE RoomInv'
    OBVIOUS
  <1>1. CASE UNCHANGED vars
    BY <1>1 DEF vars, RoomInv
  <1>2. CASE need_device
    BY <1>2 DEF need_device, StartRead, RoomInv, buffer
  <1>3. CASE set_blocksize \/ device_close
    BY <1>3 DEF set_blocksize, device_close, RoomInv, buffer
  <1>4. ASSUME NEW d \in Devices, device_open(d) PROVE RoomInv'
    BY <1>4 DEF device_open, RoomInv, buffer
  <1>5. ASSUME NEW r \in Reads, device_read(r[1], r[2], r[3]) PROVE RoomInv'
    BY <1>5 DEF device_read, StartRead, RoomInv, buffer, file
  <1>6. CASE bread
    BY <1>6, BreadRoom
  <1>7. CASE wait_on_buffer
    BY <1>7 DEF wait_on_buffer, RoomInv, buffer, file
  <1>8. CASE bread_returns
    BY <1>8 DEF bread_returns, RoomInv, buffer, file
  <1>9. CASE block_read
    BY <1>9 DEF block_read, RoomInv, buffer, file
  <1>10. ASSUME NEW ok \in BOOLEAN, buffer_end_io(ok) PROVE RoomInv'
    BY <1>10, EndIOEffect DEF RoomInv, BufferInv, Shapes, file
  <1> QED BY <1>1, <1>2, <1>3, <1>4, <1>5, <1>6, <1>7, <1>8, <1>9, <1>10
           DEF Next, Reader, Interrupt

-----------------------------------------------------------------------------
(* The theorems. *)

LEMMA BufferAlways == Spec => []BufferInv
  <1>1. Init => BufferInv
    BY InitBuffer
  <1>2. BufferInv /\ [Next]_vars => BufferInv'
    BY NextBuffer
  <1> QED BY <1>1, <1>2, PTL DEF Spec

\* Whatever is read and however the driver answers, the reader, its one
\* buffer head and its buffer keep their types (devices.c: bread, block_read).
THEOREM BlockIOCorrect == Spec => []TypeOK
  <1>1. BufferInv => TypeOK
    BY Types DEF BufferInv, Shapes, TypeOK
  <1> QED BY <1>1, BufferAlways, PTL

\* An outstanding request has a reader waiting for it: the driver never
\* writes to a buffer that bread has since given to another read
\* (bread, wait_on_buffer and buffer_end_io).
THEOREM OneReadAtATime == Spec => []OneRequest
  <1>1. BufferInv => OneRequest
    BY DEF BufferInv, HandOverInv, OneRequest
  <1> QED BY <1>1, BufferAlways, PTL

\* What block_read has copied out is the cells asked for, and all of them
\* unless the device failed, when the callers' reads stay in one block or
\* start at one.
THEOREM ReadsAreExact == ReadsFit => (Spec => []ReadsExact)
  <1> SUFFICES ASSUME ReadsFit PROVE Spec => []ReadsExact
    OBVIOUS
  <1>1. Init => ReadInv
    BY DEF Init, ReadInv, AlignedInv, FilledInv, Prefixed
  <1>2. BufferInv /\ ReadInv /\ [Next]_vars => ReadInv'
    BY NextRead
  <1>3. BufferInv /\ ReadInv => ReadsExact
    BY DEF BufferInv, HandOverInv, ReadInv, Prefixed, ReadsExact
  <1>4. BufferInv /\ [Next]_vars => BufferInv'
    BY NextBuffer
  <1> QED BY <1>1, <1>2, <1>3, BufferAlways, PTL DEF Spec

\* A block fits the allocation that getblk made at the first read, because
\* the partition tables are read first, in blocks of the largest size.
THEOREM BlocksFitTheBuffer == Disks # {} => (Spec => []BufferHoldsBlock)
  <1> SUFFICES ASSUME Disks # {} PROVE Spec => []BufferHoldsBlock
    OBVIOUS
  <1>1. Init => RoomInv
    BY DEF Init, RoomInv
  <1>2. BufferInv /\ RoomInv /\ [Next]_vars => RoomInv'
    BY NextRoom
  <1>3. BufferInv /\ RoomInv => BufferHoldsBlock
    <2> SUFFICES ASSUME BufferInv, RoomInv PROVE bh.size <= room
      BY DEF BufferHoldsBlock
    <2>1. bh \in BufferHeads /\ room \in Nat
      BY DEF BufferInv, Shapes
    <2>2. bh.size \in Sizes \cup {0}
      BY <2>1 DEF BufferHeads
    <2>3. bh.size \in Nat /\ bh.size <= BLOCK /\ BLOCK \in Nat
      <3> DEFINE n == bh.size
      <3>1. n \in {SECTOR, BLOCK, 0}
        BY <2>2 DEF Sizes
      <3>2. SECTOR \in Nat /\ BLOCK \in Nat /\ SECTOR <= BLOCK
        BY BlockIOAssumption
      <3> HIDE DEF n
      <3>3. n \in Nat /\ n <= BLOCK
        BY <3>1, <3>2
      <3> QED BY <3>2, <3>3 DEF n
    <2>4. (room = 0 => bh.size = 0) /\ (room # 0 => BLOCK <= room)
      BY DEF RoomInv
    <2> QED BY <2>1, <2>3, <2>4
  <1> QED BY <1>1, <1>2, <1>3, BufferAlways, PTL DEF Spec

-----------------------------------------------------------------------------
(* The file systems: the invariant of the commands and of the caches, and  *)
(* the blocks that the pointers on a disk lead to.                         *)

Waiting == {"idle", "hung", "crashed"}      \* not working on a disk

\* A command that is working has a disk to work on.
Fine(c) ==
    /\ DOMAIN c = DOMAIN Idle /\ c.n \in Nat
    /\ c.pc \notin Waiting => c.disk \in Disk

BlockOn(d, b) == IF b \in DOMAIN Image[d].block THEN Image[d].block[b] ELSE Zeros

\* A cache holds a block as some disk has it, under its number there.
FromDisk(cache) == cache.no # -1 => \E d \in Disk : cache.buf = BlockOn(d, cache.no)

FilesInv == Fine(call) /\ FromDisk(icache) /\ FromDisk(dicache)

OneDisk == \A d, e \in Disk : d = e

\* The block of the disk that the pointers on the disk lead to.
IndirectBlock(no, i) == IF no = 0 THEN 0 ELSE Pointer(Block(no), i)

DoubleBlock(no, i) ==
    IF no = 0 THEN 0
    ELSE IndirectBlock(Pointer(Block(no), i \div ptrs_per_blk), i % ptrs_per_blk)

MappedBlock(ip, off) ==
    IF off <= directlim THEN ip.block[off]
    ELSE IF off <= ind1lim THEN IndirectBlock(ip.block[EXT2_IND_BLOCK], off - (directlim + 1))
    ELSE IF off <= ind2lim THEN DoubleBlock(ip.block[EXT2_DIND_BLOCK], off - (ind1lim + 1))
    ELSE 0

MappedContents(ip, off) == IF MappedBlock(ip, off) = 0 THEN Zeros ELSE Block(MappedBlock(ip, off))

\* Block numbers on a disk are unsigned: none is the -1 of an empty cache.
Unsigned(ip, off) ==
    /\ ip.block[EXT2_IND_BLOCK] # -1 /\ ip.block[EXT2_DIND_BLOCK] # -1
    /\ off \in (ind1lim + 1) .. ind2lim =>
         Pointer(Block(ip.block[EXT2_DIND_BLOCK]), (off - (ind1lim + 1)) \div ptrs_per_blk) # -1

Exact(buf, slot, n) ==
    Unsigned(inode_table[slot].inode, n) => buf = MappedContents(inode_table[slot].inode, n)

\* With true caches, a step during which no read fails gets the block of the
\* disk that the pointers on that disk name: for a file's block n, for block n
\* of a directory that is searched or listed, for the text of a long link.
ReadsFollowInode ==
    [][call.disk \in Disk /\ CachesTrue /\ call'.clean =>
        /\ ext2_bread => Exact(call'.out, call.fd, call.n)
        /\ SearchDirectory => Exact(blkbuf', call.dir, call.n)
        /\ ext2_ls_block => Exact(blkbuf', call.fd, call.n)
        /\ FollowSlowInside => Exact(blkbuf', call.file, 0)]_files_vars

-----------------------------------------------------------------------------
(* Where a command goes: it stays on its disk until it is over. *)

LEMMA Fields ==
    DOMAIN Idle = {"pc", "op", "disk", "auto", "fs", "path", "names", "dir", "file", "links",
                   "fd", "n", "out", "clean"}
  BY DEF Idle

LEMMA IdleFine ==
    /\ Fine(Idle)
    /\ Fine([Idle EXCEPT !.pc = "hung"]) /\ Fine([Idle EXCEPT !.pc = "crashed"])
  BY DEF Fine, Idle, Waiting

LEMMA DoneFine == ASSUME NEW c PROVE Fine(Done(c))
  BY DEF Done, Fine, Idle, Waiting

LEMMA FoundFine ==
    ASSUME NEW c, NEW slot, Fine(c), c.disk \in Disk
    PROVE  Fine(Found(c, slot))
  <1> DEFINE d == [c EXCEPT !.fd = slot, !.n = 0]
  <1>1. DOMAIN d = DOMAIN Idle /\ d.n \in Nat /\ d.disk \in Disk
    BY Fields DEF Fine
  <1>2. Fine([d EXCEPT !.pc = AfterFound[c.op], !.out = IF c.op = "ls" THEN Names(<<>>) ELSE @])
    BY <1>1, Fields DEF Fine
  <1>3. Fine([d EXCEPT !.pc = "open", !.path = OtherConfigPath])
    BY <1>1, Fields DEF Fine
  <1>4. Fine([d EXCEPT !.pc = "close"])
    BY <1>1, Fields DEF Fine
  <1> HIDE DEF d
  <1>5. Fine(Done(c)) BY DoneFine
  <1>6. Found(c, slot) \in
            { [d EXCEPT !.pc = AfterFound[c.op], !.out = IF c.op = "ls" THEN Names(<<>>) ELSE @],
              [d EXCEPT !.pc = "open", !.path = OtherConfigPath], [d EXCEPT !.pc = "close"], Done(c) }
    BY Zenon DEF Found, d
  <1> QED BY <1>2, <1>3, <1>4, <1>5, <1>6, Zenon

LEMMA GoOnFine ==
    ASSUME NEW bad, NEW c, Fine(c), GoOn(bad, c)
    PROVE  Fine(call) ' /\ call'.disk = c.disk
  BY Fields DEF GoOn, Fine

LEMMA GoOnClean ==
    ASSUME NEW bad, NEW c, Fine(c), GoOn(bad, c), call'.clean
    PROVE  bad = {}
  BY Fields DEF GoOn, Fine

-----------------------------------------------------------------------------
(* The caches change by being filled from the disk, and in no other way. *)

Refilled(new, old) == new = old \/ \E no : new = [no |-> no, buf |-> Block(no)]

LEMMA CachedRefills ==
    ASSUME NEW cache, NEW no, NEW bad
    PROVE  Refilled(Cached(cache, no, bad).cache, cache)
  BY DEF Cached, Refilled

\* What a call works on has the fields of Buffers.
IsBuffers(m) == DOMAIN m = {"icache", "dicache", "blkno", "buf"}

LEMMA BuffersShape ==
    ASSUME NEW buf
    PROVE  /\ IsBuffers(Buffers(buf))
           /\ Buffers(buf).icache = icache /\ Buffers(buf).dicache = dicache
           /\ Buffers(buf).buf = buf
  BY DEF Buffers, IsBuffers

LEMMA IndirectKeeps ==
    ASSUME NEW m, IsBuffers(m), NEW no, NEW i, NEW bad, NEW r, r = ThroughIndirect(m, no, i, bad)
    PROVE  /\ IsBuffers(r) /\ r.dicache = m.dicache /\ r.buf = m.buf
           /\ Refilled(r.icache, m.icache)
  <1> DEFINE c == Cached(m.icache, no, bad)
  <1>1. Refilled(c.cache, m.icache)
    BY CachedRefills
  <1> HIDE DEF c
  <1>2. CASE no = 0
    BY <1>2 DEF ThroughIndirect, IsBuffers, Refilled
  <1>3. CASE no # 0
    <2>1. r = TakePointer(m, c, i)
      BY <1>3 DEF ThroughIndirect, c
    <2>2. r.icache = c.cache
      BY <2>1 DEF TakePointer, IsBuffers
    <2>3. IsBuffers(r) /\ r.dicache = m.dicache /\ r.buf = m.buf
      BY <2>1 DEF TakePointer, IsBuffers
    <2> QED BY <1>1, <2>2, <2>3
  <1> QED BY <1>2, <1>3

LEMMA DoubleKeeps ==
    ASSUME NEW m, IsBuffers(m), NEW no, NEW i, NEW bad, NEW r, r = ThroughDouble(m, no, i, bad)
    PROVE  /\ IsBuffers(r) /\ r.buf = m.buf
           /\ Refilled(r.icache, m.icache) /\ Refilled(r.dicache, m.dicache)
  <1> DEFINE c == Cached(m.dicache, no, bad)
  <1>1. Refilled(c.cache, m.dicache)
    BY CachedRefills
  <1> HIDE DEF c
  <1> DEFINE n == [m EXCEPT !.dicache = c.cache]
  <1>2. IsBuffers(n) /\ n.dicache = c.cache /\ n.icache = m.icache /\ n.buf = m.buf
    BY DEF IsBuffers
  <1> HIDE DEF n
  <1>3. CASE no = 0
    BY <1>3 DEF ThroughDouble, IsBuffers, Refilled
  <1>4. CASE no # 0 /\ c.ok
    <2> DEFINE p == Pointer(c.cache.buf, i \div ptrs_per_blk)
               j == i % ptrs_per_blk
    <2>1. r = ThroughIndirect(n, p, j, bad)
      BY <1>4, Zenon DEF ThroughDouble, SecondLevel, c, n
    <2> HIDE DEF p, j
    <2>2. IsBuffers(r) /\ r.dicache = n.dicache /\ r.buf = n.buf /\ Refilled(r.icache, n.icache)
      BY <2>1, <1>2, IndirectKeeps
    <2> QED BY <1>1, <1>2, <2>2
  <1>5. CASE no # 0 /\ ~c.ok
    <2>1. r = [m EXCEPT !.dicache = c.cache, !.blkno = 0]
      BY <1>5, Zenon DEF ThroughDouble, SecondLevel, c
    <2>2. r.dicache = c.cache /\ r.icache = m.icache /\ r.buf = m.buf /\ IsBuffers(r)
      BY <2>1 DEF IsBuffers
    <2> QED BY <1>1, <2>2 DEF Refilled
  <1> QED BY <1>3, <1>4, <1>5

LEMMA BlknoKeeps ==
    ASSUME NEW m, IsBuffers(m), NEW ip, NEW off, NEW bad, NEW r, r = ext2_blkno(m, ip, off, bad)
    PROVE  /\ IsBuffers(r) /\ r.buf = m.buf
           /\ Refilled(r.icache, m.icache) /\ Refilled(r.dicache, m.dicache)
  <1>1. \A b : LET n == [m EXCEPT !.blkno = b]
               IN  /\ IsBuffers(n) /\ n.buf = m.buf
                   /\ n.icache = m.icache /\ n.dicache = m.dicache
    BY DEF IsBuffers
  <1>2. CASE \E b : r = [m EXCEPT !.blkno = b]
    BY <1>1, <1>2 DEF Refilled
  <1>3. CASE \E no, i : r = ThroughIndirect(m, no, i, bad)
    <2>1. PICK no, i : r = ThroughIndirect(m, no, i, bad)
      BY <1>3
    <2>2. IsBuffers(r) /\ r.dicache = m.dicache /\ r.buf = m.buf /\ Refilled(r.icache, m.icache)
      BY <2>1, IndirectKeeps
    <2> QED BY <2>2 DEF Refilled
  <1>4. CASE \E no, i : r = ThroughDouble(m, no, i, bad)
    <2>1. PICK no, i : r = ThroughDouble(m, no, i, bad)
      BY <1>4
    <2> QED BY <2>1, DoubleKeeps
  <1>5. (\E b : r = [m EXCEPT !.blkno = b]) \/ (\E no, i : r = ThroughIndirect(m, no, i, bad))
            \/ (\E no, i : r = ThroughDouble(m, no, i, bad))
    BY Zenon DEF ext2_blkno
  <1> QED BY <1>2, <1>3, <1>4, <1>5

LEMMA BreadiKeeps ==
    ASSUME NEW buf, NEW ip, NEW off, NEW bad, NEW m, m = ext2_breadi(Buffers(buf), ip, off, bad)
    PROVE  Refilled(m.icache, icache) /\ Refilled(m.dicache, dicache)
  <1> DEFINE r == ext2_blkno(Buffers(buf), ip, off, bad)
  <1>1. /\ IsBuffers(r)
        /\ Refilled(r.icache, icache) /\ Refilled(r.dicache, dicache)
    BY BlknoKeeps, BuffersShape
  <1>2. m = Fetched(r, bad)
    BY Zenon DEF ext2_breadi
  <1> HIDE DEF r
  <1>3. m.icache = r.icache /\ m.dicache = r.dicache
    BY <1>1, <1>2 DEF Fetched, IsBuffers
  <1> QED BY <1>1, <1>3

LEMMA KeepCachesRefills ==
    ASSUME NEW buf, NEW ip, NEW off, NEW bad,
           \E m \in {ext2_breadi(Buffers(buf), ip, off, bad)} : KeepCaches(m)
    PROVE  Refilled(icache', icache) /\ Refilled(dicache', dicache)
  BY BreadiKeeps DEF KeepCaches

LEMMA Ext2Refills ==
    ASSUME ext2_Next
    PROVE  Refilled(icache', icache) /\ Refilled(dicache', dicache)
  <1>1. CASE UNCHANGED <<icache, dicache>>
    BY <1>1 DEF Refilled
  <1>2. CASE ext2_mount \/ ext2_open \/ EnterDirectory \/ NotInDirectory \/ FollowInside
             \/ FollowLast \/ SearchEnds \/ ext2_ls_ends \/ ext2_close
    BY <1>1, <1>2, Zenon DEF ext2_mount, ext2_open, EnterDirectory, NotInDirectory, FollowInside,
        FollowLast, SearchEnds, ext2_ls_ends, ext2_close
  <1>3. CASE SearchDirectory
    BY <1>3, KeepCachesRefills, Zenon DEF SearchDirectory
  <1>4. CASE FollowSlowInside
    BY <1>4, KeepCachesRefills, Zenon DEF FollowSlowInside
  <1>5. CASE FollowSlowLast
    BY <1>5, KeepCachesRefills, Zenon DEF FollowSlowLast
  <1>6. CASE ext2_bread
    BY <1>6, KeepCachesRefills, Zenon DEF ext2_bread
  <1>7. CASE ext2_ls_block
    BY <1>7, KeepCachesRefills, Zenon DEF ext2_ls_block
  <1> QED BY <1>2, <1>3, <1>4, <1>5, <1>6, <1>7 DEF ext2_Next

\* What any step does to the caches.
LEMMA CacheSteps ==
    ASSUME [files_Next]_files_vars
    PROVE  \/ Refilled(icache', icache) /\ Refilled(dicache', dicache)
           \/ icache' = NoCache /\ dicache' = NoCache
  <1>1. CASE UNCHANGED <<icache, dicache>>
    BY <1>1 DEF Refilled
  <1>2. CASE UNCHANGED ext2_vars
    BY <1>1, <1>2 DEF ext2_vars
  <1>3. CASE Command
    BY <1>2, <1>3 DEF Command, ls_cmd, chdir, chdev, load_image_from_device, boot_via_config, Begin
  <1>4. CASE Ext2Step
    BY <1>4, Ext2Refills DEF Ext2Step
  <1>5. CASE MsdosStep \/ IsoStep \/ StopReading
    BY <1>2, <1>5 DEF MsdosStep, IsoStep, StopReading
  <1>6. CASE PowerCycle
    BY <1>6 DEF PowerCycle, ext2_PowerOn
  <1>7. CASE UNCHANGED files_vars
    BY <1>2, <1>7 DEF files_vars
  <1> QED BY <1>3, <1>4, <1>5, <1>6, <1>7 DEF files_Next, Working

\* No step of a command on a disk makes the caches of indirect blocks tell
\* lies about that disk, whatever reads fail (ext2_blkno).
THEOREM CachesStayHonest == files_Spec => CachesHonest
  <1>1. ASSUME [files_Next]_files_vars, CachesTrue, call'.disk = call.disk
        PROVE  CachesTrue'
    <2>1. \A b : Block(b)' = Block(b)
      BY <1>1 DEF Block, OnDisk
    <2>2. ASSUME NEW new, NEW old, Refilled(new, old), old.no # -1 => old.buf = Block(old.no)
          PROVE  new.no # -1 => new.buf = Block(new.no)
      BY <2>2 DEF Refilled
    <2>3. CASE Refilled(icache', icache) /\ Refilled(dicache', dicache)
      <3>1. /\ icache'.no # -1 => icache'.buf = Block(icache'.no)
            /\ dicache'.no # -1 => dicache'.buf = Block(dicache'.no)
        BY <1>1, <2>2, <2>3 DEF CachesTrue
      <3> QED BY <1>1, <3>1 DEF CachesTrue, Block, OnDisk
    <2>4. CASE icache' = NoCache /\ dicache' = NoCache
      BY <2>4 DEF CachesTrue, NoCache
    <2> QED BY <1>1, <2>3, <2>4, CacheSteps
  <1>2. [files_Next]_files_vars => [call.disk \in Disk /\ CachesTrue /\ call'.disk = call.disk
                            => CachesTrue']_files_vars
    BY <1>1
  <1> QED BY <1>2, PTL DEF files_Spec, CachesHonest

-----------------------------------------------------------------------------
LEMMA DiskIsFine ==
    ASSUME NEW c, DOMAIN c = DOMAIN Idle, c.n \in Nat, c.disk \in Disk
    PROVE  Fine(c)
  BY DEF Fine

LEMMA MountFine ==
    ASSUME NEW mounted, Fine(call), call.disk \in Disk
    PROVE  Fine(fs_mount_result(mounted))
  <1>1. \A x : Fine([call EXCEPT !.pc = x]) /\ Fine([call EXCEPT !.fs = x])
    BY Fields DEF Fine
  <1>2. Fine(Done(call))
    BY DoneFine
  <1> QED BY <1>1, <1>2, Zenon DEF fs_mount_result

LEMMA MsdosOpened ==
    ASSUME NEW table, NEW slot, NEW bad, Fine(call), call.disk \in Disk,
           Opened(table, slot, bad)
    PROVE  Fine(call)'
  <1>1. \E s : GoOn(bad, Found(call, s))
    BY Zenon DEF Opened
  <1>2. PICK s : GoOn(bad, Found(call, s))
    BY <1>1
  <1>3. Fine(Found(call, s))
    BY FoundFine
  <1> QED BY <1>2, <1>3, GoOnFine

\* Where a command may go from a disk.
Goes(c) ==
    \/ DOMAIN c = DOMAIN Idle /\ c.n \in Nat /\ c.disk = call.disk
    \/ \E s : c = Found(call, s)
    \/ c = Done(call)
    \/ c \in {[Idle EXCEPT !.pc = "hung"], [Idle EXCEPT !.pc = "crashed"]}

LEMMA GoesFine ==
    ASSUME Fine(call), call.disk \in Disk, NEW bad, NEW c, Goes(c), GoOn(bad, c)
    PROVE  Fine(call)'
  <1>1. Fine(c)
    BY DiskIsFine, FoundFine, DoneFine, IdleFine DEF Goes
  <1> QED BY <1>1, GoOnFine

(* A listing of the MS-DOS and of the ISO reader is over in one step.      *)
LEMMA MsdosLists ==
    ASSUME msdos_ls
    PROVE  \E bad \in Bad : \E x : GoOn(bad, [call EXCEPT !.pc = "close", !.out = x])
  <1>1. {} \in Bad
    BY DEF Bad
  <1>2. CASE msdos_list_entry(msdos_table[call.fd])
    BY <1>1, <1>2, Zenon DEF msdos_list_entry
  <1>3. CASE msdos_list_dir(msdos_table[call.fd])
    BY <1>3, Zenon DEF msdos_list_dir
  <1> QED BY <1>2, <1>3 DEF msdos_ls

LEMMA IsoLists ==
    ASSUME iso9660_ls
    PROVE  \E bad \in Bad : \E x : GoOn(bad, [call EXCEPT !.pc = "close", !.out = x])
  <1> DEFINE c(x) == [call EXCEPT !.pc = "close", !.out = x]
  <1>1. {} \in Bad
    BY DEF Bad
  <1>2. CASE GoOn({}, c(Line(call.path.names)))
    BY <1>1, <1>2
  <1>3. CASE isofs_list_entry(iso_table[call.fd])
    <2>1. PICK bad \in Bad : \E order : GoOn(bad, [call EXCEPT !.pc = "close", !.out =
            IF isofs_bmap(iso_table[call.fd], 0) # 0
            THEN Names(Listing(order) \o StaleNames(iso_table[call.fd], bad)) ELSE @])
      BY <1>3, Zenon DEF isofs_list_entry
    <2>2. \E x : GoOn(bad, c(x))
      BY <2>1
    <2> QED BY <2>2
  <1> QED BY <1>2, <1>3 DEF iso9660_ls

LEMMA MsdosReads ==
    ASSUME msdos_bread
    PROVE  \E bad \in Bad : \/ GoOn(bad, [call EXCEPT !.pc = "close"])
                            \/ \E y : GoOn(bad, [call EXCEPT !.n = @ + 1, !.out = y])
  <1> DEFINE Ends(bad) == GoOn(bad, [call EXCEPT !.pc = "close"])
             Out(first, second, half) == [kind |-> "sectors", first |-> Sector(first),
                        second |-> IF half THEN SecondHalf ELSE Sector(second)]
             Gives(bad, y) == GoOn(bad, [call EXCEPT !.n = @ + 1, !.out = y])
             Over(i, slot, first, bad) == i >= slot.blocks \/ Unreadable(first, bad)
  <1>1. PICK bad \in Bad, junk \in {None, BootSector} :
        \E slot \in {msdos_table[call.fd]}, i \in {call.n * 2} :
        \E first \in {SectorNo(slot, i, junk)}, second \in {SectorNo(slot, i + 1, junk)} :
        \E half \in {i + 1 >= slot.blocks \/ Unreadable(second, bad)} :
            IF Over(i, slot, first, bad) THEN Ends(bad)
            ELSE Gives(bad, Out(first, second, half))
    BY Zenon DEF msdos_bread
  <1> HIDE DEF Ends, Out, Gives, Over
  <1>2. \/ Ends(bad)
        \/ \E first, second, half : Gives(bad, Out(first, second, half))
    BY <1>1, Zenon
  <1> QED BY <1>2, Zenon DEF Ends, Gives

LEMMA MsdosFine ==
    ASSUME msdos_Next, Fine(call)
    PROVE  Fine(call)'
  <1>1. call.disk \in Disk
    BY DEF msdos_Next, msdos_mount, msdos_open, msdos_search_directory, msdos_ls, msdos_bread,
        msdos_close, At, Fine, Waiting
  <1>2. CASE msdos_mount
    BY <1>1, <1>2, MountFine, GoOnFine DEF msdos_mount
  <1>3. CASE msdos_open
    <2>2. PICK bad \in Bad, r \in {msdos_build_root_inode(msdos_table)} :
              \/ GoOn(bad, Found(call, None))
              \/ Opened(r.table, r.slot, bad)
              \/ GoOn(bad, [call EXCEPT !.pc = "walk", !.names = call.path.names, !.file = r.slot])
      BY <1>3, Zenon DEF msdos_open
    <2>3. CASE GoOn(bad, Found(call, None))
      BY <1>1, <2>3, GoesFine DEF Goes
    <2>4. CASE Opened(r.table, r.slot, bad)
      BY <1>1, <2>4, MsdosOpened
    <2>5. CASE GoOn(bad, [call EXCEPT !.pc = "walk", !.names = call.path.names, !.file = r.slot])
      <3> DEFINE c == [call EXCEPT !.pc = "walk", !.names = call.path.names, !.file = r.slot]
      <3>1. Goes(c)
        BY Fields DEF Fine, Goes
      <3> QED BY <1>1, <2>5, <3>1, GoesFine
    <2> QED BY <2>2, <2>3, <2>4, <2>5
  <1>4. CASE msdos_search_directory
    <2>1. \A x, y : LET c == [call EXCEPT !.names = x, !.file = y]
                    IN  DOMAIN c = DOMAIN Idle /\ c.n \in Nat /\ c.disk = call.disk
      BY Fields DEF Fine
    <2>2. \E bad : \/ GoOn(bad, Found(call, None))
                   \/ \E table, entry : Entered(table, entry, bad)
      BY <1>4, Zenon DEF msdos_search_directory
    <2>3. PICK bad : GoOn(bad, Found(call, None)) \/ \E table, entry : Entered(table, entry, bad)
      BY <2>2
    <2>4. CASE \E table, entry : Entered(table, entry, bad)
      <3>1. PICK table, entry : Entered(table, entry, bad)
        BY <2>4
      <3>2. \/ GoOn(bad, Found(call, None))
            \/ \E t, s : Opened(t, s, bad)
            \/ \E s : GoOn(bad, [call EXCEPT !.names = Tail(@), !.file = s])
        BY <3>1, Zenon DEF Entered
      <3> QED BY <1>1, <2>1, <3>2, MsdosOpened, GoesFine DEF Goes
    <2> QED BY <1>1, <2>3, <2>4, GoesFine DEF Goes
  <1>5. CASE msdos_ls
    <2>1. \A x, y : LET c == [call EXCEPT !.pc = x, !.out = y]
                    IN  DOMAIN c = DOMAIN Idle /\ c.n \in Nat /\ c.disk = call.disk
      BY Fields DEF Fine
    <2>2. \E bad, y : GoOn(bad, [call EXCEPT !.pc = "close", !.out = y])
      BY <1>5, MsdosLists
    <2> QED BY <1>1, <2>1, <2>2, GoesFine DEF Goes
  <1>6. CASE msdos_bread
    <2>1. \A x, y : LET c == [call EXCEPT !.n = @ + 1, !.out = y]
                        d == [call EXCEPT !.pc = x]
                    IN  /\ DOMAIN c = DOMAIN Idle /\ c.n \in Nat /\ c.disk = call.disk
                        /\ DOMAIN d = DOMAIN Idle /\ d.n \in Nat /\ d.disk = call.disk
      BY Fields DEF Fine
    <2>2. \/ \E bad : GoOn(bad, [call EXCEPT !.pc = "close"])
          \/ \E bad, y : GoOn(bad, [call EXCEPT !.n = @ + 1, !.out = y])
      BY <1>6, MsdosReads
    <2> QED BY <1>1, <2>1, <2>2, GoesFine DEF Goes
  <1>7. CASE msdos_close
    BY <1>1, <1>7, GoesFine DEF msdos_close, Goes
  <1> QED BY <1>2, <1>3, <1>4, <1>5, <1>6, <1>7 DEF msdos_Next

LEMMA IsoFine ==
    ASSUME iso_Next, Fine(call)
    PROVE  Fine(call)'
  <1>1. call.disk \in Disk
    BY DEF iso_Next, iso9660_mount, iso9660_open, isofs_lookup, iso9660_ls, iso9660_bread,
        iso9660_close, At, Fine, Waiting
  <1>2. CASE iso9660_mount
    BY <1>1, <1>2, MountFine, GoOnFine DEF iso9660_mount
  <1>3. ASSUME NEW bad, NEW s, GoOn(bad, Found(call, s))
        PROVE  Fine(call)'
    BY <1>1, <1>3, GoesFine DEF Goes
  <1>4. CASE iso9660_open
    <2> DEFINE c(r) == [call EXCEPT !.pc = "walk", !.names = Components, !.file = r.slot]
               Fails(raw, r) == r.slot = None \/ ~raw.dir
    <2>1. \A r : Goes(c(r))
      BY Fields DEF Fine, Goes
    <2>2. PICK bad, raw, r : GoOn(bad, IF Fails(raw, r) THEN Found(call, None) ELSE c(r))
      BY <1>4, Zenon DEF iso9660_open
    <2> HIDE DEF c, Fails
    <2>3. GoOn(bad, Found(call, None)) \/ GoOn(bad, c(r))
      BY <2>2, Zenon
    <2> QED BY <1>1, <1>3, <2>1, <2>3, GoesFine
  <1>5. CASE isofs_lookup
    <2>1. PICK bad : \/ LookupFails(bad)
                     \/ \E ino, raw : LastOne(ino, raw, bad)
                     \/ \E ino, raw : Middle(ino, raw, bad)
      BY <1>5, Zenon DEF isofs_lookup
    <2>2. CASE LookupFails(bad)
      BY <1>3, <2>2 DEF LookupFails
    <2>3. CASE \E ino, raw : LastOne(ino, raw, bad)
      BY <1>3, <2>3 DEF LastOne
    <2>4. CASE \E ino, raw : Middle(ino, raw, bad)
      <3>1. PICK r : GoOn(bad, IF r.slot = None THEN Found(call, None)
                               ELSE [call EXCEPT !.names = Tail(@), !.file = r.slot])
        BY <2>4, Zenon DEF Middle
      <3> DEFINE c == [call EXCEPT !.names = Tail(@), !.file = r.slot]
      <3>2. Goes(c)
        BY Fields DEF Fine, Goes
      <3> HIDE DEF c
      <3>3. GoOn(bad, Found(call, None)) \/ GoOn(bad, c)
        BY <3>1, Zenon DEF c
      <3> QED BY <1>1, <1>3, <3>2, <3>3, GoesFine
    <2> QED BY <2>1, <2>2, <2>3, <2>4
  <1>6. \A x : Goes([call EXCEPT !.pc = "close", !.out = x])
    BY Fields DEF Fine, Goes
  <1>7. CASE iso9660_ls
    <2>1. PICK bad, x : GoOn(bad, [call EXCEPT !.pc = "close", !.out = x])
      BY <1>7, IsoLists
    <2> QED BY <1>1, <1>6, <2>1, GoesFine
  <1>8. CASE iso9660_bread
    <2>1. \A x : Goes([call EXCEPT !.n = @ + 1, !.out = x])
      BY Fields DEF Fine, Goes
    <2>2. Goes([call EXCEPT !.pc = "close"])
      BY Fields DEF Fine, Goes
    <2>3. \E bad : \/ GoOn(bad, [call EXCEPT !.pc = "close"])
                   \/ GoOn(bad, [call EXCEPT !.n = @ + 1, !.out =
                            DataBlock(isofs_bmap(iso_table[call.fd], call.n))])
      BY <1>8, Zenon DEF iso9660_bread
    <2> QED BY <1>1, <2>1, <2>2, <2>3, GoesFine
  <1>9. CASE iso9660_close
    BY <1>1, <1>9, GoesFine DEF iso9660_close, Goes
  <1> QED BY <1>2, <1>4, <1>5, <1>7, <1>8, <1>9 DEF iso_Next

\* The command goes on, on a disk.
OnDiskOf(c) == DOMAIN c = DOMAIN Idle /\ c.n \in Nat /\ c.disk \in Disk

LEMMA FoundGoes ==
    ASSUME NEW c, OnDiskOf(c), NEW s, NEW bad, GoOn(bad, Found(c, s))
    PROVE  Fine(call)'
  <1>1. Fine(Found(c, s))
    BY DiskIsFine, FoundFine DEF OnDiskOf
  <1> QED BY <1>1, GoOnFine

LEMMA OnGoes ==
    ASSUME NEW c, OnDiskOf(c), NEW bad, GoOn(bad, c)
    PROVE  Fine(call)'
  BY DiskIsFine, GoOnFine DEF OnDiskOf

LEMMA FromFine ==
    ASSUME NEW c, OnDiskOf(c), NEW table, NEW bad,
           FromRoot(c, table, bad) \/ FromDir(c, table, bad)
    PROVE  Fine(call)'
  <1>1. \A x : OnDiskOf([c EXCEPT !.pc = "walk", !.file = x]) /\ OnDiskOf([c EXCEPT !.file = x])
    BY Fields DEF OnDiskOf
  <1>2. \/ \E x : GoOn(bad, [c EXCEPT !.pc = "walk", !.file = x])
        \/ \E x : GoOn(bad, [c EXCEPT !.file = x])
        \/ GoOn(bad, Found(c, None))
    BY Zenon DEF FromRoot, AtRoot, FromDir
  <1> QED BY <1>1, <1>2, FoundGoes, OnGoes

LEMMA NextInodeFine ==
    ASSUME OnDiskOf(call), NEW r, NEW bad, NextInode(r, bad)
    PROVE  Fine(call)'
  <1> DEFINE c == [call EXCEPT !.file = r.slot, !.names = Tail(@), !.n = 0]
             d == [Idle EXCEPT !.pc = "crashed"]
  <1>1. OnDiskOf(c)
    BY Fields DEF OnDiskOf
  <1>2. Fine(d)
    BY IdleFine
  <1> HIDE DEF c, d
  <1>3. GoOn(bad, c) \/ GoOn(bad, d) \/ GoOn(bad, Found(call, None))
    BY Zenon DEF NextInode, c, d
  <1> QED BY <1>1, <1>2, <1>3, OnGoes, GoOnFine, FoundGoes

LEMMA SearchBlockFine ==
    ASSUME OnDiskOf(call), NEW buf, NEW hit, NEW stuck, NEW bad,
           SearchBlock(buf, hit, stuck, bad)
    PROVE  Fine(call)'
  <1> DEFINE c == [call EXCEPT !.n = @ + 1]
             d == [Idle EXCEPT !.pc = "hung"]
  <1>1. OnDiskOf(c)
    BY Fields DEF OnDiskOf
  <1>2. Fine(d)
    BY IdleFine
  <1> HIDE DEF c, d
  <1>3. (\E r : NextInode(r, bad)) \/ GoOn(bad, c) \/ GoOn(bad, d)
    BY Zenon DEF SearchBlock, c, d
  <1> QED BY <1>1, <1>2, <1>3, OnGoes, GoOnFine, NextInodeFine

LEMMA Ext2Fine ==
    ASSUME ext2_Next, Fine(call)
    PROVE  Fine(call)'
  <1>1. OnDiskOf(call)
    BY DEF ext2_Next, ext2_mount, ext2_open, EnterDirectory, SearchDirectory, NotInDirectory,
        FollowInside, FollowSlowInside, FollowLast, FollowSlowLast, SearchEnds, ext2_bread,
        ext2_ls_block, ext2_ls_ends, ext2_close, LinkInside, LinkLast, InDirectory, Searching,
        At, Fine, Waiting, OnDiskOf
  <1>2. CASE ext2_mount
    BY <1>1, <1>2, MountFine, GoOnFine DEF ext2_mount, OnDiskOf
  <1>3. CASE ext2_open
    <2> DEFINE c == [call EXCEPT !.names = call.path.names, !.dir = None, !.links = 0]
    <2>1. OnDiskOf(c)
      BY <1>1, Fields DEF OnDiskOf
    <2> HIDE DEF c
    <2>2. \E bad : FromRoot(c, inode_table, bad)
      BY <1>3, Zenon DEF ext2_open, c
    <2> QED BY <2>1, <2>2, FromFine
  <1>4. \A x : OnDiskOf([call EXCEPT !.links = @ + 1, !.names = x])
    BY <1>1, Fields DEF OnDiskOf
  <1>5. ASSUME NEW text, NEW bad, ReplaceInside(text, bad)
        PROVE  Fine(call)'
    <2>1. OnDiskOf([call EXCEPT !.links = @ + 1, !.names = text.names \o @])
      BY <1>1, Fields DEF OnDiskOf
    <2> QED BY <1>5, <2>1, FromFine DEF ReplaceInside
  <1>6. ASSUME NEW text, NEW bad, ReplaceLast(text, bad)
        PROVE  Fine(call)'
    BY <1>4, <1>6, FromFine DEF ReplaceLast
  <1>7. CASE FollowInside \/ FollowSlowInside
    <2>1. \E text, bad : ReplaceInside(text, bad)
      BY <1>7, Zenon DEF FollowInside, FollowSlowInside
    <2> QED BY <1>5, <2>1
  <1>8. CASE FollowLast \/ FollowSlowLast
    <2>1. \E text, bad : ReplaceLast(text, bad)
      BY <1>8, Zenon DEF FollowLast, FollowSlowLast
    <2> QED BY <1>6, <2>1
  <1>9. CASE SearchEnds \/ NotInDirectory
    BY <1>1, <1>9, FoundGoes DEF SearchEnds, NotInDirectory
  <1>10. CASE EnterDirectory
    <2> DEFINE c == [call EXCEPT !.dir = call.file, !.file = None, !.n = 0]
    <2>1. OnDiskOf(c)
      BY <1>1, Fields DEF OnDiskOf
    <2> HIDE DEF c
    <2>2. GoOn({}, c) \/ GoOn({}, Found(call, None))
      BY <1>10, Zenon DEF EnterDirectory, c
    <2> QED BY <1>1, <2>1, <2>2, OnGoes, FoundGoes
  <1>11. CASE SearchDirectory
    <2>1. \E buf, hit, stuck, bad : SearchBlock(buf, hit, stuck, bad)
      BY <1>11, Zenon DEF SearchDirectory
    <2> QED BY <1>1, <2>1, SearchBlockFine
  <1>12. CASE ext2_bread
    <2>1. \A x : OnDiskOf([call EXCEPT !.out = x, !.n = @ + 1])
      BY <1>1, Fields DEF OnDiskOf
    <2> QED BY <1>12, <2>1, OnGoes DEF ext2_bread
  <1>13. CASE ext2_ls_block
    <2> DEFINE d == [Idle EXCEPT !.pc = "hung"]
               c(m) == [call EXCEPT !.n = @ + 1, !.out = Names(@.names \o EntryNames(m.buf))]
    <2>1. Fine(d) /\ \A m : OnDiskOf(c(m))
      BY <1>1, IdleFine, Fields DEF OnDiskOf
    <2> HIDE DEF d, c
    <2>2. PICK bad, stuck, m : GoOn(bad, IF Endless(m.buf, stuck) THEN d ELSE c(m))
      BY <1>13, Zenon DEF ext2_ls_block, d, c
    <2>3. GoOn(bad, d) \/ GoOn(bad, c(m))
      BY <2>2, Zenon
    <2> QED BY <2>1, <2>3, OnGoes, GoOnFine
  <1>14. CASE ext2_ls_ends
    <2>1. \A x : OnDiskOf([call EXCEPT !.pc = "close", !.out = x])
      BY <1>1, Fields DEF OnDiskOf
    <2> QED BY <1>14, <2>1, OnGoes DEF ext2_ls_ends
  <1>15. CASE ext2_close
    BY <1>15, DoneFine, GoOnFine DEF ext2_close
  <1> QED BY <1>2, <1>3, <1>7, <1>8, <1>9, <1>10, <1>11, <1>12, <1>13, <1>14, <1>15
        DEF ext2_Next

LEMMA CommandFine ==
    ASSUME Command
    PROVE  Fine(call)'
  <1>1. ASSUME NEW op, NEW d \in Disk, NEW p, NEW fs, Begin(op, d, p, fs)
        PROVE  Fine(call)'
    <2>1. Idle.n \in Nat
      BY DEF Idle
    <2> QED BY <1>1, <2>1, Fields DEF Begin, Fine
  <1> QED BY <1>1 DEF Command, ls_cmd, chdir, chdev, load_image_from_device, boot_via_config

LEMMA NextFine == Fine(call) /\ [files_Next]_files_vars => Fine(call)'
  <1> SUFFICES ASSUME Fine(call), [files_Next]_files_vars
               PROVE  Fine(call)'
    OBVIOUS
  <1>1. CASE Ext2Step
    BY <1>1, Ext2Fine DEF Ext2Step
  <1>2. CASE MsdosStep
    BY <1>2, MsdosFine DEF MsdosStep
  <1>3. CASE IsoStep
    BY <1>3, IsoFine DEF IsoStep
  <1>4. CASE StopReading
    <2>1. call.disk \in Disk
      BY <1>4 DEF StopReading, Enough, Fine, Waiting
    <2>2. call'.disk = call.disk /\ DOMAIN call' = DOMAIN Idle /\ call'.n \in Nat
      BY <1>4, Fields DEF StopReading, Fine
    <2> QED BY <2>1, <2>2 DEF Fine
  <1>5. CASE PowerCycle
    <2>1. call' = Idle
      BY <1>5 DEF PowerCycle
    <2> QED BY <2>1, IdleFine DEF Fine
  <1>6. CASE UNCHANGED files_vars
    BY <1>6 DEF files_vars, Fine
  <1> QED BY <1>1, <1>2, <1>3, <1>4, <1>5, <1>6, CommandFine DEF files_Next, Working

\* Only a step of a reader on a disk refills a cache.
LEMMA RefillOnDisk ==
    ASSUME Fine(call), [files_Next]_files_vars
    PROVE  \/ UNCHANGED <<icache, dicache>>
           \/ icache' = NoCache /\ dicache' = NoCache
           \/ /\ call.disk \in Disk
              /\ Refilled(icache', icache) /\ Refilled(dicache', dicache)
  <1>1. CASE Ext2Step
    <2>1. call.disk \in Disk
      BY <1>1 DEF Ext2Step, ext2_Next, ext2_mount, ext2_open, EnterDirectory, SearchDirectory,
        NotInDirectory, FollowInside, FollowSlowInside, FollowLast, FollowSlowLast, SearchEnds,
        ext2_bread, ext2_ls_block, ext2_ls_ends, ext2_close, LinkInside, LinkLast, InDirectory,
        Searching, At, Fine, Waiting
    <2> QED BY <1>1, <2>1, Ext2Refills DEF Ext2Step
  <1>2. CASE PowerCycle
    BY <1>2 DEF PowerCycle, ext2_PowerOn
  <1>3. CASE UNCHANGED ext2_vars
    BY <1>3 DEF ext2_vars
  <1>4. CASE MsdosStep \/ IsoStep \/ StopReading \/ UNCHANGED files_vars
    BY <1>3, <1>4 DEF MsdosStep, IsoStep, StopReading, files_vars
  <1>5. CASE Command
    BY <1>3, <1>5 DEF Command, ls_cmd, chdir, chdev, load_image_from_device, boot_via_config, Begin
  <1> QED BY <1>1, <1>2, <1>4, <1>5 DEF files_Next, Working

LEMMA FromDiskStep ==
    ASSUME NEW new, NEW old, call.disk \in Disk, FromDisk(old), Refilled(new, old)
    PROVE  FromDisk(new)
  <1>1. \A b : Block(b) = BlockOn(call.disk, b)
    BY DEF Block, BlockOn, OnDisk
  <1> QED BY <1>1 DEF FromDisk, Refilled

LEMMA FilesInvStep == FilesInv /\ [files_Next]_files_vars => FilesInv'
  <1> SUFFICES ASSUME FilesInv, [files_Next]_files_vars
               PROVE  FilesInv'
    OBVIOUS
  <1>1. Fine(call)'
    BY NextFine DEF FilesInv
  <1>2. FromDisk(icache') /\ FromDisk(dicache')
    <2>1. FromDisk(NoCache)
      BY DEF FromDisk, NoCache
    <2> QED BY <2>1, RefillOnDisk, FromDiskStep, Zenon DEF FilesInv
  <1>3. FromDisk(icache)' /\ FromDisk(dicache)'
    BY <1>2 DEF FromDisk, BlockOn
  <1> QED BY <1>1, <1>3 DEF FilesInv

LEMMA InitFiles == files_Init => FilesInv
  BY IdleFine DEF files_Init, FilesInv, ext2_Init, NoCache, FromDisk

\* A command at work has a disk, and the caches hold blocks as some disk has
\* them: no read that fails leaves a number without its block (ext2_blkno).
THEOREM CachesFromDisks == files_Spec => []FilesInv
  BY InitFiles, FilesInvStep, PTL DEF files_Spec

\* The caches are true whatever the command.
CachesNeverStale == call.disk \in Disk => CachesTrue

\* On a machine with one disk the caches, which no mount resets, are never
\* stale: it takes a second disk to make ext2_blkno use another disk's block.
THEOREM OneDiskNeverStale == OneDisk => (files_Spec => []CachesNeverStale)
  <1> SUFFICES ASSUME OneDisk PROVE files_Spec => []CachesNeverStale
    OBVIOUS
  <1>1. FilesInv => CachesNeverStale
    <2>1. ASSUME call.disk \in Disk, NEW cache, FromDisk(cache)
          PROVE  cache.no # -1 => cache.buf = Block(cache.no)
      <3>1. \A d \in Disk : \A b : BlockOn(d, b) = Block(b)
        BY <2>1 DEF OneDisk, BlockOn, Block, OnDisk
      <3> QED BY <2>1, <3>1 DEF FromDisk
    <2> QED BY <2>1 DEF FilesInv, CachesTrue, CachesNeverStale
  <1> QED BY <1>1, CachesFromDisks, PTL

-----------------------------------------------------------------------------
(* The map from blocks of a file to blocks of the disk, over the caches. *)

TrueCache(cache) == cache.no # -1 => cache.buf = Block(cache.no)

LEMMA CachedExact ==
    ASSUME NEW cache, TrueCache(cache), NEW no, no # -1
    PROVE  Cached(cache, no, {}).ok /\ Cached(cache, no, {}).cache.buf = Block(no)
  BY DEF Cached, TrueCache

LEMMA IndirectExact ==
    ASSUME NEW m, IsBuffers(m), TrueCache(m.icache), NEW no, no # -1, NEW i
    PROVE  ThroughIndirect(m, no, i, {}).blkno = IndirectBlock(no, i)
  <1> DEFINE c == Cached(m.icache, no, {})
  <1>1. c.ok /\ c.cache.buf = Block(no)
    BY CachedExact
  <1> HIDE DEF c
  <1>2. CASE no = 0
    BY <1>2 DEF ThroughIndirect, IndirectBlock, IsBuffers
  <1>3. CASE no # 0
    <2>1. ThroughIndirect(m, no, i, {}) = TakePointer(m, c, i)
      BY <1>3 DEF ThroughIndirect, c
    <2>2. TakePointer(m, c, i).blkno = Pointer(c.cache.buf, i)
      BY <1>1 DEF TakePointer, IsBuffers
    <2> QED BY <1>1, <1>3, <2>1, <2>2 DEF IndirectBlock
  <1> QED BY <1>2, <1>3

LEMMA DoubleExact ==
    ASSUME NEW m, IsBuffers(m), TrueCache(m.icache), TrueCache(m.dicache), NEW no, no # -1,
           NEW i, Pointer(Block(no), i \div ptrs_per_blk) # -1
    PROVE  ThroughDouble(m, no, i, {}).blkno = DoubleBlock(no, i)
  <1> DEFINE c == Cached(m.dicache, no, {})
             n == [m EXCEPT !.dicache = c.cache]
             p == Pointer(Block(no), i \div ptrs_per_blk)
             j == i % ptrs_per_blk
  <1>1. c.ok /\ c.cache.buf = Block(no)
    BY CachedExact
  <1>2. IsBuffers(n) /\ n.icache = m.icache
    BY DEF IsBuffers
  <1>3. CASE no = 0
    BY <1>3 DEF ThroughDouble, DoubleBlock, IsBuffers
  <1>4. CASE no # 0
    <2>1. ThroughDouble(m, no, i, {}) = ThroughIndirect(n, p, j, {})
      BY <1>1, <1>4 DEF ThroughDouble, SecondLevel
    <2>2. DoubleBlock(no, i) = IndirectBlock(p, j)
      BY <1>4 DEF DoubleBlock
    <2> HIDE DEF n, p, j
    <2>3. p # -1
      BY DEF p
    <2>4. ThroughIndirect(n, p, j, {}).blkno = IndirectBlock(p, j)
      BY <1>2, <2>3, IndirectExact
    <2> QED BY <2>1, <2>2, <2>4
  <1> QED BY <1>3, <1>4

LEMMA BlknoExact ==
    ASSUME NEW m, IsBuffers(m), TrueCache(m.icache), TrueCache(m.dicache),
           NEW ip, NEW off \in Int, Unsigned(ip, off), directlim \in Int, ind1lim \in Int, ind2lim \in Int
    PROVE  ext2_blkno(m, ip, off, {}).blkno = MappedBlock(ip, off)
  <1>1. CASE off <= directlim
    BY <1>1 DEF ext2_blkno, MappedBlock, IsBuffers
  <1>2. CASE ~(off <= directlim) /\ off <= ind1lim
    BY <1>2, IndirectExact DEF ext2_blkno, MappedBlock, Unsigned
  <1>3. CASE ~(off <= directlim) /\ ~(off <= ind1lim) /\ off <= ind2lim
    <2> DEFINE no == ip.block[EXT2_DIND_BLOCK]
               i == off - (ind1lim + 1)
    <2>1. ext2_blkno(m, ip, off, {}) = ThroughDouble(m, no, i, {})
      BY <1>3 DEF ext2_blkno
    <2>2. MappedBlock(ip, off) = DoubleBlock(no, i)
      BY <1>3 DEF MappedBlock
    <2>3. off \in (ind1lim + 1) .. ind2lim
      BY <1>3
    <2>4. no # -1 /\ Pointer(Block(no), i \div ptrs_per_blk) # -1
      BY <2>3 DEF Unsigned
    <2> HIDE DEF no, i
    <2> QED BY <2>1, <2>2, <2>4, DoubleExact
  <1>4. CASE ~(off <= directlim) /\ ~(off <= ind1lim) /\ ~(off <= ind2lim)
    BY <1>4 DEF ext2_blkno, MappedBlock, IsBuffers
  <1> QED BY <1>1, <1>2, <1>3, <1>4

LEMMA BreadiExact ==
    ASSUME NEW buf, CachesTrue, NEW ip, NEW off \in Int, Unsigned(ip, off),
           directlim \in Int, ind1lim \in Int, ind2lim \in Int
    PROVE  ext2_breadi(Buffers(buf), ip, off, {}).buf = MappedContents(ip, off)
  <1> DEFINE r == ext2_blkno(Buffers(buf), ip, off, {})
  <1>1. r.blkno = MappedBlock(ip, off)
    BY BuffersShape, BlknoExact DEF CachesTrue, TrueCache
  <1>2. IsBuffers(r)
    BY BuffersShape, BlknoKeeps
  <1>3. ext2_breadi(Buffers(buf), ip, off, {}) = Fetched(r, {})
    BY DEF ext2_breadi
  <1> HIDE DEF r
  <1> QED BY <1>1, <1>2, <1>3 DEF Fetched, MappedContents, IsBuffers

\* Nothing failed in a step that leaves the command clean.
LEMMA OnClean ==
    ASSUME NEW c, OnDiskOf(c), NEW bad, GoOn(bad, c), call'.clean
    PROVE  bad = {}
  BY DiskIsFine, GoOnClean DEF OnDiskOf

LEMMA FoundClean ==
    ASSUME NEW c, OnDiskOf(c), NEW s, NEW bad, GoOn(bad, Found(c, s)), call'.clean
    PROVE  bad = {}
  <1>1. Fine(Found(c, s))
    BY DiskIsFine, FoundFine DEF OnDiskOf
  <1> QED BY <1>1, GoOnClean

LEMMA SearchBlockClean ==
    ASSUME OnDiskOf(call), NEW buf, NEW hit, NEW stuck, NEW bad,
           SearchBlock(buf, hit, stuck, bad), call'.clean
    PROVE  bad = {}
  <1> DEFINE c == [call EXCEPT !.n = @ + 1]
             h == [Idle EXCEPT !.pc = "hung"]
             e(r) == [call EXCEPT !.file = r.slot, !.names = Tail(@), !.n = 0]
             d == [Idle EXCEPT !.pc = "crashed"]
  <1>1. OnDiskOf(c) /\ \A r : OnDiskOf(e(r))
    BY Fields DEF OnDiskOf
  <1>2. Fine(h) /\ Fine(d)
    BY IdleFine
  <1> HIDE DEF c, h, e, d
  <1>3. (\E r : NextInode(r, bad)) \/ GoOn(bad, c) \/ GoOn(bad, h)
    BY Zenon DEF SearchBlock, c, h
  <1>4. ASSUME NEW r, NextInode(r, bad)
        PROVE  GoOn(bad, e(r)) \/ GoOn(bad, d) \/ GoOn(bad, Found(call, None))
    BY <1>4, Zenon DEF NextInode, e, d
  <1> QED BY <1>1, <1>2, <1>3, <1>4, OnClean, GoOnClean, FoundClean

LEMMA Limits == directlim \in Int /\ ind1lim \in Int /\ ind2lim \in Int
  BY Ext2Assumption, SMT DEF directlim, ind1lim, ind2lim

LEMMA BreadExact ==
    ASSUME Fine(call), call.disk \in Disk, CachesTrue, call'.clean, ext2_bread
    PROVE  Exact(call'.out, call.fd, call.n)
  <1> DEFINE ip == inode_table[call.fd].inode
  <1>1. PICK bad, m : /\ m = ext2_breadi(Buffers(call.out), ip, call.n, bad)
                              /\ GoOn(bad, [call EXCEPT !.out = m.buf, !.n = @ + 1])
    BY DEF ext2_bread
  <1> HIDE DEF ip
  <1>2. OnDiskOf([call EXCEPT !.out = m.buf, !.n = @ + 1])
    BY Fields DEF Fine, OnDiskOf
  <1>3. bad = {}
    BY <1>1, <1>2, OnClean
  <1>4. call'.out = m.buf
    BY <1>1, Fields DEF GoOn, Fine
  <1>5. Unsigned(ip, call.n) => m.buf = MappedContents(ip, call.n)
    BY <1>1, <1>3, BreadiExact, Limits DEF Fine
  <1> QED BY <1>4, <1>5 DEF Exact, ip

LEMMA SearchExact ==
    ASSUME Fine(call), call.disk \in Disk, CachesTrue, call'.clean, SearchDirectory
    PROVE  Exact(blkbuf', call.dir, call.n)
  <1> DEFINE ip == inode_table[call.dir].inode
  <1>1. PICK bad, m, stuck, hit : /\ m = ext2_breadi(Buffers(blkbuf), ip, call.n, bad)
                                  /\ blkbuf' = m.buf
                                  /\ SearchBlock(m.buf, hit, stuck, bad)
    BY Zenon DEF SearchDirectory
  <1> HIDE DEF ip
  <1>2. bad = {}
    BY <1>1, SearchBlockClean DEF Fine, OnDiskOf
  <1>3. Unsigned(ip, call.n) => m.buf = MappedContents(ip, call.n)
    BY <1>1, <1>2, BreadiExact, Limits DEF Fine
  <1> QED BY <1>1, <1>3 DEF Exact, ip

LEMMA ListExact ==
    ASSUME Fine(call), call.disk \in Disk, CachesTrue, call'.clean, ext2_ls_block
    PROVE  Exact(blkbuf', call.fd, call.n)
  <1> DEFINE ip == inode_table[call.fd].inode
             d == [Idle EXCEPT !.pc = "hung"]
             c(m) == [call EXCEPT !.n = @ + 1, !.out = Names(@.names \o EntryNames(m.buf))]
  <1>1. Fine(d) /\ \A m : OnDiskOf(c(m))
    BY IdleFine, Fields DEF Fine, OnDiskOf
  <1> HIDE DEF d, c
  <1>2. PICK bad, m, stuck : /\ m = ext2_breadi(Buffers(blkbuf), ip, call.n, bad)
                             /\ blkbuf' = m.buf
                             /\ GoOn(bad, IF Endless(m.buf, stuck) THEN d ELSE c(m))
    BY Zenon DEF ext2_ls_block, Listed, d, c
  <1> HIDE DEF ip
  <1>3. GoOn(bad, d) \/ GoOn(bad, c(m))
    BY <1>2, Zenon
  <1>4. bad = {}
    BY <1>1, <1>3, OnClean, GoOnClean
  <1>5. Unsigned(ip, call.n) => m.buf = MappedContents(ip, call.n)
    BY <1>2, <1>4, BreadiExact, Limits DEF Fine
  <1> QED BY <1>2, <1>5 DEF Exact, ip

LEMMA FromClean ==
    ASSUME NEW c, OnDiskOf(c), NEW table, NEW bad, call'.clean,
           FromRoot(c, table, bad) \/ FromDir(c, table, bad)
    PROVE  bad = {}
  <1>1. \A x : OnDiskOf([c EXCEPT !.pc = "walk", !.file = x]) /\ OnDiskOf([c EXCEPT !.file = x])
    BY Fields DEF OnDiskOf
  <1>2. \/ \E x : GoOn(bad, [c EXCEPT !.pc = "walk", !.file = x])
        \/ \E x : GoOn(bad, [c EXCEPT !.file = x])
        \/ GoOn(bad, Found(c, None))
    BY Zenon DEF FromRoot, AtRoot, FromDir
  <1> QED BY <1>1, <1>2, FoundClean, OnClean

LEMMA LinkExact ==
    ASSUME Fine(call), call.disk \in Disk, CachesTrue, call'.clean, FollowSlowInside
    PROVE  Exact(blkbuf', call.file, 0)
  <1> DEFINE ip == inode_table[call.file].inode
  <1>1. PICK bad, m : /\ m = ext2_breadi(Buffers(blkbuf), ip, 0, bad)
                      /\ blkbuf' = m.buf
                      /\ ReplaceInside(LinkText(m.buf), bad)
    BY Zenon DEF FollowSlowInside, FileInode
  <1> HIDE DEF ip
  <1>2. bad = {}
    <2>1. OnDiskOf([call EXCEPT !.links = @ + 1, !.names = LinkText(m.buf).names \o @])
      BY Fields DEF Fine, OnDiskOf
    <2> QED BY <1>1, <2>1, FromClean DEF ReplaceInside
  <1>3. Unsigned(ip, 0) => m.buf = MappedContents(ip, 0)
    BY <1>1, <1>2, BreadiExact, Limits
  <1> QED BY <1>1, <1>3 DEF Exact, ip

\* What the ext2 reader reads is what the pointers on the disk name, at every
\* limit between direct, indirect and double indirect blocks (ext2_breadi).
THEOREM ReadsFollowTheInode == files_Spec => ReadsFollowInode
  <1>1. FilesInv /\ [files_Next]_files_vars =>
            [call.disk \in Disk /\ CachesTrue /\ call'.clean =>
                /\ ext2_bread => Exact(call'.out, call.fd, call.n)
                /\ SearchDirectory => Exact(blkbuf', call.dir, call.n)
                /\ ext2_ls_block => Exact(blkbuf', call.fd, call.n)
                /\ FollowSlowInside => Exact(blkbuf', call.file, 0)]_files_vars
    BY BreadExact, SearchExact, ListExact, LinkExact DEF FilesInv
  <1> QED BY <1>1, CachesFromDisks, PTL DEF files_Spec, ReadsFollowInode

-----------------------------------------------------------------------------
(* The slots of inodes.  A search in ext2 has at most the directory's and  *)
(* the file's; one on an MS-DOS disk or a CD may have lost one more to the *)
(* search before it, for the first of the two configuration files.         *)

Ops == {"ls", "chdir", "chdev", "load", "config"}
FirstTry(c) == c.op = "config" /\ c.path = ConfigPath

Slots(table, last) == DOMAIN table = 0 .. last /\ \A s \in 0 .. last : "free" \in DOMAIN table[s]
InUse(table) == { s \in DOMAIN table : ~table[s].free }

\* What a command is: those that search are not chdev, which only mounts.
Sound(c) ==
    /\ DOMAIN c = DOMAIN Idle
    /\ c.pc \notin Waiting => c.op \in Ops
    /\ c.pc \notin Waiting \cup {"mount", "close"} => c.op # "chdev"

Tidy(c, used) ==
    /\ c.pc = "open" => used = {}
    /\ c.pc = "walk" => used \subseteq {c.dir, c.file}

AlmostTidy(c, used) ==
    \E k : /\ FirstTry(c) => k = None
           /\ c.pc = "open" => used \subseteq {k}
           /\ c.pc = "walk" => used \subseteq {k, c.file}

SlotsInv ==
    /\ Sound(call)
    /\ Slots(inode_table, 3) /\ Slots(msdos_table, 4) /\ Slots(iso_table, 4)
    /\ call.fs = "ext2" => Tidy(call, InUse(inode_table))
    /\ call.fs = "msdos" => AlmostTidy(call, InUse(msdos_table))
    /\ call.fs = "iso9660" => AlmostTidy(call, InUse(iso_table))

\* Where a step of the reader of fs leaves the command: in the same reader,
\* or nowhere that a slot is held.
OnFs(c, fs) == Sound(c) /\ (c.fs = fs \/ c.pc \in Waiting \cup {"mount"})

\* A command that may search, of the reader of fs.
MaySearch(c, fs) == DOMAIN c = DOMAIN Idle /\ c.fs = fs /\ c.op \in Ops \ {"chdev"}

LEMMA NoSlot ==
    ASSUME NEW table, NEW last \in {3, 4}, Slots(table, last)
    PROVE  InUse(table) \subseteq 0 .. last /\ None \notin InUse(table)
  BY DEF Slots, InUse, None

\* Putting an inode frees its slot, and only that.
LEMMA PutFrees ==
    ASSUME NEW last \in {3, 4}, NEW table, Slots(table, last), NEW slot,
           NEW new, \/ new = [table EXCEPT ![slot].free = TRUE]
                    \/ new = [table EXCEPT ![slot].free = TRUE, ![slot].ino = 0]
    PROVE  Slots(new, last) /\ InUse(new) \subseteq InUse(table) \ {slot}
  BY DEF Slots, InUse

\* Getting one takes at most the slot that is its result.
LEMMA GetTakes ==
    ASSUME NEW last \in {3, 4}, NEW table, Slots(table, last), NEW slot,
           NEW entry, "free" \in DOMAIN entry,
           NEW new, new = [table EXCEPT ![slot] = entry]
    PROVE  Slots(new, last) /\ InUse(new) \subseteq InUse(table) \cup {slot}
  BY DEF Slots, InUse

LEMMA IputFrees ==
    ASSUME NEW table, Slots(table, 3), NEW slot
    PROVE  /\ Slots(ext2_iput(table, slot), 3)
           /\ InUse(ext2_iput(table, slot)) \subseteq InUse(table) \ {slot}
  <1>1. CASE slot = None
    BY <1>1, NoSlot DEF ext2_iput
  <1>2. CASE slot # None
    <2>1. ext2_iput(table, slot) = [table EXCEPT ![slot].free = TRUE]
      BY <1>2 DEF ext2_iput
    <2> QED BY <2>1, PutFrees, 3 \in {3, 4}, Zenon
  <1> QED BY <1>1, <1>2

LEMMA IgetTakes ==
    ASSUME NEW table, Slots(table, 3), NEW ino, NEW bad, NEW r, r = ext2_iget(table, ino, bad)
    PROVE  Slots(r.table, 3) /\ InUse(r.table) \subseteq InUse(table) \cup {r.slot}
  <1> DEFINE s == Min({ x \in DOMAIN table : table[x].free })
             entry == [free |-> FALSE, inode |-> InodeAt(ino)]
             new == [table EXCEPT ![s] = entry]
  <1>1. "free" \in DOMAIN entry
    OBVIOUS
  <1>2. r = [table |-> table, slot |-> None] \/ r = [table |-> new, slot |-> s]
    BY Zenon DEF ext2_iget
  <1>3. new = [table EXCEPT ![s] = entry]
    OBVIOUS
  <1> HIDE DEF entry, s, new
  <1>4. Slots(new, 3) /\ InUse(new) \subseteq InUse(table) \cup {s}
    BY <1>1, <1>3, GetTakes, 3 \in {3, 4}
  <1> QED BY <1>2, <1>4

-----------------------------------------------------------------------------
(* Where a command goes, and what it holds there. *)

LEMMA IdleSound ==
    /\ \A fs : OnFs(Idle, fs)
    /\ \A fs : OnFs([Idle EXCEPT !.pc = "hung"], fs) /\ OnFs([Idle EXCEPT !.pc = "crashed"], fs)
  BY DEF OnFs, Sound, Idle, Waiting

LEMMA DoneSound ==
    ASSUME NEW c, NEW fs
    PROVE  OnFs(Done(c), fs) /\ Done(c).pc = "idle"
  BY DEF Done, OnFs, Sound, Idle, Waiting

\* The step that goes on with c has c's fields.
LEMMA GoOnFields ==
    ASSUME NEW bad, NEW c, DOMAIN c = DOMAIN Idle, GoOn(bad, c)
    PROVE  /\ call'.pc = c.pc /\ call'.op = c.op /\ call'.fs = c.fs /\ call'.path = c.path
           /\ call'.dir = c.dir /\ call'.file = c.file /\ DOMAIN call' = DOMAIN Idle
  BY Fields DEF GoOn

LEMMA GoOnKeeps ==
    ASSUME NEW bad, NEW c, NEW fs, NEW used, OnFs(c, fs), GoOn(bad, c)
    PROVE  /\ OnFs(call', fs)
           /\ Tidy(c, used) => Tidy(call', used)
           /\ AlmostTidy(c, used) => AlmostTidy(call', used)
  <1>1. /\ call'.pc = c.pc /\ call'.op = c.op /\ call'.fs = c.fs /\ call'.path = c.path
        /\ call'.dir = c.dir /\ call'.file = c.file /\ DOMAIN call' = DOMAIN Idle
    BY GoOnFields DEF OnFs, Sound
  <1>2. OnFs(call', fs)
    BY <1>1 DEF OnFs, Sound
  <1>3. Tidy(c, used) => Tidy(call', used)
    BY <1>1 DEF Tidy
  <1>4. AlmostTidy(c, used) => AlmostTidy(call', used)
    BY <1>1 DEF AlmostTidy, FirstTry
  <1> QED BY <1>2, <1>3, <1>4

\* A search that ends: with an inode, or with none and then, perhaps, with
\* another try.
LEMMA FoundSound ==
    ASSUME NEW c, NEW fs, MaySearch(c, fs), NEW slot
    PROVE  /\ OnFs(Found(c, slot), fs)
           /\ Found(c, slot).pc # "walk"
           /\ Found(c, slot).pc = "open" => slot = None /\ FirstTry(c) /\ ~FirstTry(Found(c, slot))
  <1> DEFINE d == [c EXCEPT !.fd = slot, !.n = 0]
             e == [d EXCEPT !.pc = AfterFound[c.op], !.out = IF c.op = "ls" THEN Names(<<>>) ELSE @]
             f == [d EXCEPT !.pc = "open", !.path = OtherConfigPath]
             g == [d EXCEPT !.pc = "close"]
  <1>1. DOMAIN d = DOMAIN Idle /\ d.fs = fs /\ d.op = c.op
    BY Fields DEF MaySearch
  <1>2. AfterFound[c.op] \in {"list", "close", "read"} /\ c.op \in Ops /\ c.op # "chdev"
    BY DEF AfterFound, MaySearch, Ops
  <1>3. OnFs(e, fs) /\ e.pc \notin {"walk", "open"}
    <2> HIDE DEF d
    <2>1. DOMAIN e = DOMAIN Idle /\ e.fs = fs /\ e.op = c.op /\ e.pc = AfterFound[c.op]
      BY <1>1, Fields
    <2> HIDE DEF e
    <2> QED BY <1>2, <2>1 DEF OnFs, Sound
  <1>4. OnFs(f, fs) /\ f.pc = "open" /\ ~FirstTry(f)
    <2> HIDE DEF d
    <2>1. DOMAIN f = DOMAIN Idle /\ f.fs = fs /\ f.op = c.op /\ f.pc = "open" /\ f.path = OtherConfigPath
      BY <1>1, Fields
    <2>2. ConfigPath # OtherConfigPath
      BY DEF ConfigPath, OtherConfigPath
    <2> HIDE DEF f
    <2> QED BY <1>2, <2>1, <2>2 DEF OnFs, Sound, FirstTry
  <1>5. OnFs(g, fs) /\ g.pc = "close"
    <2> HIDE DEF d
    <2>1. DOMAIN g = DOMAIN Idle /\ g.fs = fs /\ g.op = c.op /\ g.pc = "close"
      BY <1>1, Fields
    <2> HIDE DEF g
    <2> QED BY <1>2, <2>1 DEF OnFs, Sound
  <1> HIDE DEF d, e, f, g
  <1>6. \/ Found(c, slot) = e
        \/ slot = None /\ FirstTry(c) /\ Found(c, slot) = f
        \/ Found(c, slot) = g
        \/ Found(c, slot) = Done(c)
    BY Zenon DEF Found, d, e, f, g, FirstTry
  <1> QED BY <1>3, <1>4, <1>5, <1>6, DoneSound

-----------------------------------------------------------------------------
(* The searches of the ext2 reader. *)

Held(c, table) == OnFs(c, "ext2") /\ Slots(table, 3) /\ Tidy(c, InUse(table))

LEMMA HeldOn ==
    ASSUME NEW bad, NEW c, NEW table, Held(c, table), GoOn(bad, c)
    PROVE  Held(call', table)
  BY GoOnKeeps DEF Held

\* No slot is held where none is needed.
LEMMA HeldOut ==
    ASSUME NEW c, NEW table, OnFs(c, "ext2"), c.pc \notin {"open", "walk"}, Slots(table, 3)
    PROVE  Held(c, table)
  BY DEF Held, Tidy

LEMMA HeldFound ==
    ASSUME NEW c, MaySearch(c, "ext2"), NEW slot, NEW table, Slots(table, 3),
           slot = None => InUse(table) = {}
    PROVE  Held(Found(c, slot), table)
  BY FoundSound DEF Held, Tidy

LEMMA HeldWalk ==
    ASSUME NEW c, MaySearch(c, "ext2"), c.pc = "walk", NEW table, Slots(table, 3),
           InUse(table) \subseteq {c.dir, c.file}
    PROVE  Held(c, table)
  BY DEF Held, Tidy, OnFs, Sound, MaySearch, Waiting

LEMMA HeldFromRoot ==
    ASSUME NEW c, MaySearch(c, "ext2"), NEW table, Slots(table, 3), InUse(table) = {},
           NEW bad, FromRoot(c, table, bad)
    PROVE  Held(call', inode_table')
  <1> DEFINE r == ext2_iget(table, EXT2_ROOT_INO, bad)
             d == [c EXCEPT !.pc = "walk", !.file = r.slot]
  <1>1. Slots(r.table, 3) /\ InUse(r.table) \subseteq {r.slot}
    BY IgetTakes
  <1>2. /\ inode_table' = r.table
        /\ GoOn(bad, IF r.slot = None THEN Found(c, None) ELSE d)
    BY DEF FromRoot, AtRoot
  <1> HIDE DEF r
  <1>3. MaySearch(d, "ext2") /\ d.pc = "walk" /\ d.file = r.slot
    BY Fields DEF MaySearch
  <1> HIDE DEF d
  <1>4. CASE r.slot = None
    <2>1. InUse(r.table) = {}
      BY <1>1, <1>4, NoSlot, 3 \in {3, 4}
    <2>2. Held(Found(c, None), r.table)
      BY <1>1, <2>1, HeldFound
    <2> QED BY <1>2, <1>4, <2>2, HeldOn
  <1>5. CASE r.slot # None
    <2>1. Held(d, r.table)
      BY <1>1, <1>3, HeldWalk
    <2> QED BY <1>2, <1>5, <2>1, HeldOn
  <1> QED BY <1>4, <1>5

LEMMA HeldFromDir ==
    ASSUME NEW c, MaySearch(c, "ext2"), c.pc = "walk", NEW table, Slots(table, 3),
           InUse(table) \subseteq {c.dir}, NEW bad, FromDir(c, table, bad)
    PROVE  Held(call', inode_table')
  <1> DEFINE d == [c EXCEPT !.file = c.dir]
  <1>1. MaySearch(d, "ext2") /\ d.pc = "walk" /\ d.file = c.dir
    BY Fields DEF MaySearch
  <1>2. inode_table' = table /\ GoOn(bad, IF c.dir = None THEN Found(c, None) ELSE d)
    BY DEF FromDir
  <1> HIDE DEF d
  <1>3. CASE c.dir = None
    <2>1. InUse(table) = {}
      BY <1>3, NoSlot, 3 \in {3, 4}
    <2>2. Held(Found(c, None), table)
      BY <2>1, HeldFound
    <2> QED BY <1>2, <1>3, <2>2, HeldOn
  <1>4. CASE c.dir # None
    <2>1. Held(d, table)
      BY <1>1, HeldWalk
    <2> QED BY <1>2, <1>4, <2>1, HeldOn
  <1> QED BY <1>3, <1>4

\* A search of the ext2 reader under way.
Walking ==
    /\ MaySearch(call, "ext2") /\ call.pc = "walk"
    /\ Slots(inode_table, 3) /\ InUse(inode_table) \subseteq {call.dir, call.file}

LEMMA HeldInside ==
    ASSUME Walking, NEW text, NEW bad, ReplaceInside(text, bad)
    PROVE  Held(call', inode_table')
  <1> DEFINE c == [call EXCEPT !.links = @ + 1, !.names = text.names \o @]
             one == ext2_iput(inode_table, call.dir)
             two == ext2_iput(one, call.file)
             put == ext2_iput(inode_table, call.file)
  <1>1. /\ Slots(two, 3) /\ InUse(two) = {}
        /\ Slots(put, 3) /\ InUse(put) \subseteq {call.dir}
    <2>1. Slots(one, 3) /\ InUse(one) \subseteq InUse(inode_table) \ {call.dir}
      BY IputFrees DEF Walking
    <2>2. Slots(put, 3) /\ InUse(put) \subseteq InUse(inode_table) \ {call.file}
      BY IputFrees DEF Walking
    <2> HIDE DEF one, put
    <2>3. Slots(two, 3) /\ InUse(two) \subseteq InUse(one) \ {call.file}
      BY <2>1, IputFrees
    <2> HIDE DEF two
    <2> QED BY <2>1, <2>2, <2>3 DEF Walking
  <1>2. MaySearch(c, "ext2") /\ c.pc = "walk" /\ c.dir = call.dir
    BY Fields DEF Walking, MaySearch
  <1>3. FromRoot(c, two, bad) \/ FromDir(c, put, bad)
    BY Zenon DEF ReplaceInside
  <1> HIDE DEF c, one, two, put
  <1> QED BY <1>1, <1>2, <1>3, HeldFromRoot, HeldFromDir

LEMMA HeldLast ==
    ASSUME Walking, NEW text, NEW bad, ReplaceLast(text, bad)
    PROVE  Held(call', inode_table')
  <1> DEFINE c == [call EXCEPT !.links = @ + 1, !.names = text.names]
             put == ext2_iput(inode_table, call.file)
             two == ext2_iput(put, call.dir)
  <1>1. /\ Slots(two, 3) /\ InUse(two) = {}
        /\ Slots(put, 3) /\ InUse(put) \subseteq {call.dir}
    <2>1. Slots(put, 3) /\ InUse(put) \subseteq InUse(inode_table) \ {call.file}
      BY IputFrees DEF Walking
    <2> HIDE DEF put
    <2>2. Slots(two, 3) /\ InUse(two) \subseteq InUse(put) \ {call.dir}
      BY <2>1, IputFrees
    <2> HIDE DEF two
    <2> QED BY <2>1, <2>2 DEF Walking
  <1>2. MaySearch(c, "ext2") /\ c.pc = "walk" /\ c.dir = call.dir
    BY Fields DEF Walking, MaySearch
  <1>3. FromRoot(c, two, bad) \/ FromDir(c, put, bad)
    BY Zenon DEF ReplaceLast
  <1> HIDE DEF c, put, two
  <1> QED BY <1>1, <1>2, <1>3, HeldFromRoot, HeldFromDir

LEMMA HeldNext ==
    ASSUME Walking, call.file = None, NEW r, Slots(r.table, 3),
           InUse(r.table) \subseteq {call.dir, r.slot}, NEW bad, NextInode(r, bad)
    PROVE  Held(call', inode_table')
  <1> DEFINE c == [call EXCEPT !.file = r.slot, !.names = Tail(@), !.n = 0]
             d == [Idle EXCEPT !.pc = "crashed"]
             put == ext2_iput(r.table, call.dir)
  <1>1. MaySearch(c, "ext2") /\ c.pc = "walk" /\ c.dir = call.dir /\ c.file = r.slot
    BY Fields DEF Walking, MaySearch
  <1>2. Held(d, r.table)
    <2>1. d.pc = "crashed"
      BY DEF Idle
    <2> QED BY <2>1, IdleSound, HeldOut
  <1>3. ASSUME r.slot = None PROVE Held(Found(call, None), put)
    <2>1. Slots(put, 3) /\ InUse(put) \subseteq InUse(r.table) \ {call.dir}
      BY IputFrees
    <2>2. None \notin InUse(r.table)
      BY NoSlot, 3 \in {3, 4}
    <2> HIDE DEF put
    <2>3. InUse(put) = {}
      BY <1>3, <2>1, <2>2
    <2> QED BY <2>1, <2>3, HeldFound DEF Walking
  <1> HIDE DEF c, d, put
  <1>4. \/ inode_table' = r.table /\ GoOn(bad, c)
        \/ inode_table' = r.table /\ GoOn(bad, d)
        \/ r.slot = None /\ inode_table' = put /\ GoOn(bad, Found(call, None))
    BY Zenon DEF NextInode, c, d, put
  <1>5. Held(c, r.table)
    BY <1>1, HeldWalk
  <1> QED BY <1>2, <1>3, <1>4, <1>5, HeldOn

LEMMA HeldBlock ==
    ASSUME Walking, call.file = None, NEW buf, NEW hit, NEW stuck, NEW bad,
           SearchBlock(buf, hit, stuck, bad)
    PROVE  Held(call', inode_table')
  <1> DEFINE r == ext2_iget(inode_table, buf.entries[hit].ino, bad)
             c == [call EXCEPT !.n = @ + 1]
             h == [Idle EXCEPT !.pc = "hung"]
  <1>1. InUse(inode_table) \subseteq {call.dir}
    <2>1. None \notin InUse(inode_table)
      BY NoSlot, 3 \in {3, 4} DEF Walking
    <2> QED BY <2>1 DEF Walking
  <1>2. Slots(r.table, 3) /\ InUse(r.table) \subseteq InUse(inode_table) \cup {r.slot}
    BY IgetTakes DEF Walking
  <1>3. Held(c, inode_table)
    <2>1. MaySearch(c, "ext2") /\ c.pc = "walk" /\ c.dir = call.dir /\ c.file = call.file
      BY Fields DEF Walking, MaySearch
    <2> HIDE DEF c
    <2> QED BY <2>1, HeldWalk DEF Walking
  <1>4. Held(h, inode_table)
    <2>1. h.pc = "hung"
      BY DEF Idle
    <2> QED BY <2>1, IdleSound, HeldOut DEF Walking
  <1> HIDE DEF r, c, h
  <1>5. \/ NextInode(r, bad)
        \/ inode_table' = inode_table /\ GoOn(bad, c)
        \/ inode_table' = inode_table /\ GoOn(bad, h)
    BY Zenon DEF SearchBlock, r, c, h
  <1>6. ASSUME NextInode(r, bad) PROVE Held(call', inode_table')
    BY <1>1, <1>2, <1>6, HeldNext
  <1> QED BY <1>3, <1>4, <1>5, <1>6, HeldOn

LEMMA HeldEnter ==
    ASSUME Walking, EnterDirectory
    PROVE  Held(call', inode_table')
  <1> DEFINE c == [call EXCEPT !.dir = call.file, !.file = None, !.n = 0]
             one == ext2_iput(inode_table, call.dir)
             two == ext2_iput(one, call.file)
  <1>1. Slots(one, 3) /\ InUse(one) \subseteq {call.file}
    <2>1. Slots(one, 3) /\ InUse(one) \subseteq InUse(inode_table) \ {call.dir}
      BY IputFrees DEF Walking
    <2> QED BY <2>1 DEF Walking
  <1>2. Slots(two, 3) /\ InUse(two) = {}
    <2> HIDE DEF one
    <2>1. Slots(two, 3) /\ InUse(two) \subseteq InUse(one) \ {call.file}
      BY <1>1, IputFrees
    <2> QED BY <1>1, <2>1
  <1>3. MaySearch(c, "ext2") /\ c.pc = "walk" /\ c.dir = call.file
    BY Fields DEF Walking, MaySearch
  <1>4. \/ inode_table' = one /\ GoOn({}, c)
        \/ inode_table' = two /\ GoOn({}, Found(call, None))
    BY Zenon DEF EnterDirectory
  <1> HIDE DEF c, one, two
  <1>5. Held(c, one)
    BY <1>1, <1>3, HeldWalk
  <1>6. Held(Found(call, None), two)
    BY <1>2, HeldFound DEF Walking
  <1> QED BY <1>4, <1>5, <1>6, HeldOn

LEMMA HeldEnds ==
    ASSUME Walking, SearchEnds \/ NotInDirectory
    PROVE  Held(call', inode_table')
  <1> DEFINE put == ext2_iput(inode_table, call.dir)
  <1>1. Slots(put, 3) /\ InUse(put) \subseteq InUse(inode_table) \ {call.dir}
    BY IputFrees DEF Walking
  <1>2. None \notin InUse(inode_table)
    BY NoSlot, 3 \in {3, 4} DEF Walking
  <1>3. \/ call.file # None /\ inode_table' = put /\ GoOn({}, Found(call, call.file))
        \/ call.file = None /\ inode_table' = put /\ GoOn({}, Found(call, None))
    BY DEF SearchEnds, NotInDirectory, InDirectory
  <1> HIDE DEF put
  <1>4. CASE call.file # None
    <2>1. Held(Found(call, call.file), put)
      BY <1>1, <1>4, HeldFound DEF Walking
    <2> QED BY <1>3, <1>4, <2>1, HeldOn
  <1>5. CASE call.file = None
    <2>1. InUse(put) = {}
      BY <1>1, <1>2, <1>5 DEF Walking
    <2>2. Held(Found(call, None), put)
      BY <1>1, <2>1, HeldFound DEF Walking
    <2> QED BY <1>3, <1>5, <2>2, HeldOn
  <1> QED BY <1>4, <1>5

\* A mount that succeeds goes on to the search with all slots free, and one
\* that fails to no search.
LEMMA MountSound ==
    ASSUME Sound(call), call.pc = "mount", NEW fs, call.fs = fs, NEW mounted
    PROVE  OnFs(fs_mount_result(mounted), fs) /\ fs_mount_result(mounted).pc # "walk"
  <1> DEFINE o == [call EXCEPT !.pc = "open"]
             s == [call EXCEPT !.pc = "close"]
             n == [call EXCEPT !.fs = NextFs[call.fs]]
  <1>1. OnFs(s, fs) /\ s.pc = "close" /\ OnFs(n, fs) /\ n.pc = "mount"
    BY Fields DEF OnFs, Sound, Waiting
  <1>2. call.op # "chdev" => OnFs(o, fs) /\ o.pc = "open"
    BY Fields DEF OnFs, Sound, Waiting
  <1>3. \/ call.op # "chdev" /\ fs_mount_result(mounted) = o
        \/ fs_mount_result(mounted) = s
        \/ fs_mount_result(mounted) = n
        \/ fs_mount_result(mounted) = Done(call)
    BY DEF fs_mount_result
  <1> HIDE DEF o, s, n
  <1> QED BY <1>1, <1>2, <1>3, DoneSound

\* A command that goes on reading or listing.
LEMMA StaysOn ==
    ASSUME Sound(call), call.pc \in {"list", "read"}, NEW fs, call.fs = fs
    PROVE  /\ \A x : LET c == [call EXCEPT !.n = @ + 1, !.out = x]
                     IN  OnFs(c, fs) /\ c.pc = call.pc
           /\ \A x : LET c == [call EXCEPT !.pc = "close", !.out = x]
                     IN  OnFs(c, fs) /\ c.pc = "close"
           /\ LET c == [call EXCEPT !.pc = "close"]
              IN  OnFs(c, fs) /\ c.pc = "close"
  BY Fields DEF OnFs, Sound, Waiting

LEMMA ListKeeps ==
    ASSUME NEW table, Slots(table, 3), NEW free, NEW got, NEW entries
    PROVE  Slots(GotAndPut(table, free, got, entries), 3)
  <1> DEFINE s == Min(free)
             i == InodeAt(entries[Max(got)].ino)
             new == [table EXCEPT ![s].inode = i]
  <1>1. GotAndPut(table, free, got, entries) = table \/ GotAndPut(table, free, got, entries) = new
    BY DEF GotAndPut
  <1> HIDE DEF s, i
  <1>2. /\ DOMAIN new = DOMAIN table
        /\ \A x \in DOMAIN table : new[x] = IF x = s THEN [table[x] EXCEPT !.inode = i] ELSE table[x]
    OBVIOUS
  <1>3. \A x \in DOMAIN table : DOMAIN new[x] = DOMAIN table[x]
    BY <1>2
  <1> HIDE DEF new
  <1>4. Slots(new, 3)
    BY <1>2, <1>3 DEF Slots
  <1> QED BY <1>1, <1>4

LEMMA HeldReading ==
    ASSUME Sound(call), Slots(inode_table, 3), call.pc \in {"list", "read"}, call.fs = "ext2",
           ext2_bread \/ ext2_ls_block \/ ext2_ls_ends
    PROVE  Held(call', inode_table')
  <1>1. ASSUME NEW table, Slots(table, 3)
        PROVE  /\ \A x : Held([call EXCEPT !.n = @ + 1, !.out = x], table)
               /\ \A x : Held([call EXCEPT !.pc = "close", !.out = x], table)
               /\ Held([Idle EXCEPT !.pc = "hung"], table)
    <2>1. \A x : Held([call EXCEPT !.n = @ + 1, !.out = x], table)
      <3> SUFFICES ASSUME NEW x PROVE Held([call EXCEPT !.n = @ + 1, !.out = x], table)
        OBVIOUS
      <3> DEFINE c == [call EXCEPT !.n = @ + 1, !.out = x]
      <3>1. OnFs(c, "ext2") /\ c.pc = call.pc
        BY StaysOn
      <3> HIDE DEF c
      <3>2. Held(c, table)
        BY <1>1, <3>1, HeldOut
      <3> QED BY <3>2 DEF c
    <2>2. \A x : Held([call EXCEPT !.pc = "close", !.out = x], table)
      <3> SUFFICES ASSUME NEW x PROVE Held([call EXCEPT !.pc = "close", !.out = x], table)
        OBVIOUS
      <3> DEFINE c == [call EXCEPT !.pc = "close", !.out = x]
      <3>1. OnFs(c, "ext2") /\ c.pc = "close"
        BY StaysOn
      <3> HIDE DEF c
      <3>2. Held(c, table)
        BY <1>1, <3>1, HeldOut
      <3> QED BY <3>2 DEF c
    <2>3. Held([Idle EXCEPT !.pc = "hung"], table)
      <3> DEFINE c == [Idle EXCEPT !.pc = "hung"]
      <3>1. OnFs(c, "ext2") /\ c.pc = "hung"
        BY IdleSound DEF Idle
      <3> HIDE DEF c
      <3>2. Held(c, table)
        BY <1>1, <3>1, HeldOut
      <3> QED BY <3>2 DEF c
    <2> QED BY <2>1, <2>2, <2>3
  <1>2. CASE ext2_bread
    <2> DEFINE c(x) == [call EXCEPT !.n = @ + 1, !.out = x]
    <2>1. \A x : [call EXCEPT !.out = x, !.n = @ + 1] = c(x)
      OBVIOUS
    <2>2. PICK bad, m : GoOn(bad, [call EXCEPT !.out = m.buf, !.n = @ + 1])
      BY <1>2, Zenon DEF ext2_bread
    <2>3. GoOn(bad, c(m.buf))
      BY <2>1, <2>2, Zenon
    <2>4. Held(c(m.buf), inode_table)
      BY <1>1
    <2> HIDE DEF c
    <2>5. inode_table' = inode_table
      BY <1>2 DEF ext2_bread
    <2> QED BY <2>3, <2>4, <2>5, HeldOn
  <1>3. CASE ext2_ls_block
    <2> DEFINE h == [Idle EXCEPT !.pc = "hung"]
               c(m) == [call EXCEPT !.n = @ + 1, !.out = Names(@.names \o EntryNames(m.buf))]
    <2>1. PICK bad, stuck, m : /\ inode_table' = ListInodes(Entries(m.buf), bad)
                               /\ GoOn(bad, IF Endless(m.buf, stuck) THEN h ELSE c(m))
      BY <1>3, Zenon DEF ext2_ls_block
    <2>2. Slots(inode_table', 3)
      BY <2>1, ListKeeps DEF ListInodes
    <2> DEFINE x == Names(call.out.names \o EntryNames(m.buf))
    <2>3. c(m) = [call EXCEPT !.n = @ + 1, !.out = x]
      OBVIOUS
    <2>4. Held(h, inode_table') /\ Held(c(m), inode_table')
      <3> HIDE DEF x, c
      <3>1. Held(h, inode_table') /\ Held([call EXCEPT !.n = @ + 1, !.out = x], inode_table')
        BY <1>1, <2>2
      <3> HIDE DEF h
      <3> QED BY <2>3, <3>1
    <2> HIDE DEF h, c
    <2>5. GoOn(bad, h) \/ GoOn(bad, c(m))
      BY <2>1, Zenon
    <2> QED BY <2>4, <2>5, HeldOn
  <1>4. CASE ext2_ls_ends
    <2> DEFINE put == ext2_iput(inode_table, call.fd)
               c(x) == [call EXCEPT !.pc = "close", !.out = x]
    <2>1. inode_table' = put /\ \E x : GoOn({}, c(x))
      BY <1>4 DEF ext2_ls_ends
    <2>2. Slots(put, 3)
      BY IputFrees
    <2> HIDE DEF put, c
    <2>3. \A x : Held(c(x), put)
      BY <1>1, <2>2, Zenon DEF c
    <2> QED BY <2>1, <2>3, HeldOn
  <1> QED BY <1>2, <1>3, <1>4

LEMMA Ext2Held ==
    ASSUME Sound(call), Slots(inode_table, 3),
           call.fs = "ext2" => Tidy(call, InUse(inode_table)), ext2_Next
    PROVE  Held(call', inode_table')
  <1>1. CASE ext2_mount
    <2>1. Slots(EmptyTable, 3) /\ InUse(EmptyTable) = {}
      BY DEF Slots, InUse, EmptyTable, MAX_OPEN_FILES
    <2>2. PICK bad, mounted : GoOn(bad, fs_mount_result(mounted))
      BY <1>1, Zenon DEF ext2_mount
    <2>3. Held(fs_mount_result(mounted), EmptyTable)
      BY <1>1, <2>1, MountSound DEF ext2_mount, At, Held, Tidy
    <2>4. inode_table' = EmptyTable
      BY <1>1 DEF ext2_mount
    <2> QED BY <2>2, <2>3, <2>4, HeldOn
  <1>2. CASE ext2_open
    <2> DEFINE c == [call EXCEPT !.names = call.path.names, !.dir = None, !.links = 0]
    <2>1. MaySearch(c, "ext2")
      BY <1>2, Fields DEF ext2_open, At, MaySearch, Sound, Waiting
    <2>2. InUse(inode_table) = {}
      BY <1>2 DEF ext2_open, At, Tidy
    <2>3. PICK bad : FromRoot(c, inode_table, bad)
      BY <1>2, Zenon DEF ext2_open
    <2> HIDE DEF c
    <2> QED BY <2>1, <2>2, <2>3, HeldFromRoot
  <1>3. ASSUME At("walk", "ext2") PROVE Walking
    BY <1>3 DEF At, Walking, MaySearch, Sound, Waiting, Tidy
  <1>4. CASE EnterDirectory
    BY <1>3, <1>4, HeldEnter DEF EnterDirectory, Searching
  <1>5. CASE SearchDirectory
    <2>1. \E buf, hit, stuck, bad : SearchBlock(buf, hit, stuck, bad)
      BY <1>5, Zenon DEF SearchDirectory
    <2>2. Walking /\ call.file = None
      BY <1>3, <1>5 DEF SearchDirectory, InDirectory, Searching
    <2> QED BY <2>1, <2>2, HeldBlock
  <1>6. CASE SearchEnds \/ NotInDirectory
    BY <1>3, <1>6, HeldEnds DEF SearchEnds, NotInDirectory, InDirectory, Searching
  <1>7. CASE FollowInside \/ FollowSlowInside
    <2>1. \E text, bad : ReplaceInside(text, bad)
      BY <1>7, Zenon DEF FollowInside, FollowSlowInside
    <2> QED BY <1>3, <1>7, <2>1, HeldInside
        DEF FollowInside, FollowSlowInside, LinkInside, Searching
  <1>8. CASE FollowLast \/ FollowSlowLast
    <2>1. \E text, bad : ReplaceLast(text, bad)
      BY <1>8, Zenon DEF FollowLast, FollowSlowLast
    <2> QED BY <1>3, <1>8, <2>1, HeldLast DEF FollowLast, FollowSlowLast, LinkLast, Searching
  <1>9. CASE ext2_bread \/ ext2_ls_block \/ ext2_ls_ends
    BY <1>9, HeldReading DEF ext2_bread, ext2_ls_block, ext2_ls_ends, At
  <1>10. CASE ext2_close
    <2>1. Slots(ext2_iput(inode_table, 0), 3)
      BY IputFrees
    <2>2. Held(Done(call), ext2_iput(inode_table, 0))
      BY <2>1, DoneSound, HeldOut
    <2> QED BY <1>10, <2>2, HeldOn DEF ext2_close
  <1> QED BY <1>1, <1>2, <1>4, <1>5, <1>6, <1>7, <1>8, <1>9, <1>10 DEF ext2_Next

-----------------------------------------------------------------------------
(* The searches of the msdos and the iso9660 reader, which may leave the   *)
(* inode of a first try behind.                                            *)

NearlyHeld(c, fs, table) == OnFs(c, fs) /\ Slots(table, 4) /\ AlmostTidy(c, InUse(table))

LEMMA NearlyOn ==
    ASSUME NEW bad, NEW c, NEW fs, NEW table, NearlyHeld(c, fs, table), GoOn(bad, c)
    PROVE  NearlyHeld(call', fs, table)
  BY GoOnKeeps DEF NearlyHeld

LEMMA NearlyOut ==
    ASSUME NEW c, NEW fs, NEW table, OnFs(c, fs), c.pc \notin {"open", "walk"}, Slots(table, 4)
    PROVE  NearlyHeld(c, fs, table)
  BY DEF NearlyHeld, AlmostTidy

LEMMA NearlyFound ==
    ASSUME NEW c, NEW fs, MaySearch(c, fs), NEW slot, NEW table, Slots(table, 4),
           NEW k, slot = None /\ FirstTry(c) => InUse(table) \subseteq {k}
    PROVE  NearlyHeld(Found(c, slot), fs, table)
  <1> DEFINE f == Found(c, slot)
  <1>1. /\ OnFs(f, fs) /\ f.pc # "walk"
        /\ f.pc = "open" => slot = None /\ FirstTry(c) /\ ~FirstTry(f)
    BY FoundSound
  <1> HIDE DEF f
  <1>2. AlmostTidy(f, InUse(table))
    <2>1. CASE f.pc = "open"
      BY <1>1, <2>1 DEF AlmostTidy
    <2>2. CASE f.pc # "open"
      BY <1>1, <2>2 DEF AlmostTidy
    <2> QED BY <2>1, <2>2
  <1> QED BY <1>1, <1>2 DEF NearlyHeld, f

LEMMA NearlyWalk ==
    ASSUME NEW c, NEW fs, MaySearch(c, fs), c.pc = "walk", NEW table, Slots(table, 4),
           NEW k, FirstTry(c) => k = None, InUse(table) \subseteq {k, c.file}
    PROVE  NearlyHeld(c, fs, table)
  <1>1. OnFs(c, fs)
    BY DEF OnFs, Sound, MaySearch, Waiting
  <1>2. AlmostTidy(c, InUse(table))
    BY DEF AlmostTidy
  <1> QED BY <1>1, <1>2 DEF NearlyHeld

\* Filling in an inode neither takes nor frees a slot.
LEMMA FillKeeps ==
    ASSUME NEW table, Slots(table, 4), NEW slot, NEW entry,
           slot \in DOMAIN table => "free" \in DOMAIN entry /\ entry.free = table[slot].free
    PROVE  /\ Slots([table EXCEPT ![slot] = entry], 4)
           /\ InUse([table EXCEPT ![slot] = entry]) = InUse(table)
  BY DEF Slots, InUse

LEMMA FreeFrees ==
    ASSUME NEW table, Slots(table, 4), NEW slot
    PROVE  /\ Slots(free_inode(table, slot), 4)
           /\ InUse(free_inode(table, slot)) \subseteq InUse(table) \ {slot}
  <1>1. free_inode(table, slot) = [table EXCEPT ![slot].free = TRUE]
    BY DEF free_inode
  <1> QED BY <1>1, PutFrees, 4 \in {3, 4}, Zenon

LEMMA IsoPutFrees ==
    ASSUME NEW table, Slots(table, 4), NEW slot
    PROVE  /\ Slots(isofs_iput(table, slot), 4)
           /\ InUse(isofs_iput(table, slot)) \subseteq InUse(table) \ {slot}
  <1>1. isofs_iput(table, slot) = [table EXCEPT ![slot].free = TRUE, ![slot].ino = 0]
    BY DEF isofs_iput
  <1> QED BY <1>1, PutFrees, 4 \in {3, 4}, Zenon

LEMMA AllocateTakes ==
    ASSUME NEW table, Slots(table, 4), NEW e, NEW r, r = allocate_inode(table, e)
    PROVE  Slots(r.table, 4) /\ InUse(r.table) \subseteq InUse(table) \cup {r.slot}
  <1> DEFINE s == Min({ x \in DOMAIN table : table[x].free })
             entry == [free |-> FALSE, name |-> e.name, dir |-> e.dir, start |-> e.start,
                       size |-> e.size, list |-> <<>>, blocks |-> 0]
             new == [table EXCEPT ![s] = entry]
  <1>1. "free" \in DOMAIN entry
    OBVIOUS
  <1>2. r = [table |-> table, slot |-> None] \/ r = [table |-> new, slot |-> s]
    BY Zenon DEF allocate_inode
  <1>3. new = [table EXCEPT ![s] = entry]
    OBVIOUS
  <1> HIDE DEF entry, s, new
  <1>4. Slots(new, 4) /\ InUse(new) \subseteq InUse(table) \cup {s}
    BY <1>1, <1>3, GetTakes, 4 \in {3, 4}
  <1> QED BY <1>2, <1>4

LEMMA IsoGetTakes ==
    ASSUME NEW table, Slots(table, 4), NEW ino, NEW raw, NEW bad, NEW r,
           r = isofs_iget(table, ino, raw, bad)
    PROVE  Slots(r.table, 4) /\ InUse(r.table) \subseteq InUse(table) \cup {r.slot}
  <1> DEFINE s == Min({ x \in DOMAIN table : table[x].free })
             entry == InodeOf(ino, raw)
             new == [table EXCEPT ![s] = entry]
  <1>1. "free" \in DOMAIN entry
    BY DEF InodeOf
  <1>2. r = [table |-> table, slot |-> None] \/ r = [table |-> new, slot |-> s]
    BY Zenon DEF isofs_iget
  <1>3. new = [table EXCEPT ![s] = entry]
    OBVIOUS
  <1> HIDE DEF entry, s, new
  <1>4. Slots(new, 4) /\ InUse(new) \subseteq InUse(table) \cup {s}
    BY <1>1, <1>3, GetTakes, 4 \in {3, 4}
  <1> QED BY <1>2, <1>4

LEMMA RootTakes ==
    ASSUME NEW table, Slots(table, 4), NEW r, r = msdos_build_root_inode(table)
    PROVE  Slots(r.table, 4) /\ InUse(r.table) \subseteq InUse(table) \cup {r.slot}
  <1> DEFINE size == msdos_sb.dir_entries * EntrySize
             blocks == (size + SECTOR_SIZE - 1) \div SECTOR_SIZE
             e == [name |-> "", dir |-> TRUE, start |-> msdos_sb.dir_start, size |-> size]
             a == allocate_inode(table, e)
             list == [i \in 1 .. blocks |-> Short(msdos_sb.dir_start + i - 1)]
  <1>1. Slots(a.table, 4) /\ InUse(a.table) \subseteq InUse(table) \cup {a.slot}
    BY AllocateTakes
  <1>2. r = [a EXCEPT !.table[a.slot].list = list]
    BY Zenon DEF msdos_build_root_inode
  <1>3. DOMAIN a = {"table", "slot"}
    BY DEF allocate_inode
  <1> HIDE DEF a, list
  <1> DEFINE t == a.table
             entry == [t[a.slot] EXCEPT !.list = list]
             new == [t EXCEPT ![a.slot] = entry]
  <1>4. r.table = new /\ r.slot = a.slot
    BY <1>2, <1>3
  <1>5. a.slot \in DOMAIN t => "free" \in DOMAIN entry /\ entry.free = t[a.slot].free
    BY <1>1 DEF Slots
  <1> HIDE DEF entry, t
  <1>6. Slots(t, 4)
    BY <1>1 DEF t
  <1>7. Slots(new, 4) /\ InUse(new) = InUse(t)
    BY <1>5, <1>6, FillKeeps
  <1> QED BY <1>1, <1>4, <1>7 DEF t

LEMMA ListFills ==
    ASSUME NEW table, Slots(table, 4), NEW slot, NEW chain
    PROVE  /\ Slots([table EXCEPT ![slot] = fill_block_list(@, chain)], 4)
           /\ InUse([table EXCEPT ![slot] = fill_block_list(@, chain)]) = InUse(table)
  <1> DEFINE entry == fill_block_list(table[slot], chain)
  <1>1. slot \in DOMAIN table => "free" \in DOMAIN entry /\ entry.free = table[slot].free
    BY DEF Slots, fill_block_list
  <1>2. [table EXCEPT ![slot] = fill_block_list(@, chain)] = [table EXCEPT ![slot] = entry]
    OBVIOUS
  <1> HIDE DEF entry
  <1> QED BY <1>1, <1>2, FillKeeps

LEMMA SizedFills ==
    ASSUME NEW table, Slots(table, 4), NEW slot, NEW dir, dir \in Sized(table[slot])
    PROVE  /\ Slots([table EXCEPT ![slot] = dir], 4)
           /\ InUse([table EXCEPT ![slot] = dir]) = InUse(table)
  <1>1. dir = table[slot] \/ \E chain : dir = SizedBy(table[slot], chain)
    BY Zenon DEF Sized
  <1>2. slot \in DOMAIN table => "free" \in DOMAIN dir /\ dir.free = table[slot].free
    <2>1. ASSUME slot \in DOMAIN table, NEW chain
          PROVE  /\ "free" \in DOMAIN SizedBy(table[slot], chain)
                 /\ SizedBy(table[slot], chain).free = table[slot].free
      BY <2>1 DEF Slots, SizedBy, fill_block_list
    <2> QED BY <1>1, <2>1 DEF Slots
  <1> QED BY <1>2, FillKeeps

LEMMA NearlyOpened ==
    ASSUME MaySearch(call, "msdos"), NEW table, Slots(table, 4), NEW slot,
           FirstTry(call) => InUse(table) \subseteq {slot}, NEW bad, Opened(table, slot, bad)
    PROVE  NearlyHeld(call', "msdos", msdos_table')
  <1>1. /\ Slots(free_inode(table, slot), 4)
        /\ InUse(free_inode(table, slot)) \subseteq InUse(table) \ {slot}
    BY FreeFrees
  <1>2. /\ Slots(table, 4)
        /\ \A s : NearlyHeld(Found(call, s), "msdos", table)
        /\ NearlyHeld(Found(call, None), "msdos", free_inode(table, slot))
    BY <1>1, NearlyFound
  <1>3. CASE call.op = "ls"
    BY <1>2, <1>3, NearlyOn DEF Opened
  <1>4. CASE call.op # "ls"
    <2>1. PICK chain :
            /\ msdos_table' = IF chain = <<>> THEN free_inode(table, slot)
                              ELSE [table EXCEPT ![slot] = fill_block_list(@, chain)]
            /\ GoOn(bad, Found(call, IF chain = <<>> THEN None ELSE slot))
      BY <1>4, Zenon DEF Opened
    <2> DEFINE new == [table EXCEPT ![slot] = fill_block_list(@, chain)]
    <2>2. Slots(new, 4) /\ InUse(new) = InUse(table)
      BY ListFills
    <2> HIDE DEF new
    <2>3. NearlyHeld(Found(call, slot), "msdos", new)
      BY <2>2, NearlyFound
    <2>4. \/ msdos_table' = free_inode(table, slot) /\ GoOn(bad, Found(call, None))
          \/ msdos_table' = new /\ GoOn(bad, Found(call, slot))
      BY <2>1, Zenon DEF new
    <2> QED BY <1>2, <2>3, <2>4, NearlyOn
  <1> QED BY <1>3, <1>4

\* A search of the reader of fs under way.
WalkingOn(fs, table) ==
    MaySearch(call, fs) /\ call.pc = "walk" /\ Slots(table, 4) /\ AlmostTidy(call, InUse(table))

LEMMA NearlyEntered ==
    ASSUME NEW table, WalkingOn("msdos", table), NEW entry, NEW bad, Entered(table, entry, bad)
    PROVE  NearlyHeld(call', "msdos", msdos_table')
  <1>1. PICK r : /\ r = allocate_inode(table, entry)
                 /\ \E t \in {free_inode(r.table, call.file)} :
                    IF r.slot = None \/ (entry.dir /\ entry.size # 0)
                    THEN msdos_table' = t /\ GoOn(bad, Found(call, None))
                    ELSE IF Len(call.names) = 1 THEN Opened(t, r.slot, bad)
                    ELSE msdos_table' = t
                         /\ GoOn(bad, [call EXCEPT !.names = Tail(@), !.file = r.slot])
    BY Zenon DEF Entered
  <1>2. PICK k : (FirstTry(call) => k = None) /\ InUse(table) \subseteq {k, call.file}
    BY DEF WalkingOn, AlmostTidy
  <1> DEFINE t == free_inode(r.table, call.file)
             c == [call EXCEPT !.names = Tail(@), !.file = r.slot]
  <1>3. Slots(r.table, 4) /\ InUse(r.table) \subseteq InUse(table) \cup {r.slot}
    BY <1>1, AllocateTakes DEF WalkingOn
  <1>4. Slots(t, 4) /\ InUse(t) \subseteq InUse(r.table) \ {call.file}
    BY <1>3, FreeFrees
  <1>5. \/ msdos_table' = t /\ GoOn(bad, Found(call, None))
        \/ Opened(t, r.slot, bad)
        \/ msdos_table' = t /\ GoOn(bad, c)
    BY <1>1, Zenon
  <1>6. MaySearch(c, "msdos") /\ c.pc = "walk" /\ c.file = r.slot /\ (FirstTry(c) => FirstTry(call))
    BY Fields DEF WalkingOn, MaySearch, FirstTry
  <1> HIDE DEF t, c
  <1>7. InUse(t) \subseteq {k, r.slot} /\ (FirstTry(call) => InUse(t) \subseteq {r.slot})
    <2>1. None \notin InUse(t)
      BY <1>4, NoSlot, 4 \in {3, 4}
    <2> QED BY <1>2, <1>3, <1>4, <2>1
  <1>8. NearlyHeld(Found(call, None), "msdos", t)
    BY <1>4, <1>7, NearlyFound DEF WalkingOn
  <1>9. NearlyHeld(c, "msdos", t)
    BY <1>2, <1>4, <1>6, <1>7, NearlyWalk
  <1>10. Opened(t, r.slot, bad) => NearlyHeld(call', "msdos", msdos_table')
    BY <1>4, <1>7, NearlyOpened DEF WalkingOn
  <1> QED BY <1>5, <1>8, <1>9, <1>10, NearlyOn

\* A search fails and frees its slot, or enters what it found in the sized directory.
LEMMA MsdosLooks ==
    ASSUME msdos_search_directory
    PROVE  \E bad \in Bad, dir \in Sized(msdos_table[call.file]) :
             \/ /\ msdos_table' = free_inode([msdos_table EXCEPT ![call.file] = dir], call.file)
                /\ GoOn(bad, Found(call, None))
             \/ \E e : Entered([msdos_table EXCEPT ![call.file] = dir], e, bad)
  <1> DEFINE t(dir) == [msdos_table EXCEPT ![call.file] = dir]
             Fails(bad) == GoOn(bad, Found(call, None))
             Hit(entries) == { i \in DOMAIN entries : entries[i].name = Head(call.names) }
             Put(table) == msdos_table' = free_inode(table, call.file)
  <1>1. PICK bad \in Bad, dir \in Sized(msdos_table[call.file]) :
        \E table \in {t(dir)} : \E entries \in {msdos_readdir(dir, bad)} :
        \E hits \in {Hit(entries)} :
            IF hits = {} THEN Put(table) /\ Fails(bad)
            ELSE Entered(table, entries[Min(hits)], bad)
    BY Zenon DEF msdos_search_directory
  <1> HIDE DEF t, Fails, Hit, Put
  <1>2. (Put(t(dir)) /\ Fails(bad)) \/ \E e : Entered(t(dir), e, bad)
    BY <1>1, Zenon
  <1> QED BY <1>2, Zenon DEF t, Fails, Put

LEMMA NearlySearched ==
    ASSUME WalkingOn("msdos", msdos_table), msdos_search_directory
    PROVE  NearlyHeld(call', "msdos", msdos_table')
  <1>1. PICK bad \in Bad, dir \in Sized(msdos_table[call.file]) :
           \/ /\ msdos_table' = free_inode([msdos_table EXCEPT ![call.file] = dir], call.file)
              /\ GoOn(bad, Found(call, None))
           \/ \E e : Entered([msdos_table EXCEPT ![call.file] = dir], e, bad)
    BY MsdosLooks
  <1> DEFINE t == [msdos_table EXCEPT ![call.file] = dir]
             f == free_inode(t, call.file)
  <1>2. Slots(t, 4) /\ InUse(t) = InUse(msdos_table)
    BY SizedFills DEF WalkingOn
  <1> HIDE DEF t
  <1>3. Slots(f, 4) /\ InUse(f) \subseteq InUse(t) \ {call.file}
    BY <1>2, FreeFrees
  <1>4. \/ msdos_table' = f /\ GoOn(bad, Found(call, None))
        \/ \E e : Entered(t, e, bad)
    BY <1>1, Zenon DEF t
  <1>5. WalkingOn("msdos", t)
    BY <1>2 DEF WalkingOn
  <1> HIDE DEF f
  <1>6. PICK k : (FirstTry(call) => k = None) /\ InUse(t) \subseteq {k, call.file}
    BY <1>5 DEF WalkingOn, AlmostTidy
  <1>7. InUse(f) \subseteq {k}
    BY <1>3, <1>6
  <1>8. NearlyHeld(Found(call, None), "msdos", f)
    BY <1>3, <1>7, NearlyFound DEF WalkingOn
  <1> QED BY <1>4, <1>5, <1>8, NearlyEntered, NearlyOn

LEMMA NearlyRoot ==
    ASSUME MaySearch(call, "msdos"), call.pc = "open", Slots(msdos_table, 4),
           AlmostTidy(call, InUse(msdos_table)), msdos_open
    PROVE  NearlyHeld(call', "msdos", msdos_table')
  <1> DEFINE r == msdos_build_root_inode(msdos_table)
             c == [call EXCEPT !.pc = "walk", !.names = call.path.names, !.file = r.slot]
  <1>1. PICK bad : \/ msdos_table' = r.table /\ GoOn(bad, Found(call, None))
                   \/ Opened(r.table, r.slot, bad)
                   \/ msdos_table' = r.table /\ GoOn(bad, c)
    BY Zenon DEF msdos_open
  <1>2. PICK k : (FirstTry(call) => k = None) /\ InUse(msdos_table) \subseteq {k}
    BY DEF AlmostTidy
  <1>3. Slots(r.table, 4) /\ InUse(r.table) \subseteq InUse(msdos_table) \cup {r.slot}
    BY RootTakes
  <1> HIDE DEF r
  <1>4. MaySearch(c, "msdos") /\ c.pc = "walk" /\ c.file = r.slot /\ (FirstTry(c) => FirstTry(call))
    BY Fields DEF MaySearch, FirstTry
  <1> HIDE DEF c
  <1>5. FirstTry(call) => InUse(r.table) \subseteq {r.slot}
    <2>1. None \notin InUse(msdos_table)
      BY NoSlot, 4 \in {3, 4}
    <2> QED BY <1>2, <1>3, <2>1
  <1>6. NearlyHeld(Found(call, None), "msdos", r.table)
    BY <1>3, <1>5, NearlyFound
  <1>7. InUse(r.table) \subseteq {k, c.file}
    BY <1>2, <1>3, <1>4
  <1>8. NearlyHeld(c, "msdos", r.table)
    BY <1>2, <1>3, <1>4, <1>7, NearlyWalk
  <1> QED BY <1>1, <1>3, <1>5, <1>6, <1>8, NearlyOpened, NearlyOn

\* A command that goes on reading or listing needs no slot.
LEMMA NearlyStays ==
    ASSUME Sound(call), call.pc \in {"list", "read"}, NEW fs, call.fs = fs,
           NEW table, Slots(table, 4)
    PROVE  /\ \A x : NearlyHeld([call EXCEPT !.n = @ + 1, !.out = x], fs, table)
           /\ \A x : NearlyHeld([call EXCEPT !.pc = "close", !.out = x], fs, table)
           /\ NearlyHeld([call EXCEPT !.pc = "close"], fs, table)
  <1>1. ASSUME NEW c, OnFs(c, fs), c.pc \in {"list", "read", "close"}
        PROVE  NearlyHeld(c, fs, table)
    BY <1>1, NearlyOut
  <1>2. ASSUME NEW x PROVE NearlyHeld([call EXCEPT !.n = @ + 1, !.out = x], fs, table)
    <2> DEFINE c == [call EXCEPT !.n = @ + 1, !.out = x]
    <2>1. OnFs(c, fs) /\ c.pc = call.pc
      BY StaysOn
    <2> HIDE DEF c
    <2>2. NearlyHeld(c, fs, table)
      BY <1>1, <2>1
    <2> QED BY <2>2 DEF c
  <1>3. ASSUME NEW x PROVE NearlyHeld([call EXCEPT !.pc = "close", !.out = x], fs, table)
    <2> DEFINE c == [call EXCEPT !.pc = "close", !.out = x]
    <2>1. OnFs(c, fs) /\ c.pc = "close"
      BY StaysOn
    <2> HIDE DEF c
    <2>2. NearlyHeld(c, fs, table)
      BY <1>1, <2>1
    <2> QED BY <2>2 DEF c
  <1>4. NearlyHeld([call EXCEPT !.pc = "close"], fs, table)
    <2> DEFINE c == [call EXCEPT !.pc = "close"]
    <2>1. OnFs(c, fs) /\ c.pc = "close"
      BY StaysOn
    <2> HIDE DEF c
    <2>2. NearlyHeld(c, fs, table)
      BY <1>1, <2>1
    <2> QED BY <2>2 DEF c
  <1> QED BY <1>2, <1>3, <1>4

LEMMA MsdosHeld ==
    ASSUME Sound(call), Slots(msdos_table, 4),
           call.fs = "msdos" => AlmostTidy(call, InUse(msdos_table)), msdos_Next
    PROVE  NearlyHeld(call', "msdos", msdos_table')
  <1>1. CASE msdos_mount
    <2>1. Slots(EmptyDosTable, 4) /\ InUse(EmptyDosTable) = {}
      BY DEF Slots, InUse, EmptyDosTable, FreeSlot
    <2>2. PICK bad, mounted : GoOn(bad, fs_mount_result(mounted))
      BY <1>1, Zenon DEF msdos_mount
    <2>3. NearlyHeld(fs_mount_result(mounted), "msdos", EmptyDosTable)
      <3>1. OnFs(fs_mount_result(mounted), "msdos") /\ fs_mount_result(mounted).pc # "walk"
        BY <1>1, MountSound DEF msdos_mount, At
      <3>2. AlmostTidy(fs_mount_result(mounted), InUse(EmptyDosTable))
        BY <2>1, <3>1 DEF AlmostTidy
      <3> QED BY <2>1, <3>1, <3>2 DEF NearlyHeld
    <2>4. msdos_table' = EmptyDosTable
      BY <1>1 DEF msdos_mount
    <2> QED BY <2>2, <2>3, <2>4, NearlyOn
  <1>2. CASE msdos_open
    <2>1. MaySearch(call, "msdos") /\ call.pc = "open" /\ AlmostTidy(call, InUse(msdos_table))
      BY <1>2 DEF msdos_open, At, MaySearch, Sound, Waiting
    <2> QED BY <1>2, <2>1, NearlyRoot
  <1>3. CASE msdos_search_directory
    <2>1. WalkingOn("msdos", msdos_table)
      BY <1>3 DEF msdos_search_directory, At, WalkingOn, MaySearch, Sound, Waiting
    <2> QED BY <1>3, <2>1, NearlySearched
  <1>4. CASE msdos_ls
    <2> DEFINE c(x) == [call EXCEPT !.pc = "close", !.out = x]
    <2>1. \E bad, x : GoOn(bad, c(x))
      BY <1>4, MsdosLists
    <2>2. msdos_table' = free_inode(msdos_table, call.fd)
      BY <1>4 DEF msdos_ls
    <2>3. Slots(msdos_table', 4)
      BY <2>2, FreeFrees
    <2>4. \A x : NearlyHeld(c(x), "msdos", msdos_table')
      BY <1>4, <2>3, NearlyStays DEF msdos_ls, At
    <2> HIDE DEF c
    <2> QED BY <2>1, <2>4, NearlyOn
  <1>5. CASE msdos_bread
    <2> DEFINE c(x) == [call EXCEPT !.n = @ + 1, !.out = x]
               e == [call EXCEPT !.pc = "close"]
    <2>1. (\E bad : GoOn(bad, e)) \/ (\E bad, x : GoOn(bad, c(x)))
      BY <1>5, MsdosReads
    <2>2. msdos_table' = msdos_table
      BY <1>5 DEF msdos_bread
    <2>3. NearlyHeld(e, "msdos", msdos_table') /\ \A x : NearlyHeld(c(x), "msdos", msdos_table')
      BY <1>5, <2>2, NearlyStays DEF msdos_bread, At
    <2> HIDE DEF c, e
    <2> QED BY <2>1, <2>3, NearlyOn
  <1>6. CASE msdos_close
    <2>1. Slots(free_inode(msdos_table, 0), 4)
      BY FreeFrees
    <2>2. NearlyHeld(Done(call), "msdos", free_inode(msdos_table, 0))
      BY <2>1, DoneSound, NearlyOut
    <2> QED BY <1>6, <2>2, NearlyOn DEF msdos_close
  <1> QED BY <1>1, <1>2, <1>3, <1>4, <1>5, <1>6 DEF msdos_Next

LEMMA NearlyLookedUp ==
    ASSUME WalkingOn("iso9660", iso_table), isofs_lookup
    PROVE  NearlyHeld(call', "iso9660", iso_table')
  <1> DEFINE put == isofs_iput(iso_table, call.file)
  <1>1. PICK k : (FirstTry(call) => k = None) /\ InUse(iso_table) \subseteq {k, call.file}
    BY DEF WalkingOn, AlmostTidy
  <1>2. None \notin InUse(iso_table)
    BY NoSlot, 4 \in {3, 4} DEF WalkingOn
  <1>3. Slots(put, 4) /\ InUse(put) \subseteq InUse(iso_table) \ {call.file}
    BY IsoPutFrees DEF WalkingOn
  <1>4. PICK bad : \/ LookupFails(bad)
                   \/ \E ino, raw : LastOne(ino, raw, bad)
                   \/ \E ino, raw : Middle(ino, raw, bad)
    BY Zenon DEF isofs_lookup
  <1>5. CASE LookupFails(bad)
    <2>1. NearlyHeld(Found(call, None), "iso9660", iso_table)
      <3>1. FirstTry(call) => InUse(iso_table) \subseteq {call.file}
        BY <1>1, <1>2
      <3> QED BY <3>1, NearlyFound DEF WalkingOn
    <2>2. NearlyHeld(Found(call, None), "iso9660", put)
      <3> HIDE DEF put
      <3>1. InUse(put) \subseteq {k}
        BY <1>1, <1>3
      <3> QED BY <1>3, <3>1, NearlyFound DEF WalkingOn
    <2>3. GoOn(bad, Found(call, None)) /\ iso_table' \in {iso_table, put}
      BY <1>5 DEF LookupFails
    <2> HIDE DEF put
    <2> QED BY <2>1, <2>2, <2>3, NearlyOn
  <1>6. ASSUME NEW ino, NEW raw, LastOne(ino, raw, bad)
        PROVE  NearlyHeld(call', "iso9660", iso_table')
    <2>1. PICK r : /\ r = isofs_iget(iso_table, ino, raw, bad)
                   /\ iso_table' = isofs_iput(r.table, call.file)
                   /\ GoOn(bad, Found(call, r.slot))
      BY <1>6, Zenon DEF LastOne
    <2> DEFINE t == isofs_iput(r.table, call.file)
    <2>2. Slots(r.table, 4) /\ InUse(r.table) \subseteq InUse(iso_table) \cup {r.slot}
      BY <2>1, IsoGetTakes DEF WalkingOn
    <2>3. Slots(t, 4) /\ InUse(t) \subseteq InUse(r.table) \ {call.file}
      BY <2>2, IsoPutFrees
    <2> HIDE DEF t
    <2>4. None \notin InUse(t)
      BY <2>3, NoSlot, 4 \in {3, 4}
    <2>5. r.slot = None /\ FirstTry(call) => InUse(t) \subseteq {r.slot}
      BY <1>1, <2>2, <2>3, <2>4
    <2>6. NearlyHeld(Found(call, r.slot), "iso9660", t)
      BY <2>3, <2>5, NearlyFound DEF WalkingOn
    <2> QED BY <2>1, <2>6, NearlyOn DEF t
  <1>7. ASSUME NEW ino, NEW raw, Middle(ino, raw, bad)
        PROVE  NearlyHeld(call', "iso9660", iso_table')
    <2> DEFINE c(r) == [call EXCEPT !.names = Tail(@), !.file = r.slot]
    <2>1. PICK r : /\ r = isofs_iget(put, ino, raw, bad)
                   /\ iso_table' = r.table
                   /\ GoOn(bad, IF r.slot = None THEN Found(call, None) ELSE c(r))
      BY <1>7, Zenon DEF Middle
    <2> HIDE DEF put
    <2>2. Slots(r.table, 4) /\ InUse(r.table) \subseteq InUse(put) \cup {r.slot}
      BY <1>3, <2>1, IsoGetTakes
    <2>3. InUse(r.table) \subseteq {k, r.slot} /\ (FirstTry(call) => InUse(r.table) \subseteq {r.slot})
      <3>1. None \notin InUse(put)
        BY <1>3, NoSlot, 4 \in {3, 4}
      <3> QED BY <1>1, <1>3, <2>2, <3>1
    <2>4. /\ MaySearch(c(r), "iso9660") /\ c(r).pc = "walk" /\ c(r).file = r.slot
          /\ FirstTry(c(r)) => FirstTry(call)
      BY Fields DEF WalkingOn, MaySearch, FirstTry
    <2> HIDE DEF c
    <2>5. NearlyHeld(Found(call, None), "iso9660", r.table)
      BY <2>2, <2>3, NearlyFound DEF WalkingOn
    <2>6. NearlyHeld(c(r), "iso9660", r.table)
      BY <1>1, <2>2, <2>3, <2>4, NearlyWalk
    <2>7. GoOn(bad, Found(call, None)) \/ GoOn(bad, c(r))
      BY <2>1, Zenon
    <2> QED BY <2>1, <2>5, <2>6, <2>7, NearlyOn
  <1> QED BY <1>4, <1>5, <1>6, <1>7

LEMMA NearlyIsoRoot ==
    ASSUME MaySearch(call, "iso9660"), call.pc = "open", Slots(iso_table, 4),
           AlmostTidy(call, InUse(iso_table)), iso9660_open
    PROVE  NearlyHeld(call', "iso9660", iso_table')
  <1> DEFINE c(r) == [call EXCEPT !.pc = "walk", !.names = Components, !.file = r.slot]
  <1>1. PICK bad, raw, r :
            /\ r = isofs_iget(iso_table, iso_sb.root, raw, bad)
            /\ iso_table' = IF r.slot # None /\ ~raw.dir THEN isofs_iput(r.table, r.slot)
                            ELSE r.table
            /\ GoOn(bad, IF r.slot = None \/ ~raw.dir THEN Found(call, None) ELSE c(r))
    BY Zenon DEF iso9660_open
  <1> DEFINE t == isofs_iput(r.table, r.slot)
  <1>2. PICK k : (FirstTry(call) => k = None) /\ InUse(iso_table) \subseteq {k}
    BY DEF AlmostTidy
  <1>3. Slots(r.table, 4) /\ InUse(r.table) \subseteq InUse(iso_table) \cup {r.slot}
    BY <1>1, IsoGetTakes
  <1>4. Slots(t, 4) /\ InUse(t) \subseteq InUse(r.table) \ {r.slot}
    BY <1>3, IsoPutFrees
  <1>5. \/ iso_table' \in {t, r.table} /\ GoOn(bad, Found(call, None))
        \/ iso_table' = r.table /\ GoOn(bad, c(r))
    BY <1>1, Zenon
  <1>6. /\ MaySearch(c(r), "iso9660") /\ c(r).pc = "walk" /\ c(r).file = r.slot
        /\ FirstTry(c(r)) => FirstTry(call)
    BY Fields DEF MaySearch, FirstTry
  <1> HIDE DEF c, t
  <1>7. /\ FirstTry(call) => InUse(r.table) \subseteq {r.slot}
        /\ FirstTry(call) => InUse(t) \subseteq {r.slot}
    <2>1. None \notin InUse(iso_table)
      BY NoSlot, 4 \in {3, 4}
    <2> QED BY <1>2, <1>3, <1>4, <2>1
  <1>8. NearlyHeld(Found(call, None), "iso9660", r.table)
    BY <1>3, <1>7, NearlyFound
  <1>9. NearlyHeld(Found(call, None), "iso9660", t)
    BY <1>4, <1>7, NearlyFound
  <1>10. NearlyHeld(c(r), "iso9660", r.table)
    BY <1>2, <1>3, <1>6, NearlyWalk
  <1> QED BY <1>5, <1>8, <1>9, <1>10, NearlyOn

LEMMA IsoHeld ==
    ASSUME Sound(call), Slots(iso_table, 4),
           call.fs = "iso9660" => AlmostTidy(call, InUse(iso_table)), iso_Next
    PROVE  NearlyHeld(call', "iso9660", iso_table')
  <1>1. CASE iso9660_mount
    <2>1. Slots(EmptyIsoTable, 4) /\ InUse(EmptyIsoTable) = {}
      BY DEF Slots, InUse, EmptyIsoTable, FreeIso
    <2>2. PICK bad, mounted : GoOn(bad, fs_mount_result(mounted))
      BY <1>1, Zenon DEF iso9660_mount
    <2>3. NearlyHeld(fs_mount_result(mounted), "iso9660", EmptyIsoTable)
      <3>1. OnFs(fs_mount_result(mounted), "iso9660") /\ fs_mount_result(mounted).pc # "walk"
        BY <1>1, MountSound DEF iso9660_mount, At
      <3>2. AlmostTidy(fs_mount_result(mounted), InUse(EmptyIsoTable))
        BY <2>1, <3>1 DEF AlmostTidy
      <3> QED BY <2>1, <3>1, <3>2 DEF NearlyHeld
    <2>4. iso_table' = EmptyIsoTable
      BY <1>1 DEF iso9660_mount
    <2> QED BY <2>2, <2>3, <2>4, NearlyOn
  <1>2. CASE iso9660_open
    <2>1. MaySearch(call, "iso9660") /\ call.pc = "open" /\ AlmostTidy(call, InUse(iso_table))
      BY <1>2 DEF iso9660_open, At, MaySearch, Sound, Waiting
    <2> QED BY <1>2, <2>1, NearlyIsoRoot
  <1>3. CASE isofs_lookup
    <2>1. WalkingOn("iso9660", iso_table)
      BY <1>3 DEF isofs_lookup, At, WalkingOn, MaySearch, Sound, Waiting
    <2> QED BY <1>3, <2>1, NearlyLookedUp
  <1>4. CASE iso9660_ls
    <2> DEFINE c(x) == [call EXCEPT !.pc = "close", !.out = x]
    <2>1. PICK bad \in Bad : \E x : GoOn(bad, c(x))
      BY <1>4, IsoLists
    <2>3. \A x : NearlyHeld(c(x), "iso9660", iso_table)
      BY <1>4, NearlyStays DEF iso9660_ls, At
    <2>4. iso_table' = iso_table
      BY <1>4 DEF iso9660_ls, iso_vars
    <2> HIDE DEF c
    <2> QED BY <2>1, <2>3, <2>4, NearlyOn
  <1>5. CASE iso9660_bread
    <2> DEFINE c(x) == [call EXCEPT !.n = @ + 1, !.out = x]
               e == [call EXCEPT !.pc = "close"]
    <2>1. \E bad : GoOn(bad, e) \/ GoOn(bad, c(DataBlock(isofs_bmap(iso_table[call.fd], call.n))))
      BY <1>5, Zenon DEF iso9660_bread
    <2>2. iso_table' = iso_table
      BY <1>5 DEF iso9660_bread, iso_vars
    <2>3. NearlyHeld(e, "iso9660", iso_table) /\ \A x : NearlyHeld(c(x), "iso9660", iso_table)
      BY <1>5, NearlyStays DEF iso9660_bread, At
    <2> HIDE DEF c, e
    <2> QED BY <2>1, <2>2, <2>3, NearlyOn
  <1>6. CASE iso9660_close
    <2>1. NearlyHeld(Done(call), "iso9660", iso_table)
      BY DoneSound, NearlyOut
    <2>2. iso_table' = iso_table
      BY <1>6 DEF iso9660_close, iso_vars
    <2> QED BY <1>6, <2>1, <2>2, NearlyOn DEF iso9660_close
  <1> QED BY <1>1, <1>2, <1>3, <1>4, <1>5, <1>6 DEF iso_Next

-----------------------------------------------------------------------------
LEMMA CommandSlots ==
    ASSUME SlotsInv, Command
    PROVE  SlotsInv'
  <1>1. ASSUME NEW op \in Ops, NEW d, NEW p, NEW fs, Begin(op, d, p, fs)
        PROVE  SlotsInv'
    <2>1. Sound(call') /\ call'.pc = "mount"
      BY <1>1, Fields DEF Begin, Sound, Waiting
    <2>2. UNCHANGED <<inode_table, msdos_table, iso_table>>
      BY <1>1 DEF Begin, ext2_vars, msdos_vars, iso_vars
    <2> QED BY <2>1, <2>2 DEF SlotsInv, Tidy, AlmostTidy
  <1> QED BY <1>1, Zenon
        DEF Command, ls_cmd, chdir, chdev, load_image_from_device, boot_via_config, Ops

\* A command that neither opens nor searches needs no slot.
LEMMA Elsewhere ==
    ASSUME NEW c, c.pc \in Waiting \cup {"mount", "close"}
    PROVE  \A used : Tidy(c, used) /\ AlmostTidy(c, used)
  BY DEF Tidy, AlmostTidy, Waiting

LEMMA NextSlots == SlotsInv /\ [files_Next]_files_vars => SlotsInv'
  <1> SUFFICES ASSUME SlotsInv, [files_Next]_files_vars
               PROVE  SlotsInv'
    OBVIOUS
  <1>1. CASE Ext2Step
    <2>1. Held(call', inode_table') /\ UNCHANGED <<msdos_table, iso_table>>
      BY <1>1, Ext2Held DEF Ext2Step, SlotsInv, msdos_vars, iso_vars
    <2>2. call'.fs # "ext2" => \A used : Tidy(call', used) /\ AlmostTidy(call', used)
      BY <2>1, Elsewhere DEF Held, OnFs
    <2> QED BY <2>1, <2>2 DEF Held, OnFs, SlotsInv
  <1>2. CASE MsdosStep
    <2>1. NearlyHeld(call', "msdos", msdos_table') /\ UNCHANGED <<inode_table, iso_table>>
      BY <1>2, MsdosHeld DEF MsdosStep, SlotsInv, ext2_vars, iso_vars
    <2>2. call'.fs # "msdos" => \A used : Tidy(call', used) /\ AlmostTidy(call', used)
      BY <2>1, Elsewhere DEF NearlyHeld, OnFs
    <2> QED BY <2>1, <2>2 DEF NearlyHeld, OnFs, SlotsInv
  <1>3. CASE IsoStep
    <2>1. NearlyHeld(call', "iso9660", iso_table') /\ UNCHANGED <<inode_table, msdos_table>>
      BY <1>3, IsoHeld DEF IsoStep, SlotsInv, ext2_vars, msdos_vars
    <2>2. call'.fs # "iso9660" => \A used : Tidy(call', used) /\ AlmostTidy(call', used)
      BY <2>1, Elsewhere DEF NearlyHeld, OnFs
    <2> QED BY <2>1, <2>2 DEF NearlyHeld, OnFs, SlotsInv
  <1>4. CASE StopReading
    <2>1. call' = [call EXCEPT !.pc = "close"] /\ call.pc = "read"
      BY <1>4 DEF StopReading, Enough
    <2>2. Sound(call') /\ call'.pc = "close"
      BY <2>1, Fields DEF SlotsInv, Sound, Waiting
    <2>3. UNCHANGED <<inode_table, msdos_table, iso_table>>
      BY <1>4 DEF StopReading, ext2_vars, msdos_vars, iso_vars
    <2> QED BY <2>2, <2>3, Elsewhere DEF SlotsInv
  <1>5. CASE PowerCycle
    <2>1. Sound(Idle) /\ Idle.pc = "idle"
      BY DEF Sound, Idle, Waiting
    <2>2. Slots(EmptyTable, 3) /\ Slots(EmptyDosTable, 4) /\ Slots(EmptyIsoTable, 4)
      BY DEF Slots, EmptyTable, MAX_OPEN_FILES, EmptyDosTable, FreeSlot, EmptyIsoTable, FreeIso
    <2>3. /\ call' = Idle /\ inode_table' = EmptyTable
          /\ msdos_table' = EmptyDosTable /\ iso_table' = EmptyIsoTable
      BY <1>5 DEF PowerCycle, ext2_PowerOn, msdos_PowerOn, iso_PowerOn
    <2>4. \A used : Tidy(call', used) /\ AlmostTidy(call', used)
      BY <2>1, <2>3, Elsewhere DEF Waiting
    <2> QED BY <2>1, <2>2, <2>3, <2>4 DEF SlotsInv
  <1>6. CASE UNCHANGED files_vars
    BY <1>6 DEF files_vars, ext2_vars, msdos_vars, iso_vars, SlotsInv
  <1> QED BY <1>1, <1>2, <1>3, <1>4, <1>5, <1>6, CommandSlots DEF files_Next, Working

LEMMA InitSlots == files_Init => SlotsInv
  <1> SUFFICES ASSUME files_Init PROVE SlotsInv
    OBVIOUS
  <1>1. Sound(Idle) /\ Idle.pc = "idle"
    BY DEF Sound, Idle, Waiting
  <1>2. Slots(EmptyTable, 3) /\ Slots(EmptyDosTable, 4) /\ Slots(EmptyIsoTable, 4)
    BY DEF Slots, EmptyTable, MAX_OPEN_FILES, EmptyDosTable, FreeSlot, EmptyIsoTable, FreeIso
  <1>3. /\ call = Idle /\ inode_table = EmptyTable
        /\ msdos_table = EmptyDosTable /\ iso_table = EmptyIsoTable
    BY DEF files_Init, ext2_Init, msdos_Init, iso_Init
  <1>4. \A used : Tidy(call, used) /\ AlmostTidy(call, used)
    BY <1>1, <1>3, Elsewhere DEF Waiting
  <1> QED BY <1>1, <1>2, <1>3, <1>4 DEF SlotsInv

\* The reader that searches has a free slot.
RoomToSearch ==
    call.pc \in {"open", "walk"} =>
        /\ call.fs = "ext2" => \E s \in DOMAIN inode_table : inode_table[s].free
        /\ call.fs = "msdos" => \E s \in DOMAIN msdos_table : msdos_table[s].free
        /\ call.fs = "iso9660" => \E s \in DOMAIN iso_table : iso_table[s].free

\* No path search ever fails for want of an inode slot, whatever the disks
\* hold, however long the path, however many links it leads through and
\* however many commands and failed reads went before: with four or five
\* slots, those lost on the way never add up (ext2_iget, allocate_inode,
\* isofs_iget).
THEOREM SearchesFindSlots == files_Spec => []RoomToSearch
  <1>1. SlotsInv => RoomToSearch
    <2> SUFFICES ASSUME SlotsInv, call.pc \in {"open", "walk"} PROVE RoomToSearch
      BY DEF RoomToSearch
    <2>1. ASSUME NEW table, NEW last \in {3, 4}, Slots(table, last),
                 NEW a, NEW b, InUse(table) \subseteq {a, b}
          PROVE  \E s \in DOMAIN table : table[s].free
      <3>1. PICK s \in 0 .. last : s # a /\ s # b
        <4>1. 0 \in 0 .. last /\ 1 \in 0 .. last /\ 2 \in 0 .. last
          BY <2>1
        <4>2. (0 # a /\ 0 # b) \/ (1 # a /\ 1 # b) \/ (2 # a /\ 2 # b)
          BY SMT
        <4> QED BY <4>1, <4>2
      <3> QED BY <2>1, <3>1 DEF Slots, InUse
    <2>2. ASSUME call.fs = "ext2" PROVE \E s \in DOMAIN inode_table : inode_table[s].free
      <3>1. InUse(inode_table) \subseteq {call.dir, call.file}
        BY <2>2 DEF SlotsInv, Tidy
      <3> QED BY <2>1, <3>1 DEF SlotsInv
    <2>3. ASSUME NEW table, Slots(table, 4), AlmostTidy(call, InUse(table))
          PROVE  \E s \in DOMAIN table : table[s].free
      <3>1. PICK k : InUse(table) \subseteq {k, call.file}
        BY <2>3 DEF AlmostTidy
      <3> QED BY <2>1, <2>3, <3>1
    <2> QED BY <2>2, <2>3 DEF SlotsInv, RoomToSearch
  <1> QED BY <1>1, InitSlots, NextSlots, PTL DEF files_Spec

-----------------------------------------------------------------------------
(* Types: the slots that a command names are slots of the tables. *)

SlotNo == 0 .. 4 \cup {None}

Pcs == {"idle", "mount", "open", "walk", "list", "read", "close", "hung", "crashed"}

Typed(c) ==
    /\ DOMAIN c = DOMAIN Idle
    /\ c.pc \in Pcs
    /\ c.fd \in SlotNo /\ c.dir \in SlotNo /\ c.file \in SlotNo

LEMMA TypedOn ==
    ASSUME NEW bad, NEW c, Typed(c), GoOn(bad, c)
    PROVE  Typed(call')
  BY Fields DEF GoOn, Typed

LEMMA TypedIdle ==
    /\ Typed(Idle) /\ Typed([Idle EXCEPT !.pc = "hung"]) /\ Typed([Idle EXCEPT !.pc = "crashed"])
    /\ \A c : Typed(Done(c))
  BY DEF Typed, Pcs, SlotNo, None, Idle, Done

LEMMA TypedMount ==
    ASSUME Typed(call), NEW mounted
    PROVE  Typed(fs_mount_result(mounted))
  <1> DEFINE o == [call EXCEPT !.pc = "open"]
             s == [call EXCEPT !.pc = "close"]
             n == [call EXCEPT !.fs = NextFs[call.fs]]
  <1>1. Typed(o) /\ Typed(s) /\ Typed(n)
    BY Fields DEF Typed, Pcs
  <1>2. fs_mount_result(mounted) \in {o, s, n, Done(call)}
    BY DEF fs_mount_result
  <1> HIDE DEF o, s, n
  <1> QED BY <1>1, <1>2, TypedIdle

LEMMA TypedFound ==
    ASSUME NEW c, Typed(c), NEW fs, MaySearch(c, fs), NEW slot \in SlotNo
    PROVE  Typed(Found(c, slot))
  <1> DEFINE d == [c EXCEPT !.fd = slot, !.n = 0]
             e == [d EXCEPT !.pc = AfterFound[c.op], !.out = IF c.op = "ls" THEN Names(<<>>) ELSE @]
             f == [d EXCEPT !.pc = "open", !.path = OtherConfigPath]
             g == [d EXCEPT !.pc = "close"]
  <1>1. Typed(d)
    BY Fields DEF Typed
  <1>2. AfterFound[c.op] \in Pcs
    BY DEF AfterFound, MaySearch, Ops, Pcs
  <1>3. Typed(e) /\ Typed(f) /\ Typed(g)
    <2> HIDE DEF d
    <2> QED BY <1>1, <1>2, Fields DEF Typed, Pcs
  <1>4. Found(c, slot) \in {e, f, g, Done(c)}
    BY DEF Found
  <1> HIDE DEF e, f, g
  <1> QED BY <1>3, <1>4, TypedIdle

LEMMA TypedNone == None \in SlotNo
  BY DEF SlotNo

\* The first free slot is a slot.
LEMMA FirstFree ==
    ASSUME NEW S \in SUBSET (0 .. 4), S # {}
    PROVE  Min(S) \in 0 .. 4
  <1>1. \E x \in S : \A y \in S : x <= y
    <2>1. PICK z \in S : z \in 0 .. 4
      BY Zenon
    <2>2. CASE 0 \in S
      BY <2>2
    <2>3. CASE 0 \notin S /\ 1 \in S
      BY <2>3
    <2>4. CASE 0 \notin S /\ 1 \notin S /\ 2 \in S
      BY <2>4
    <2>5. CASE 0 \notin S /\ 1 \notin S /\ 2 \notin S /\ 3 \in S
      BY <2>5
    <2>6. CASE 0 \notin S /\ 1 \notin S /\ 2 \notin S /\ 3 \notin S
      BY <2>1, <2>6
    <2> QED BY <2>2, <2>3, <2>4, <2>5, <2>6
  <1> QED BY <1>1 DEF Min

LEMMA GotSlot ==
    ASSUME NEW table, NEW last \in {3, 4}, Slots(table, last), NEW ino, NEW bad
    PROVE  /\ ext2_iget(table, ino, bad).slot \in SlotNo
           /\ \A raw : isofs_iget(table, ino, raw, bad).slot \in SlotNo
           /\ \A e : allocate_inode(table, e).slot \in SlotNo
  <1> DEFINE free == { s \in DOMAIN table : table[s].free }
  <1>1. free \in SUBSET (0 .. 4)
    BY DEF Slots
  <1>2. free # {} => Min(free) \in SlotNo
    <2> HIDE DEF free
    <2> QED BY <1>1, FirstFree DEF SlotNo
  <1>3. ext2_iget(table, ino, bad).slot = None
        \/ (free # {} /\ ext2_iget(table, ino, bad).slot = Min(free))
    BY DEF ext2_iget
  <1>4. ASSUME NEW raw
        PROVE  isofs_iget(table, ino, raw, bad).slot = None
               \/ (free # {} /\ isofs_iget(table, ino, raw, bad).slot = Min(free))
    BY DEF isofs_iget
  <1>5. ASSUME NEW e
        PROVE  allocate_inode(table, e).slot = None
               \/ (free # {} /\ allocate_inode(table, e).slot = Min(free))
    BY DEF allocate_inode
  <1> HIDE DEF free
  <1> QED BY <1>2, <1>3, <1>4, <1>5, TypedNone

LEMMA RootSlot ==
    ASSUME NEW table, Slots(table, 4)
    PROVE  msdos_build_root_inode(table).slot \in SlotNo
  <1> DEFINE size == msdos_sb.dir_entries * EntrySize
             blocks == (size + SECTOR_SIZE - 1) \div SECTOR_SIZE
             e == [name |-> "", dir |-> TRUE, start |-> msdos_sb.dir_start, size |-> size]
             a == allocate_inode(table, e)
             list == [i \in 1 .. blocks |-> Short(msdos_sb.dir_start + i - 1)]
  <1>1. a.slot \in SlotNo
    BY GotSlot, 4 \in {3, 4}
  <1>2. msdos_build_root_inode(table) = [a EXCEPT !.table[a.slot].list = list]
    BY Zenon DEF msdos_build_root_inode
  <1>3. DOMAIN a = {"table", "slot"}
    BY DEF allocate_inode
  <1> HIDE DEF a, list
  <1> QED BY <1>1, <1>2, <1>3

LEMMA TypedFrom ==
    ASSUME NEW c, Typed(c), MaySearch(c, "ext2"), NEW table, Slots(table, 3), NEW bad,
           FromRoot(c, table, bad) \/ FromDir(c, table, bad)
    PROVE  Typed(call')
  <1> DEFINE r == ext2_iget(table, EXT2_ROOT_INO, bad)
             d == [c EXCEPT !.pc = "walk", !.file = r.slot]
             e == [c EXCEPT !.file = c.dir]
  <1>1. r.slot \in SlotNo
    BY GotSlot, 3 \in {3, 4}
  <1>2. GoOn(bad, Found(c, None)) \/ GoOn(bad, d) \/ GoOn(bad, e)
    BY Zenon DEF FromRoot, AtRoot, FromDir
  <1> HIDE DEF r
  <1>3. Typed(d) /\ Typed(e)
    BY <1>1, Fields DEF Typed, Pcs
  <1> HIDE DEF d, e
  <1>4. Typed(Found(c, None))
    BY TypedFound, TypedNone
  <1> QED BY <1>2, <1>3, <1>4, TypedOn

LEMMA TypedSearch ==
    ASSUME Typed(call), Walking,
           EnterDirectory \/ SearchDirectory \/ NotInDirectory \/ SearchEnds
    PROVE  Typed(call')
  <1>1. \A s \in SlotNo : Typed(Found(call, s))
    BY TypedFound DEF Walking
  <1>2. CASE NotInDirectory \/ SearchEnds
    <2>1. \E s \in SlotNo : GoOn({}, Found(call, s))
      BY <1>2, TypedNone DEF NotInDirectory, SearchEnds, Typed
    <2> QED BY <1>1, <2>1, TypedOn
  <1>3. CASE EnterDirectory
    <2> DEFINE c == [call EXCEPT !.dir = call.file, !.file = None, !.n = 0]
    <2>1. GoOn({}, c) \/ GoOn({}, Found(call, None))
      BY <1>3, Zenon DEF EnterDirectory
    <2>2. Typed(c)
      BY TypedNone, Fields DEF Typed
    <2> HIDE DEF c
    <2> QED BY <1>1, <2>1, <2>2, TypedOn, TypedNone
  <1>4. CASE SearchDirectory
    <2>1. PICK buf, hit, stuck, bad : SearchBlock(buf, hit, stuck, bad)
      BY <1>4, Zenon DEF SearchDirectory
    <2> DEFINE r == ext2_iget(inode_table, buf.entries[hit].ino, bad)
               c == [call EXCEPT !.file = r.slot, !.names = Tail(@), !.n = 0]
               e == [call EXCEPT !.n = @ + 1]
               h == [Idle EXCEPT !.pc = "hung"]
               d == [Idle EXCEPT !.pc = "crashed"]
    <2>2. r.slot \in SlotNo
      BY GotSlot, 3 \in {3, 4} DEF Walking
    <2>3. \/ GoOn(bad, c) \/ GoOn(bad, d) \/ GoOn(bad, Found(call, None))
          \/ GoOn(bad, e) \/ GoOn(bad, h)
      BY <2>1, Zenon DEF SearchBlock, NextInode
    <2> HIDE DEF r
    <2>4. Typed(c) /\ Typed(e)
      BY <2>2, Fields DEF Typed
    <2>5. Typed(h) /\ Typed(d)
      BY TypedIdle
    <2> HIDE DEF c, e, h, d
    <2> QED BY <1>1, <2>3, <2>4, <2>5, TypedOn, TypedNone
  <1> QED BY <1>2, <1>3, <1>4

LEMMA TypedLink ==
    ASSUME Typed(call), Walking, NEW text, NEW bad,
           ReplaceInside(text, bad) \/ ReplaceLast(text, bad)
    PROVE  Typed(call')
  <1> DEFINE c(n) == [call EXCEPT !.links = @ + 1, !.names = n]
  <1>1. \E n, table : Slots(table, 3) /\ (FromRoot(c(n), table, bad) \/ FromDir(c(n), table, bad))
    <2>1. \A t, s : Slots(t, 3) => Slots(ext2_iput(t, s), 3)
      BY IputFrees
    <2>2. \A s : Slots(ext2_iput(inode_table, s), 3)
      BY <2>1 DEF Walking
    <2>3. \A s, t : Slots(ext2_iput(ext2_iput(inode_table, s), t), 3)
      BY <2>1, <2>2
    <2>4. CASE ReplaceInside(text, bad)
      <3>1. [call EXCEPT !.links = @ + 1, !.names = text.names \o @] = c(text.names \o call.names)
        OBVIOUS
      <3> HIDE DEF c
      <3> QED BY <2>2, <2>3, <2>4, <3>1 DEF ReplaceInside
    <2>5. CASE ReplaceLast(text, bad)
      BY <2>2, <2>3, <2>5, Zenon DEF ReplaceLast
    <2> QED BY <2>4, <2>5
  <1>2. \A n : Typed(c(n)) /\ MaySearch(c(n), "ext2")
    BY Fields DEF Typed, Walking, MaySearch
  <1> HIDE DEF c
  <1> QED BY <1>1, <1>2, TypedFrom

\* The command as it goes on with a file or a listing.
LEMMA TypedStays ==
    ASSUME Typed(call)
    PROVE  /\ \A x : Typed([call EXCEPT !.n = @ + 1, !.out = x])
           /\ \A x : Typed([call EXCEPT !.pc = "close", !.out = x])
           /\ Typed([call EXCEPT !.pc = "close"])
  BY Fields DEF Typed, Pcs

LEMMA Ext2Typed ==
    ASSUME Typed(call), Sound(call), Slots(inode_table, 3),
           call.fs = "ext2" => Tidy(call, InUse(inode_table)), ext2_Next
    PROVE  Typed(call')
  <1>1. CASE ext2_mount
    BY <1>1, TypedMount, TypedOn DEF ext2_mount
  <1>2. CASE ext2_open
    <2> DEFINE c == [call EXCEPT !.names = call.path.names, !.dir = None, !.links = 0]
    <2>1. MaySearch(c, "ext2") /\ Typed(c)
      BY <1>2, TypedNone, Fields DEF ext2_open, At, MaySearch, Sound, Waiting, Typed
    <2>2. \E bad : FromRoot(c, inode_table, bad)
      BY <1>2, Zenon DEF ext2_open
    <2> HIDE DEF c
    <2> QED BY <2>1, <2>2, TypedFrom
  <1>3. ASSUME At("walk", "ext2") PROVE Walking
    BY <1>3 DEF At, Walking, MaySearch, Sound, Waiting, Tidy
  <1>4. CASE EnterDirectory \/ SearchDirectory \/ NotInDirectory \/ SearchEnds
    <2>1. Walking
      BY <1>3, <1>4
        DEF EnterDirectory, SearchDirectory, NotInDirectory, SearchEnds, InDirectory, Searching
    <2> QED BY <1>4, <2>1, TypedSearch
  <1>5. CASE FollowInside \/ FollowSlowInside \/ FollowLast \/ FollowSlowLast
    <2>1. \E text, bad : ReplaceInside(text, bad) \/ ReplaceLast(text, bad)
      BY <1>5, Zenon DEF FollowInside, FollowSlowInside, FollowLast, FollowSlowLast
    <2>2. Walking
      BY <1>3, <1>5 DEF FollowInside, FollowSlowInside, FollowLast, FollowSlowLast,
        LinkInside, LinkLast, Searching
    <2> QED BY <2>1, <2>2, TypedLink
  <1>6. CASE ext2_bread
    <2>1. \A x : Typed([call EXCEPT !.out = x, !.n = @ + 1])
      BY Fields DEF Typed
    <2> QED BY <1>6, <2>1, TypedOn DEF ext2_bread
  <1>7. CASE ext2_ls_block
    <2> DEFINE h == [Idle EXCEPT !.pc = "hung"]
               c(m) == [call EXCEPT !.n = @ + 1, !.out = Names(@.names \o EntryNames(m.buf))]
    <2>1. PICK bad, stuck, m : GoOn(bad, IF Endless(m.buf, stuck) THEN h ELSE c(m))
      BY <1>7, Zenon DEF ext2_ls_block
    <2>2. Typed(h) /\ Typed(c(m))
      BY TypedIdle, Fields DEF Typed
    <2> HIDE DEF h, c
    <2>3. GoOn(bad, h) \/ GoOn(bad, c(m))
      BY <2>1, Zenon
    <2> QED BY <2>2, <2>3, TypedOn
  <1>8. CASE ext2_ls_ends
    BY <1>8, TypedStays, TypedOn DEF ext2_ls_ends
  <1>9. CASE ext2_close
    BY <1>9, TypedIdle, TypedOn DEF ext2_close
  <1> QED BY <1>1, <1>2, <1>4, <1>5, <1>6, <1>7, <1>8, <1>9 DEF ext2_Next

LEMMA MsdosTyped ==
    ASSUME Typed(call), Sound(call), Slots(msdos_table, 4), msdos_Next
    PROVE  Typed(call')
  <1>1. CASE msdos_mount
    BY <1>1, TypedMount, TypedOn DEF msdos_mount
  <1>2. ASSUME call.pc \in {"open", "walk"}
        PROVE  \A s \in SlotNo : Typed(Found(call, s))
    <2>1. MaySearch(call, call.fs)
      BY <1>2 DEF MaySearch, Sound, Waiting
    <2> QED BY <2>1, TypedFound
  <1>3. ASSUME NEW table, NEW slot \in SlotNo, NEW bad, Opened(table, slot, bad),
               call.pc \in {"open", "walk"}
        PROVE  Typed(call')
    <2>1. \/ GoOn(bad, Found(call, slot))
          \/ \E chain : GoOn(bad, Found(call, IF chain = <<>> THEN None ELSE slot))
      BY <1>3, Zenon DEF Opened
    <2>2. GoOn(bad, Found(call, slot)) \/ GoOn(bad, Found(call, None))
      BY <2>1
    <2> QED BY <1>2, <1>3, <2>2, TypedNone, TypedOn
  <1>4. ASSUME NEW n, NEW s \in SlotNo
        PROVE  /\ Typed([call EXCEPT !.pc = "walk", !.names = n, !.file = s])
               /\ Typed([call EXCEPT !.names = n, !.file = s])
    BY Fields DEF Typed, Pcs
  <1>5. CASE msdos_open
    <2> DEFINE r == msdos_build_root_inode(msdos_table)
               c == [call EXCEPT !.pc = "walk", !.names = call.path.names, !.file = r.slot]
    <2>1. r.slot \in SlotNo
      BY RootSlot
    <2>2. PICK bad : GoOn(bad, Found(call, None)) \/ Opened(r.table, r.slot, bad) \/ GoOn(bad, c)
      BY <1>5, Zenon DEF msdos_open
    <2>3. call.pc \in {"open", "walk"}
      BY <1>5 DEF msdos_open, At
    <2> HIDE DEF r
    <2>4. Typed(c)
      BY <1>4, <2>1, Zenon
    <2> HIDE DEF c
    <2>5. Typed(Found(call, None))
      BY <1>2, <2>3, TypedNone
    <2> QED BY <1>3, <2>1, <2>2, <2>3, <2>4, <2>5, TypedOn
  <1>6. CASE msdos_search_directory
    <2>1. call.pc \in {"open", "walk"}
      BY <1>6 DEF msdos_search_directory, At
    <2>2. PICK bad \in Bad, dir \in Sized(msdos_table[call.file]) :
             \/ GoOn(bad, Found(call, None))
             \/ \E e : Entered([msdos_table EXCEPT ![call.file] = dir], e, bad)
      BY <1>6, MsdosLooks
    <2> DEFINE t == [msdos_table EXCEPT ![call.file] = dir]
    <2>3. Slots(t, 4)
      BY SizedFills
    <2> HIDE DEF t
    <2>4. ASSUME NEW e, Entered(t, e, bad)
          PROVE  Typed(call')
      <3> DEFINE c(r) == [call EXCEPT !.names = Tail(@), !.file = r.slot]
      <3>1. PICK r : /\ r = allocate_inode(t, e)
                     /\ \/ GoOn(bad, Found(call, None))
                        \/ \E x : Opened(x, r.slot, bad)
                        \/ GoOn(bad, c(r))
        BY <2>4, Zenon DEF Entered
      <3>2. r.slot \in SlotNo
        BY <2>3, <3>1, GotSlot, 4 \in {3, 4}
      <3>3. Typed(c(r))
        BY <3>2, Fields DEF Typed
      <3> HIDE DEF c
      <3>4. Typed(Found(call, None))
        BY <1>2, <2>1, TypedNone
      <3> QED BY <1>3, <2>1, <3>1, <3>2, <3>3, <3>4, TypedOn
    <2>5. GoOn(bad, Found(call, None)) \/ \E e : Entered(t, e, bad)
      BY <2>2 DEF t
    <2> QED BY <1>2, <2>1, <2>4, <2>5, TypedNone, TypedOn
  <1>7. CASE msdos_ls
    <2>1. \E bad, x : GoOn(bad, [call EXCEPT !.pc = "close", !.out = x])
      BY <1>7, MsdosLists
    <2> QED BY <2>1, TypedStays, TypedOn
  <1>8. CASE msdos_bread
    BY <1>8, MsdosReads, TypedStays, TypedOn
  <1>9. CASE msdos_close
    BY <1>9, TypedIdle, TypedOn DEF msdos_close
  <1> QED BY <1>1, <1>5, <1>6, <1>7, <1>8, <1>9 DEF msdos_Next

LEMMA IsoTyped ==
    ASSUME Typed(call), Sound(call), Slots(iso_table, 4), iso_Next
    PROVE  Typed(call')
  <1>1. CASE iso9660_mount
    BY <1>1, TypedMount, TypedOn DEF iso9660_mount
  <1>2. ASSUME call.pc \in {"open", "walk"}
        PROVE  \A s \in SlotNo : Typed(Found(call, s))
    <2>1. MaySearch(call, call.fs)
      BY <1>2 DEF MaySearch, Sound, Waiting
    <2> QED BY <2>1, TypedFound
  <1>3. CASE iso9660_open
    <2> DEFINE c(r) == [call EXCEPT !.pc = "walk", !.names = Components, !.file = r.slot]
    <2>1. PICK bad, raw, r :
              /\ r = isofs_iget(iso_table, iso_sb.root, raw, bad)
              /\ GoOn(bad, IF r.slot = None \/ ~raw.dir THEN Found(call, None) ELSE c(r))
      BY <1>3, Zenon DEF iso9660_open
    <2>2. r.slot \in SlotNo
      BY <2>1, GotSlot, 4 \in {3, 4}
    <2>3. Typed(c(r))
      BY <2>2, Fields DEF Typed, Pcs
    <2> HIDE DEF c
    <2>4. GoOn(bad, Found(call, None)) \/ GoOn(bad, c(r))
      BY <2>1, Zenon
    <2>5. Typed(Found(call, None))
      BY <1>2, <1>3, TypedNone DEF iso9660_open, At
    <2> QED BY <2>3, <2>4, <2>5, TypedOn
  <1>4. CASE isofs_lookup
    <2>1. \A s \in SlotNo : Typed(Found(call, s))
      BY <1>2, <1>4 DEF isofs_lookup, At
    <2>2. PICK bad : \/ LookupFails(bad)
                     \/ \E ino, raw : LastOne(ino, raw, bad)
                     \/ \E ino, raw : Middle(ino, raw, bad)
      BY <1>4, Zenon DEF isofs_lookup
    <2>3. CASE LookupFails(bad)
      BY <2>1, <2>3, TypedNone, TypedOn DEF LookupFails
    <2>4. ASSUME NEW ino, NEW raw, LastOne(ino, raw, bad)
          PROVE  Typed(call')
      <3>1. isofs_iget(iso_table, ino, raw, bad).slot \in SlotNo
        BY GotSlot, 4 \in {3, 4}
      <3>2. GoOn(bad, Found(call, isofs_iget(iso_table, ino, raw, bad).slot))
        BY <2>4, Zenon DEF LastOne
      <3> QED BY <2>1, <3>1, <3>2, TypedOn
    <2>5. ASSUME NEW ino, NEW raw, Middle(ino, raw, bad)
          PROVE  Typed(call')
      <3> DEFINE c(r) == [call EXCEPT !.names = Tail(@), !.file = r.slot]
      <3>1. PICK r : /\ r = isofs_iget(isofs_iput(iso_table, call.file), ino, raw, bad)
                     /\ GoOn(bad, IF r.slot = None THEN Found(call, None) ELSE c(r))
        BY <2>5, Zenon DEF Middle
      <3>2. Slots(isofs_iput(iso_table, call.file), 4)
        BY IsoPutFrees
      <3>3. r.slot \in SlotNo
        BY <3>1, <3>2, GotSlot, 4 \in {3, 4}
      <3>4. Typed(c(r))
        BY <3>3, Fields DEF Typed
      <3> HIDE DEF c
      <3>5. GoOn(bad, Found(call, None)) \/ GoOn(bad, c(r))
        BY <3>1, Zenon
      <3> QED BY <2>1, <3>4, <3>5, TypedNone, TypedOn
    <2> QED BY <2>2, <2>3, <2>4, <2>5
  <1>5. CASE iso9660_ls
    <2>1. \E bad, x : GoOn(bad, [call EXCEPT !.pc = "close", !.out = x])
      BY <1>5, IsoLists
    <2> QED BY <2>1, TypedStays, TypedOn
  <1>6. CASE iso9660_bread
    <2>1. \E bad : \/ GoOn(bad, [call EXCEPT !.pc = "close"])
                   \/ GoOn(bad, [call EXCEPT !.n = @ + 1, !.out =
                            DataBlock(isofs_bmap(iso_table[call.fd], call.n))])
      BY <1>6, Zenon DEF iso9660_bread
    <2> QED BY <2>1, TypedStays, TypedOn
  <1>7. CASE iso9660_close
    BY <1>7, TypedIdle, TypedOn DEF iso9660_close
  <1> QED BY <1>1, <1>3, <1>4, <1>5, <1>6, <1>7 DEF iso_Next

-----------------------------------------------------------------------------
(* At most one thing fails in a step, while there may be failures left. *)

Counts == \E bad \in Bad : faults' = faults + Cardinality(bad)

LEMMA NoFault == {} \in Bad
  BY DEF Bad

LEMMA GoOnCounts ==
    ASSUME NEW bad \in Bad, NEW c, GoOn(bad, c)
    PROVE  Counts
  BY DEF GoOn, Counts

LEMMA Ext2Counts == ASSUME ext2_Next PROVE Counts
  <1> USE GoOnCounts, NoFault
  <1>1. ASSUME NEW c, NEW table, NEW bad \in Bad, FromRoot(c, table, bad) \/ FromDir(c, table, bad)
        PROVE  Counts
    BY <1>1, Zenon DEF FromRoot, AtRoot, FromDir
  <1>2. CASE ext2_mount \/ ext2_open
    BY <1>1, <1>2, Zenon DEF ext2_mount, ext2_open
  <1>3. CASE EnterDirectory
    BY <1>3, Zenon DEF EnterDirectory
  <1>4. CASE NotInDirectory \/ SearchEnds
    BY <1>4, Zenon DEF NotInDirectory, SearchEnds
  <1>5. CASE SearchDirectory
    <2>1. \E buf, hit, stuck : \E bad \in Bad : SearchBlock(buf, hit, stuck, bad)
      BY <1>5, Zenon DEF SearchDirectory
    <2> QED BY <2>1, Zenon DEF SearchBlock, NextInode
  <1>6. CASE FollowInside \/ FollowSlowInside \/ FollowLast \/ FollowSlowLast
    <2>1. \E text : \E bad \in Bad : ReplaceInside(text, bad) \/ ReplaceLast(text, bad)
      BY <1>6, Zenon DEF FollowInside, FollowSlowInside, FollowLast, FollowSlowLast
    <2> QED BY <1>1, <2>1, Zenon DEF ReplaceInside, ReplaceLast
  <1>7. CASE ext2_bread \/ ext2_ls_block
    BY <1>7, Zenon DEF ext2_bread, ext2_ls_block
  <1>8. CASE ext2_ls_ends \/ ext2_close
    BY <1>8, Zenon DEF ext2_ls_ends, ext2_close
  <1> QED BY <1>2, <1>3, <1>4, <1>5, <1>6, <1>7, <1>8 DEF ext2_Next

LEMMA MsdosCounts == ASSUME msdos_Next PROVE Counts
  <1> USE GoOnCounts, NoFault
  <1>1. ASSUME NEW table, NEW slot, NEW bad \in Bad, Opened(table, slot, bad)
        PROVE  Counts
    BY <1>1, Zenon DEF Opened
  <1>2. CASE msdos_mount
    BY <1>2, Zenon DEF msdos_mount
  <1>3. CASE msdos_open
    BY <1>1, <1>3, Zenon DEF msdos_open
  <1>4. CASE msdos_search_directory
    <2>1. \E bad \in Bad : (\E c : GoOn(bad, c)) \/ (\E t, e : Entered(t, e, bad))
      BY <1>4, Zenon DEF msdos_search_directory
    <2> QED BY <1>1, <2>1, Zenon DEF Entered
  <1>5. CASE msdos_ls \/ msdos_close
    BY <1>5, MsdosLists, Zenon DEF msdos_close
  <1>6. CASE msdos_bread
    BY <1>6, MsdosReads, Zenon
  <1> QED BY <1>2, <1>3, <1>4, <1>5, <1>6 DEF msdos_Next

LEMMA IsoCounts == ASSUME iso_Next PROVE Counts
  <1> USE GoOnCounts, NoFault
  <1>1. CASE iso9660_mount \/ iso9660_open
    BY <1>1, Zenon DEF iso9660_mount, iso9660_open
  <1>2. CASE isofs_lookup
    <2>1. \E bad \in Bad : \/ LookupFails(bad)
                           \/ \E ino, raw : LastOne(ino, raw, bad)
                           \/ \E ino, raw : Middle(ino, raw, bad)
      BY <1>2, Zenon DEF isofs_lookup
    <2> QED BY <2>1, Zenon DEF LookupFails, LastOne, Middle
  <1>3. CASE iso9660_ls \/ iso9660_bread \/ iso9660_close
    BY <1>3, IsoLists, Zenon DEF iso9660_bread, iso9660_close
  <1> QED BY <1>1, <1>2, <1>3 DEF iso_Next

LEMMA FaultsBounded ==
    ASSUME faults \in 0 .. MaxFaults, Counts
    PROVE  faults' \in 0 .. MaxFaults
  <1>1. PICK bad \in Bad : faults' = faults + Cardinality(bad)
    BY DEF Counts
  <1>2. CASE bad = {}
    BY <1>1, <1>2, FS_EmptySet
  <1>3. CASE bad # {}
    <2>1. faults < MaxFaults /\ \E a : bad = {a}
      BY <1>3 DEF Bad
    <2>2. Cardinality(bad) = 1
      BY <2>1, FS_Singleton
    <2> QED BY <1>1, <2>1, <2>2, DisksAssumption
  <1> QED BY <1>2, <1>3

TypesInv == SlotsInv /\ Typed(call) /\ faults \in 0 .. MaxFaults

LEMMA NextTypes == TypesInv /\ [files_Next]_files_vars => TypesInv'
  <1> SUFFICES ASSUME TypesInv, [files_Next]_files_vars
               PROVE  TypesInv'
    OBVIOUS
  <1>1. SlotsInv'
    BY NextSlots DEF TypesInv
  <1>2. Typed(call')
    <2>1. CASE Ext2Step
      BY <2>1, Ext2Typed DEF Ext2Step, TypesInv, SlotsInv
    <2>2. CASE MsdosStep
      BY <2>2, MsdosTyped DEF MsdosStep, TypesInv, SlotsInv
    <2>3. CASE IsoStep
      BY <2>3, IsoTyped DEF IsoStep, TypesInv, SlotsInv
    <2>4. CASE StopReading
      BY <2>4, TypedStays DEF StopReading, TypesInv
    <2>5. CASE PowerCycle
      BY <2>5, TypedIdle DEF PowerCycle
    <2>6. CASE Command
      <3>1. ASSUME NEW op, NEW d, NEW p, NEW fs, Begin(op, d, p, fs)
            PROVE  Typed(call')
        BY <3>1, TypedIdle, Fields DEF Begin, Typed, Pcs
      <3> QED BY <2>6, <3>1, Zenon
            DEF Command, ls_cmd, chdir, chdev, load_image_from_device, boot_via_config
    <2>7. CASE UNCHANGED files_vars
      BY <2>7 DEF files_vars, TypesInv
    <2> QED BY <2>1, <2>2, <2>3, <2>4, <2>5, <2>6, <2>7 DEF files_Next, Working
  <1>3. faults' \in 0 .. MaxFaults
    <2>1. CASE Ext2Step \/ MsdosStep \/ IsoStep
      <3>1. Counts
        BY <2>1, Ext2Counts, MsdosCounts, IsoCounts DEF Ext2Step, MsdosStep, IsoStep
      <3> QED BY <3>1, FaultsBounded DEF TypesInv
    <2>2. CASE StopReading \/ PowerCycle \/ Command \/ UNCHANGED files_vars
      <3>1. faults' = faults
        BY <2>2 DEF StopReading, PowerCycle, Command, ls_cmd, chdir, chdev,
            load_image_from_device, boot_via_config, Begin, files_vars
      <3> QED BY <3>1 DEF TypesInv
    <2> QED BY <2>1, <2>2 DEF files_Next, Working
  <1> QED BY <1>1, <1>2, <1>3 DEF TypesInv, Typed

LEMMA InitTypes == files_Init => TypesInv
  BY InitSlots, TypedIdle, DisksAssumption DEF files_Init, TypesInv

\* A command is always at a step of its own, and the descriptor that it hands
\* to bread, fdsize and the listings is a slot of the tables, whatever the
\* readers found or failed to find (Found, fs_mount_result).
THEOREM FilesTypeCorrect == files_Spec => []files_TypeOK
  <1>1. TypesInv => files_TypeOK
    <2>1. SlotsInv => SlotNo \subseteq DOMAIN inode_table \cup DOMAIN msdos_table \cup {None}
      BY DEF SlotsInv, Slots, SlotNo
    <2> QED BY <2>1 DEF TypesInv, Typed, Pcs, files_TypeOK
  <1> QED BY <1>1, InitTypes, NextTypes, PTL DEF files_Spec

-----------------------------------------------------------------------------
(* The sectors of a file on an MS-DOS disk: the list of the inode that is  *)
(* being read is made of the chain that the FAT has for its first cluster. *)

Chained(inode) == inode.list = SectorsOf(Chain(inode.start))

ChainInv ==
    TypesInv /\ (At("read", "msdos") => call.fd \in 0 .. 4 /\ Chained(msdos_table[call.fd]))

LEMMA ChainStays ==
    ASSUME UNCHANGED <<msdos_sb, fat>>
    PROVE  \A inode : Chained(inode)' = Chained(inode)
  <1>1. \A s : Chain(s)' = Chain(s)
    BY SMT DEF Chain, NextCluster, InFat, Eof
  <1>2. \A c : SectorsOf(c)' = SectorsOf(c)
    BY DEF SectorsOf, Short
  <1> QED BY <1>1, <1>2 DEF Chained

\* Only a search that finds something goes on to read it.
LEMMA FoundReads ==
    ASSUME NEW c, Typed(c), NEW fs, MaySearch(c, fs), NEW slot, Found(c, slot).pc = "read"
    PROVE  slot # None /\ c.op # "ls" /\ Found(c, slot).fd = slot
  <1> DEFINE d == [c EXCEPT !.fd = slot, !.n = 0]
             e == [d EXCEPT !.pc = AfterFound[c.op], !.out = IF c.op = "ls" THEN Names(<<>>) ELSE @]
             f == [d EXCEPT !.pc = "open", !.path = OtherConfigPath]
             g == [d EXCEPT !.pc = "close"]
  <1>1. DOMAIN d = DOMAIN Idle /\ d.fd = slot
    BY Fields DEF Typed
  <1>2. (slot # None /\ Found(c, slot) = e) \/ Found(c, slot) \in {f, g, Done(c)}
    BY DEF Found
  <1> HIDE DEF d
  <1>3. e.pc = AfterFound[c.op] /\ e.fd = slot /\ f.pc = "open" /\ g.pc = "close"
    BY <1>1, Fields
  <1>4. Done(c).pc = "idle"
    BY DoneSound
  <1> HIDE DEF e, f, g
  <1>5. slot # None /\ Found(c, slot) = e
    BY <1>2, <1>3, <1>4
  <1>6. AfterFound[c.op] = "read"
    BY <1>3, <1>5
  <1> QED BY <1>3, <1>5, <1>6 DEF AfterFound

LEMMA GoOnDescriptor ==
    ASSUME NEW bad, NEW c, Typed(c), GoOn(bad, c)
    PROVE  call'.pc = c.pc /\ call'.fd = c.fd /\ call'.fs = c.fs /\ call'.out = c.out /\ call'.n = c.n
  BY Fields DEF GoOn, Typed

HasList(table, slot) == {"start", "list", "free"} \subseteq DOMAIN table[slot]

LEMMA OpenedChained ==
    ASSUME Typed(call), MaySearch(call, "msdos"), NEW table, Slots(table, 4),
           NEW slot \in SlotNo, slot # None => HasList(table, slot),
           NEW bad, Opened(table, slot, bad), call'.pc = "read"
    PROVE  call'.fd \in 0 .. 4 /\ Chained(msdos_table'[call'.fd])
  <1>1. ASSUME NEW s \in SlotNo, GoOn(bad, Found(call, s))
        PROVE  s # None /\ call.op # "ls" /\ call'.fd = s
    <2>1. Typed(Found(call, s))
      BY TypedFound
    <2>2. Found(call, s).pc = "read" /\ call'.fd = Found(call, s).fd
      BY <1>1, <2>1, GoOnDescriptor
    <2> QED BY <2>2, FoundReads
  <1>2. call.op # "ls"
    BY <1>1 DEF Opened
  <1>3. PICK chain \in {IF NoMemory \in bad THEN <<>> ELSE Chain(table[slot].start)} :
            /\ msdos_table' = IF chain = <<>> THEN free_inode(table, slot)
                              ELSE [table EXCEPT ![slot] = fill_block_list(@, chain)]
            /\ GoOn(bad, Found(call, IF chain = <<>> THEN None ELSE slot))
    BY <1>2, Zenon DEF Opened
  <1>4. chain # <<>>
    <2> SUFFICES ASSUME chain = <<>> PROVE FALSE
      OBVIOUS
    <2>1. GoOn(bad, Found(call, None))
      BY <1>3
    <2> QED BY <1>1, <2>1, TypedNone
  <1>5. GoOn(bad, Found(call, slot))
    BY <1>3, <1>4
  <1>6. slot # None /\ call'.fd = slot
    BY <1>1, <1>5
  <1>7. chain = Chain(table[slot].start)
    BY <1>3, <1>4
  <1>8. slot \in 0 .. 4
    BY <1>6 DEF SlotNo
  <1>9. msdos_table'[slot] = fill_block_list(table[slot], chain)
    BY <1>3, <1>4, <1>8 DEF Slots
  <1>10. Chained(fill_block_list(table[slot], chain))
    <2> DEFINE i == table[slot]
               j == fill_block_list(i, chain)
    <2>1. {"start", "list"} \subseteq DOMAIN i
      BY <1>6 DEF HasList
    <2> HIDE DEF i
    <2>2. j.list = SectorsOf(chain) /\ j.start = i.start
      BY <2>1 DEF fill_block_list
    <2> HIDE DEF j
    <2> QED BY <1>7, <2>2 DEF Chained, i, j
  <1> QED BY <1>6, <1>8, <1>9, <1>10

LEMMA AllocatedHasList ==
    ASSUME NEW table, Slots(table, 4), NEW e, NEW r, r = allocate_inode(table, e), r.slot # None
    PROVE  HasList(r.table, r.slot)
  <1> DEFINE free == { x \in DOMAIN table : table[x].free }
             s == Min(free)
             entry == [free |-> FALSE, name |-> e.name, dir |-> e.dir, start |-> e.start,
                       size |-> e.size, list |-> <<>>, blocks |-> 0]
             new == [table EXCEPT ![s] = entry]
  <1>1. free # {} /\ r = [table |-> new, slot |-> s]
    BY DEF allocate_inode
  <1>2. s \in 0 .. 4
    <2>1. free \in SUBSET (0 .. 4)
      BY DEF Slots
    <2> HIDE DEF free
    <2> QED BY <1>1, <2>1, FirstFree
  <1>3. {"start", "list", "free"} \subseteq DOMAIN entry
    OBVIOUS
  <1> HIDE DEF s, entry
  <1>4. new[s] = entry
    BY <1>2 DEF Slots
  <1> QED BY <1>1, <1>3, <1>4 DEF HasList

LEMMA FreeKeepsList ==
    ASSUME NEW table, NEW slot, NEW s, HasList(table, s), s \in DOMAIN table
    PROVE  HasList(free_inode(table, slot), s)
  BY DEF free_inode, HasList

LEMMA RootHasList ==
    ASSUME NEW table, Slots(table, 4), NEW r, r = msdos_build_root_inode(table), r.slot # None
    PROVE  HasList(r.table, r.slot)
  <1> DEFINE size == msdos_sb.dir_entries * EntrySize
             blocks == (size + SECTOR_SIZE - 1) \div SECTOR_SIZE
             e == [name |-> "", dir |-> TRUE, start |-> msdos_sb.dir_start, size |-> size]
             a == allocate_inode(table, e)
             list == [i \in 1 .. blocks |-> Short(msdos_sb.dir_start + i - 1)]
  <1>1. r = [a EXCEPT !.table[a.slot].list = list]
    BY Zenon DEF msdos_build_root_inode
  <1>2. DOMAIN a = {"table", "slot"}
    BY DEF allocate_inode
  <1>3. a.slot # None => HasList(a.table, a.slot) /\ a.slot \in SlotNo
    BY AllocatedHasList, GotSlot, 4 \in {3, 4}
  <1>4. Slots(a.table, 4)
    BY AllocateTakes
  <1> HIDE DEF a, list
  <1> DEFINE t == a.table
             new == [t EXCEPT ![a.slot].list = list]
  <1>5. r.table = new /\ r.slot = a.slot
    BY <1>1, <1>2
  <1>6. a.slot \in DOMAIN t
    BY <1>3, <1>4, <1>5 DEF Slots, SlotNo
  <1> HIDE DEF t
  <1>7. DOMAIN new[a.slot] = DOMAIN t[a.slot]
    BY <1>6
  <1> QED BY <1>3, <1>5, <1>7 DEF HasList, t

LEMMA MsdosOpenChained ==
    ASSUME Typed(call), Sound(call), Slots(msdos_table, 4),
           msdos_open \/ msdos_search_directory, call'.pc = "read"
    PROVE  call'.fd \in 0 .. 4 /\ Chained(msdos_table'[call'.fd])
  <1>1. MaySearch(call, "msdos")
    BY DEF msdos_open, msdos_search_directory, At, MaySearch, Sound, Waiting
  <1>2. ASSUME NEW bad, GoOn(bad, Found(call, None)) PROVE FALSE
    <2>1. Typed(Found(call, None))
      BY <1>1, TypedFound, TypedNone
    <2>2. Found(call, None).pc = "read"
      BY <1>2, <2>1, GoOnDescriptor
    <2> QED BY <1>1, <2>2, FoundReads
  <1>3. ASSUME NEW n, NEW s \in SlotNo, NEW bad,
               \/ GoOn(bad, [call EXCEPT !.pc = "walk", !.names = n, !.file = s])
               \/ GoOn(bad, [call EXCEPT !.names = n, !.file = s])
        PROVE  call'.pc \in {"walk", call.pc}
    <2> DEFINE c == [call EXCEPT !.pc = "walk", !.names = n, !.file = s]
               d == [call EXCEPT !.names = n, !.file = s]
    <2>1. Typed(c) /\ Typed(d) /\ c.pc = "walk" /\ d.pc = call.pc
      BY Fields DEF Typed, Pcs
    <2> HIDE DEF c, d
    <2>2. GoOn(bad, c) \/ GoOn(bad, d)
      BY <1>3 DEF c, d
    <2> QED BY <2>1, <2>2, GoOnDescriptor
  <1>4. call.pc # "read"
    BY DEF msdos_open, msdos_search_directory, At
  <1>5. CASE msdos_open
    <2> DEFINE r == msdos_build_root_inode(msdos_table)
    <2>1. PICK bad : \/ GoOn(bad, Found(call, None))
                     \/ Opened(r.table, r.slot, bad)
                     \/ GoOn(bad, [call EXCEPT !.pc = "walk", !.names = call.path.names,
                                               !.file = r.slot])
      BY <1>5, Zenon DEF msdos_open
    <2>2. r.slot \in SlotNo /\ Slots(r.table, 4)
      BY RootSlot, RootTakes
    <2>3. r.slot # None => HasList(r.table, r.slot)
      BY RootHasList
    <2> HIDE DEF r
    <2>4. Opened(r.table, r.slot, bad)
      BY <1>2, <1>3, <1>4, <2>1, <2>2
    <2> QED BY <1>1, <2>2, <2>3, <2>4, OpenedChained
  <1>6. CASE msdos_search_directory
    <2>1. PICK bad \in Bad, dir \in Sized(msdos_table[call.file]) :
             \/ GoOn(bad, Found(call, None))
             \/ \E e : Entered([msdos_table EXCEPT ![call.file] = dir], e, bad)
      BY <1>6, MsdosLooks
    <2> DEFINE t == [msdos_table EXCEPT ![call.file] = dir]
    <2>2. Slots(t, 4)
      BY SizedFills
    <2>3. PICK e : Entered(t, e, bad)
      BY <1>2, <2>1
    <2> HIDE DEF t
    <2>4. PICK r : /\ r = allocate_inode(t, e)
                   /\ \/ GoOn(bad, Found(call, None))
                      \/ r.slot # None /\ Opened(free_inode(r.table, call.file), r.slot, bad)
                      \/ GoOn(bad, [call EXCEPT !.names = Tail(@), !.file = r.slot])
      BY <2>3, Zenon DEF Entered
    <2>5. r.slot \in SlotNo /\ Slots(r.table, 4)
      BY <2>2, <2>4, GotSlot, AllocateTakes, 4 \in {3, 4}
    <2> DEFINE u == free_inode(r.table, call.file)
    <2>6. Slots(u, 4)
      BY <2>5, FreeFrees
    <2>7. r.slot # None => HasList(u, r.slot)
      <3> SUFFICES ASSUME r.slot # None PROVE HasList(u, r.slot)
        OBVIOUS
      <3>1. HasList(r.table, r.slot)
        BY <2>2, <2>4, AllocatedHasList
      <3>2. r.slot \in DOMAIN r.table
        BY <2>5 DEF Slots, SlotNo
      <3> QED BY <3>1, <3>2, FreeKeepsList
    <2> HIDE DEF u
    <2>8. Opened(u, r.slot, bad)
      BY <1>2, <1>3, <1>4, <2>4, <2>5 DEF u
    <2> QED BY <1>1, <2>5, <2>6, <2>7, <2>8, OpenedChained
  <1> QED BY <1>5, <1>6

LEMMA MsdosChained ==
    ASSUME TypesInv, At("read", "msdos") => call.fd \in 0 .. 4 /\ Chained(msdos_table[call.fd]),
           msdos_Next, call'.pc = "read"
    PROVE  call'.fd \in 0 .. 4 /\ Chained(msdos_table[call.fd])'
  <1>1. CASE msdos_mount
    <2>1. PICK bad, mounted : GoOn(bad, fs_mount_result(mounted))
      BY <1>1, Zenon DEF msdos_mount
    <2>2. fs_mount_result(mounted).pc # "read"
      <3>1. \A x : [call EXCEPT !.pc = x].pc = x
        BY Fields DEF TypesInv, Typed
      <3>2. [call EXCEPT !.fs = NextFs[call.fs]].pc = "mount"
        BY <1>1, Fields DEF TypesInv, Typed, msdos_mount, At
      <3> QED BY <3>1, <3>2, DoneSound DEF fs_mount_result
    <2> QED BY <2>1, <2>2, TypedMount, GoOnDescriptor DEF TypesInv
  <1>2. CASE msdos_open \/ msdos_search_directory
    <2>1. call'.fd \in 0 .. 4 /\ Chained(msdos_table'[call'.fd])
      BY <1>2, MsdosOpenChained DEF TypesInv, SlotsInv
    <2>2. UNCHANGED <<msdos_sb, fat>>
      BY <1>2 DEF msdos_open, msdos_search_directory
    <2>3. \A inode : Chained(inode)' = Chained(inode)
      BY <2>2, ChainStays
    <2> QED BY <2>1, <2>3
  <1>3. CASE msdos_ls \/ msdos_close
    <2>1. \/ \E bad, x : GoOn(bad, [call EXCEPT !.pc = "close", !.out = x])
          \/ GoOn({}, Done(call))
      BY <1>3, MsdosLists DEF msdos_close
    <2>2. \A x : [call EXCEPT !.pc = "close", !.out = x].pc = "close"
      BY Fields DEF TypesInv, Typed
    <2>3. call'.pc \in {"close", "idle"}
      <3>1. CASE GoOn({}, Done(call))
        BY <3>1, TypedIdle, DoneSound, GoOnDescriptor
      <3>2. ASSUME NEW bad, NEW x, GoOn(bad, [call EXCEPT !.pc = "close", !.out = x])
            PROVE  call'.pc = "close"
        <4>1. Typed([call EXCEPT !.pc = "close", !.out = x])
          BY TypedStays DEF TypesInv
        <4> QED BY <2>2, <3>2, <4>1, GoOnDescriptor
      <3> QED BY <2>1, <3>1, <3>2
    <2> QED BY <2>3
  <1>4. CASE msdos_bread
    <2>1. call.fd \in 0 .. 4 /\ Chained(msdos_table[call.fd])
      BY <1>4 DEF msdos_bread
    <2>2. call'.fd = call.fd
      <3>1. /\ \A x : [call EXCEPT !.n = @ + 1, !.out = x].fd = call.fd
            /\ [call EXCEPT !.pc = "close"].fd = call.fd
        BY Fields DEF TypesInv, Typed
      <3>2. ASSUME NEW bad, NEW x, GoOn(bad, [call EXCEPT !.n = @ + 1, !.out = x])
            PROVE  call'.fd = call.fd
        <4> DEFINE c == [call EXCEPT !.n = @ + 1, !.out = x]
        <4>1. Typed(c)
          BY TypedStays DEF TypesInv
        <4>2. c.fd = call.fd
          BY <3>1
        <4>3. GoOn(bad, c)
          BY <3>2
        <4> HIDE DEF c
        <4> QED BY <4>1, <4>2, <4>3, GoOnDescriptor
      <3>3. ASSUME NEW bad, GoOn(bad, [call EXCEPT !.pc = "close"])
            PROVE  call'.fd = call.fd
        <4>1. Typed([call EXCEPT !.pc = "close"])
          BY TypedStays DEF TypesInv
        <4> QED BY <3>1, <3>3, <4>1, GoOnDescriptor
      <3> QED BY <1>4, <3>2, <3>3, MsdosReads
    <2>3. UNCHANGED <<msdos_table, msdos_sb, fat>>
      BY <1>4 DEF msdos_bread
    <2>4. \A inode : Chained(inode)' = Chained(inode)
      BY <2>3, ChainStays
    <2> QED BY <2>1, <2>2, <2>3, <2>4
  <1> QED BY <1>1, <1>2, <1>3, <1>4 DEF msdos_Next

LEMMA NextChain == ChainInv /\ [files_Next]_files_vars => ChainInv'
  <1> SUFFICES ASSUME ChainInv, [files_Next]_files_vars
               PROVE  ChainInv'
    OBVIOUS
  <1>1. TypesInv'
    BY NextTypes DEF ChainInv
  <1>2. CASE MsdosStep
    BY <1>1, <1>2, MsdosChained DEF MsdosStep, ChainInv, At
  <1>3. CASE Ext2Step
    <2>1. OnFs(call', "ext2")
      BY <1>3, Ext2Held DEF Ext2Step, ChainInv, TypesInv, SlotsInv, Held
    <2> QED BY <1>1, <2>1 DEF OnFs, Waiting, ChainInv, At
  <1>4. CASE IsoStep
    <2>1. OnFs(call', "iso9660")
      BY <1>4, IsoHeld DEF IsoStep, ChainInv, TypesInv, SlotsInv, NearlyHeld
    <2> QED BY <1>1, <2>1 DEF OnFs, Waiting, ChainInv, At
  <1>5. CASE StopReading \/ PowerCycle
    <2>1. StopReading => call'.pc = "close"
      <3>1. [call EXCEPT !.pc = "close"].pc = "close"
        BY Fields DEF ChainInv, TypesInv, Typed
      <3> QED BY <3>1 DEF StopReading
    <2>2. PowerCycle => call'.pc = "idle"
      <3>1. Idle.pc = "idle"
        BY DEF Idle
      <3> QED BY <3>1 DEF PowerCycle
    <2> QED BY <1>1, <1>5, <2>1, <2>2 DEF ChainInv, At
  <1>6. CASE Command
    <2>1. ASSUME NEW op, NEW d, NEW p, NEW fs, Begin(op, d, p, fs)
          PROVE  call'.pc = "mount"
      BY <2>1, Fields DEF Begin
    <2>2. call'.pc = "mount"
      BY <1>6, <2>1, Zenon
        DEF Command, ls_cmd, chdir, chdev, load_image_from_device, boot_via_config
    <2> QED BY <1>1, <2>2 DEF ChainInv, At
  <1>7. CASE UNCHANGED files_vars
    <2>1. UNCHANGED <<call, msdos_table, msdos_sb, fat>>
      BY <1>7 DEF files_vars, msdos_vars
    <2>2. \A inode : Chained(inode)' = Chained(inode)
      BY <2>1, ChainStays
    <2> QED BY <1>1, <2>1, <2>2 DEF ChainInv, At
  <1> QED BY <1>2, <1>3, <1>4, <1>5, <1>6, <1>7 DEF files_Next, Working

\* Sectors of the file being read, in the order of its chain.
FileSectors == SectorsOf(Chain(msdos_table[call.fd].start))

\* A block of 1 KB that a bread got is the next two sectors of the chain; of
\* the second half only if no read failed, the file has it and its sector
\* number did not turn negative.
ReadsFollowChain ==
    [][\A i \in {call.n * 2} :
        msdos_bread /\ call'.pc = "read" =>
            /\ i < Len(FileSectors) => call'.out.first = Sector(FileSectors[i + 1])
            /\ /\ call'.clean
               /\ i + 1 < Len(FileSectors) /\ ~(i + 1 >= msdos_table[call.fd].blocks)
               /\ ~(FileSectors[i + 1 + 1] < 0)
               => call'.out.second = Sector(FileSectors[i + 1 + 1])]_files_vars

LEMMA BreadFollows ==
    ASSUME ChainInv, msdos_bread, call'.pc = "read", NEW i, i = call.n * 2
    PROVE  /\ i < Len(FileSectors) => call'.out.first = Sector(FileSectors[i + 1])
           /\ /\ call'.clean
              /\ i + 1 < Len(FileSectors) /\ ~(i + 1 >= msdos_table[call.fd].blocks)
              /\ ~(FileSectors[i + 1 + 1] < 0)
              => call'.out.second = Sector(FileSectors[i + 1 + 1])
  <1> DEFINE Out(first, second, half) == [kind |-> "sectors", first |-> Sector(first),
                        second |-> IF half THEN SecondHalf ELSE Sector(second)]
             c(x) == [call EXCEPT !.n = @ + 1, !.out = x]
             e == [call EXCEPT !.pc = "close"]
             Over(j, s, first, bad) == j >= s.blocks \/ Unreadable(first, bad)
             Ends(bad) == GoOn(bad, e)
             Gives(bad, x) == GoOn(bad, c(x))
  <1>0. PICK bad \in Bad, junk \in {None, BootSector} :
        \E s \in {msdos_table[call.fd]}, j \in {call.n * 2} :
        \E first \in {SectorNo(s, j, junk)}, second \in {SectorNo(s, j + 1, junk)} :
        \E half \in {j + 1 >= s.blocks \/ Unreadable(second, bad)} :
            IF Over(j, s, first, bad) THEN Ends(bad)
            ELSE Gives(bad, Out(first, second, half))
    BY Zenon DEF msdos_bread
  <1> DEFINE slot == msdos_table[call.fd]
             first == SectorNo(slot, i, junk)
             second == SectorNo(slot, i + 1, junk)
             half == i + 1 >= slot.blocks \/ Unreadable(second, bad)
             y == Out(first, second, half)
  <1>1. Ends(bad) \/ Gives(bad, y)
    <2> HIDE DEF Ends, Gives, Out, Over
    <2> QED BY <1>0, Zenon DEF y
  <1>2. slot.list = FileSectors
    BY DEF ChainInv, msdos_bread, Chained, FileSectors
  <1>3. i < Len(FileSectors) => first = FileSectors[i + 1]
    BY <1>2 DEF SectorNo
  <1>4. i + 1 < Len(FileSectors) => second = FileSectors[i + 1 + 1]
    BY <1>2 DEF SectorNo
  <1>5. Typed(e) /\ e.pc = "close"
    <2>1. e.pc = "close"
      BY Fields DEF ChainInv, TypesInv, Typed
    <2> QED BY <2>1, TypedStays DEF ChainInv, TypesInv
  <1>6. \A x : Typed(c(x)) /\ c(x).out = x /\ DOMAIN c(x) = DOMAIN Idle
    <2>1. \A x : c(x).out = x /\ DOMAIN c(x) = DOMAIN Idle
      BY Fields DEF ChainInv, TypesInv, Typed
    <2> QED BY <2>1, TypedStays DEF ChainInv, TypesInv
  <1> HIDE DEF slot, first, second, half, c, e
  <1>7. ~Ends(bad)
    BY <1>5, GoOnDescriptor
  <1>8. GoOn(bad, c(y))
    BY <1>1, <1>7
  <1> HIDE DEF y
  <1>9. call'.out = y
    BY <1>6, <1>8, GoOnDescriptor
  <1>10. call'.clean => bad = {}
    BY <1>6, <1>8, Fields DEF GoOn
  <1>11. i < Len(FileSectors) => call'.out.first = Sector(FileSectors[i + 1])
    BY <1>3, <1>9 DEF y
  <1>12. ASSUME call'.clean, i + 1 < Len(FileSectors), ~(i + 1 >= msdos_table[call.fd].blocks),
                ~(FileSectors[i + 1 + 1] < 0)
         PROVE  call'.out.second = Sector(FileSectors[i + 1 + 1])
    <2>1. second = FileSectors[i + 1 + 1]
      BY <1>4, <1>12
    <2>2. ~half
      BY <1>10, <1>12, <2>1 DEF half, slot, Unreadable
    <2> QED BY <1>9, <2>1, <2>2 DEF y
  <1> QED BY <1>11, <1>12

LEMMA InitChain == files_Init => ChainInv
  <1>1. Idle.pc = "idle"
    BY DEF Idle
  <1> QED BY <1>1, InitTypes DEF files_Init, ChainInv, At

\* What the MS-DOS reader reads of a file are the sectors of the chain that
\* starts at the first cluster in its directory entry, whatever command went
\* before, also when reads fail on the way (fill_block_list, msdos_bread).
THEOREM ReadsFollowTheChain == files_Spec => ReadsFollowChain
  <1>1. ChainInv /\ [files_Next]_files_vars =>
            [\A i \in {call.n * 2} :
              msdos_bread /\ call'.pc = "read" =>
                /\ i < Len(FileSectors) => call'.out.first = Sector(FileSectors[i + 1])
                /\ /\ call'.clean
                   /\ i + 1 < Len(FileSectors) /\ ~(i + 1 >= msdos_table[call.fd].blocks)
                   /\ ~(FileSectors[i + 1 + 1] < 0)
                   => call'.out.second = Sector(FileSectors[i + 1 + 1])]_files_vars
    BY BreadFollows
  <1> QED BY <1>1, InitChain, NextChain, PTL DEF files_Spec, ReadsFollowChain
===============================================================================
