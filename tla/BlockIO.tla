------------------------------- MODULE BlockIO --------------------------------
(***************************************************************************)
(* Reading block devices (devices.c): device_open, device_read,            *)
(* block_read, bread and getblk, with the interrupt by which a Linux       *)
(* driver completes a request.  MILO has one static buffer head and one    *)
(* buffer for all block I/O; bread polls them until the driver unlocks     *)
(* them.  Sizes and positions are in cells, of which a sector and a block  *)
(* hold several; cell p of device d holds <<d, p>>, so that what a read    *)
(* returns can be compared with what was asked for.                        *)
(***************************************************************************)
EXTENDS Integers, Sequences, FiniteSetsExt

CONSTANTS
    Devices,        \* block devices
    Disks,          \* those whose partition table is read at start-up
    NoDevice,
    SECTOR,         \* 512 bytes, the block size device_open sets
    BLOCK,          \* BLOCK_SIZE and what ext2 and iso9660 set
    Length,         \* cells of a device
    Reads           \* <<offset, count, block size>> of the callers' reads

Sizes == {SECTOR, BLOCK}

ASSUME BlockIOAssumption ==
    /\ Disks \subseteq Devices /\ NoDevice \notin Devices
    /\ SECTOR \in Nat \ {0} /\ BLOCK \in Nat \ {0} /\ SECTOR <= BLOCK
    /\ Length \in Nat
    /\ Reads \subseteq Nat \X (Nat \ {0}) \X Sizes

VARIABLES
    inited,     \* need_device has set up the devices
    blksize,    \* blksize_size
    rdev,       \* inode.i_rdev: the open device
    pc,         \* where the reader is: "idle", "bread", "wait" or "copy"
    want,       \* the read: its device, offset, count and block size
    f_pos,      \* file.f_pos
    out,        \* what block_read has copied out; Len(out) is its read
    room,       \* cells from buf to the end of its allocation, 0 before it
    bh,         \* the buffer head
    data,       \* the buffer's contents
    request     \* the driver's request: "none", "plugged" or "started"

file == <<inited, blksize, rdev>>
buffer == <<room, bh, data>>
vars == <<inited, blksize, rdev, pc, want, f_pos, out, room, bh, data, request>>

Cells == 0 .. (2 * BLOCK - 1)       \* cells of the buffer and behind it
Zero == <<NoDevice, 0>>
Junk == <<NoDevice, 1>>             \* what the heap held

BufferHeads == [dev : Devices \cup {NoDevice}, block : Nat, size : Sizes \cup {0},
                lock : BOOLEAN, uptodate : BOOLEAN]

TypeOK ==
    /\ inited \in BOOLEAN
    /\ blksize \in [Devices -> Sizes]
    /\ rdev \in Devices \cup {NoDevice}
    /\ pc \in {"idle", "bread", "wait", "copy"}
    /\ want.count \in Nat
    /\ f_pos \in 0 .. (want.offset + want.count)
    /\ Len(out) <= want.count
    /\ room \in Nat
    /\ bh \in BufferHeads
    /\ DOMAIN data = Cells
    /\ request \in {"none", "plugged", "started"}

Init ==
    /\ inited = FALSE
    /\ blksize = [d \in Devices |-> BLOCK]
    /\ rdev = NoDevice
    /\ pc = "idle"
    /\ want = [dev |-> NoDevice, offset |-> 0, count |-> 0, size |-> BLOCK]
    /\ f_pos = 0 /\ out = << >>
    /\ room = 0
    /\ bh = [dev |-> NoDevice, block |-> 0, size |-> 0,
             lock |-> FALSE, uptodate |-> FALSE]
    /\ data = [c \in Cells |-> Junk]
    /\ request = "none"

-----------------------------------------------------------------------------
(* Opening a device.                                                       *)

\* A read of count cells at offset begins.
StartRead(d, offset, count, size) ==
    /\ pc' = "bread"
    /\ want' = [dev |-> d, offset |-> offset, count |-> count, size |-> size]
    /\ f_pos' = offset
    /\ out' = << >>

\* The first device_open sets the devices up (block_device_init): the
\* drivers of the disks read a block of each for its partition table.
need_device ==
    /\ pc = "idle" /\ ~inited
    /\ inited' = TRUE
    /\ IF Disks = {} THEN UNCHANGED <<pc, want, f_pos, out>>
                     ELSE \E d \in Disks : StartRead(d, 0, BLOCK, BLOCK)
    /\ UNCHANGED <<blksize, rdev, buffer, request>>

\* All of this is done before the driver's open is called, and stays when
\* that fails.
device_open(d) ==
    /\ pc = "idle" /\ inited
    /\ blksize' = [blksize EXCEPT ![d] = SECTOR]
    /\ rdev' = d
    /\ f_pos' = 0
    /\ UNCHANGED <<inited, pc, want, out, buffer, request>>

\* ext2_mount and iso9660_mount.
set_blocksize ==
    /\ pc = "idle" /\ rdev # NoDevice
    /\ blksize' = [blksize EXCEPT ![rdev] = BLOCK]
    /\ UNCHANGED <<inited, rdev, pc, want, f_pos, out, buffer, request>>

device_close ==
    /\ pc = "idle" /\ rdev # NoDevice
    /\ rdev' = NoDevice
    /\ UNCHANGED <<inited, blksize, pc, want, f_pos, out, buffer, request>>

device_read(offset, count, size) ==
    /\ pc = "idle" /\ rdev # NoDevice
    /\ blksize[rdev] = size
    /\ StartRead(rdev, offset, count, size)
    /\ UNCHANGED <<file, buffer, request>>

-----------------------------------------------------------------------------
(* One block.                                                              *)

\* Mutant: no room for the alignment.
Rooms_Single(size) == 1 .. size

\* kmalloc(size * 2) + size rounded down to a multiple of size: the first
\* address decides how much is left behind it.
Rooms(size) == size .. (2 * size - 1)

\* Mutant: the state of the last read stays.
NewHead_Stale(d, block, size) ==
    [dev |-> d, block |-> block, size |-> size, lock |-> FALSE,
     uptodate |-> bh.uptodate]

NewHead(d, block, size) ==
    [dev |-> d, block |-> block, size |-> size, lock |-> FALSE, uptodate |-> FALSE]

getblk(d, block, size) ==
    /\ IF room = 0 THEN room' \in Rooms(size) ELSE room' = room
    /\ data' = [c \in Cells |-> IF c < size THEN Zero ELSE data[c]]

\* bread up to wait_on_buffer.  ll_rw_block locks the buffer and queues a
\* request, which waits on tq_disk until somebody runs that queue.
bread ==
    /\ pc = "bread"
    /\ LET block == f_pos \div want.size
           new == NewHead(want.dev, block, want.size)
       IN  /\ getblk(want.dev, block, want.size)
           /\ bh' = [new EXCEPT !.lock = ~new.uptodate]
           /\ IF new.uptodate THEN pc' = "copy" /\ UNCHANGED request
                              ELSE pc' = "wait" /\ request' = "plugged"
    /\ UNCHANGED <<file, want, f_pos, out>>

\* Mutant: polls without running tq_disk.
wait_on_buffer_NoUnplug == FALSE /\ UNCHANGED vars

\* __wait_on_buffer runs tq_disk: the driver starts the request.
wait_on_buffer ==
    /\ pc = "wait" /\ bh.lock
    /\ request = "plugged"
    /\ request' = "started"
    /\ UNCHANGED <<file, pc, want, f_pos, out, buffer>>

\* The driver's interrupt: it has filled the buffer, or failed, and calls
\* buffer_end_io.
buffer_end_io(ok) ==
    /\ request = "started"
    /\ ok => (bh.block + 1) * bh.size <= Length
    /\ data' = [c \in Cells |->
                   IF ok /\ c < bh.size THEN <<bh.dev, bh.block * bh.size + c>>
                                        ELSE data[c]]
    /\ bh' = [bh EXCEPT !.uptodate = ok, !.lock = FALSE]
    /\ request' = "none"
    /\ UNCHANGED <<file, pc, want, f_pos, out, room>>

\* Mutant: does not wait for the buffer.
Unlocked_Always == TRUE

Unlocked == ~bh.lock

\* The end of bread: NULL makes block_read return what it has.
bread_returns ==
    /\ pc = "wait" /\ Unlocked
    /\ pc' = IF bh.uptodate THEN "copy" ELSE "idle"
    /\ UNCHANGED <<file, want, f_pos, out, buffer, request>>

\* The first block is copied from where f_pos is in it, the others whole.
Skip == IF out = << >> THEN f_pos - bh.block * want.size ELSE 0

Amount == Min({want.count - Len(out), want.size})

block_read ==
    /\ pc = "copy"
    /\ out' = out \o [i \in 1 .. Amount |->
                         IF Skip + i - 1 \in Cells THEN data[Skip + i - 1] ELSE Junk]
    /\ f_pos' = f_pos + Amount
    /\ pc' = IF Len(out) + Amount = want.count THEN "idle" ELSE "bread"
    /\ UNCHANGED <<file, want, buffer, request>>

-----------------------------------------------------------------------------
Reader == bread \/ wait_on_buffer \/ bread_returns \/ block_read

Interrupt == \E ok \in BOOLEAN : buffer_end_io(ok)

Next ==
    \/ need_device \/ set_blocksize \/ device_close
    \/ \E d \in Devices : device_open(d)
    \/ \E r \in Reads : device_read(r[1], r[2], r[3])
    \/ Reader
    \/ Interrupt

\* The reader polls, and a driver ends every request it has started: its
\* own timeout ends those the device does not answer.
Fairness == WF_vars(Reader) /\ WF_vars(Interrupt)

Spec == Init /\ [][Next]_vars /\ Fairness

-----------------------------------------------------------------------------
\* A read returns the cells asked for: at every moment what block_read has
\* copied out is a prefix of them, across blocks, whatever the single
\* buffer held before, and it is all of them unless the device failed.
ReadsExact ==
    /\ \A i \in 1 .. Len(out) : out[i] = <<want.dev, want.offset + i - 1>>
    /\ pc = "idle" /\ want.count # Len(out) => ~bh.uptodate

\* The one buffer is never given to a second read while the driver may
\* still write to it: an outstanding request has a reader waiting for it.
OneRequest == request # "none" => pc = "wait" /\ bh.lock

\* The block getblk clears and the driver fills fits the allocation, which
\* was made for the size of the first block ever read.
BufferHoldsBlock == bh.size <= room

\* A read returns, with data or without.
ReadReturns == (pc # "idle") ~> (pc = "idle")
===============================================================================
