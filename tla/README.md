# A TLA+ development for MILO 2.2

MILO is the Linux mini-loader for Alpha machines: firmware that owns the whole
memory, sets up a machine it knows little about, reads a kernel from disk with
the help of Linux's own device drivers, and hands the machine over. It has no
processes, but interrupts, power failures, failing devices and long sequences of
commands on state that is never reset. This directory models those parts in
TLA+, checks them with TLC on small instances and proves the central invariants
with TLAPS for every size.

`PROJECT.json` lists the components, runs, mutants, the map from definitions to
source lines, hazards and theorems. All paths below are relative to
the source tree.

## 1. Inventory

| Component | Source | State it keeps | Operations | Module |
|---|---|---|---|---|
| Page map, kmalloc, free | `memory.c` | `milo_memory_map` (a byte per page), `lastpfn`, `temp_memory_ptr`, the free list | `init_mem`, `allocate_pfn`, `allocate_many_pfn`, `kmalloc`, `free`, `reset_mem`, `mark_many_pfn` | `PageMap`, `PageScan`, `Memory` |
| Memory map for Linux | `hwrpb.c` | the clusters in the HWRPB | `build_HWRPB_mem_map` | `Clusters` |
| Boot command | `milo.c`, `boot.c`, `zip/misc.c`, `zip/unzip.c` | buffers, the loaded image and ramdisk, page tables | `boot_cmd` and what it calls | `Handover` |
| Timers and task queue | `timer.c` | linked list of timers, timer wheel, `jiffies`, task queue | `add_timer`, `del_timer`, `mod_timer`, `queue_task`, `do_timer` | `Timers`, `TimerQueue` |
| Block device layer | `devices.c` | one buffer head, one buffer, the open device, block sizes | `device_open`, `device_read`, `block_read`, `bread`, `getblk`, completion interrupt | `BlockIO` |
| Environment variables | `env.c`, `nvram.c` | working area, NVRAM or flash block | `setenv`, `unsetenv`, `resetenv`, `env_init`, `nvram_copyout` | `Environment` |
| Flash block manager | `flash/eb.c`, `flash/28f008sa.c` | flash blocks, `blocks[]` | program, delete block, delete image, environment | `Flash` |
| Command interpreter, autoboot, menu | `milo.c`, `hwrpb.c` | command line, reboot block, the configuration file's text | `milo`, `autoboot`, `reboot`, `do_timeout`, `parse_command_string`, `boot_via_config`, `boot_config` | `Prompt` |
| File system switch | `fs/fs.c`, and the commands of `milo.c` and `boot.c` that use it | the open file system | `fs_mount`, `__open`, `__bread`, `__ls`, `__close` | `FileSystems`, `Disks` |
| ext2 reader | `fs/ext2.c` | four inodes, the cached indirect and double indirect block, super block | mount, path search with links, block map, listing | `Ext2` |
| msdos reader | `fs/dos.c` | five inodes with their block lists, the FAT | mount, path search, chains, listing | `Msdos` |
| iso9660 reader | `fs/isofs.c` | five inodes, the volume's zones | mount, path search, records over two blocks, listing | `Isofs` |
| NoName flash | `flash/noname.c` | two chips, programming voltage, the buffer | `flash_program`: prep, erase, update, verify, with retries | `NoNameFlash` |
| x86 BIOS emulator | `video/x86/*.c`, `video/freebiosvga.c` | registers, flags, prefixes, memory of an 8086 | `x86_exec`, 256 opcode handlers and the two-byte ones, interrupts, BIOS calls | `X86*` |
| inflate | `zip/inflate.c` | window, bit buffer, Huffman tables | `inflate` | not modelled (section 8) |
| Keyboard and line editor | `kbd.c` | shift state, line | `kbd_getc_with_timeout`, `kbd_gets` | not modelled; `Prompt` takes keys from it |
| Wait queues, semaphores, driver tables | `devices.c` | sleepers | `interruptible_sleep_on`, `wake_up`, `down`, `up`, `register_*` | not modelled (section 8) |
| Console, video, chip set-up, PALcode, start-up copies, host tools | many | - | - | not modelled (section 8) |

How they interact. Everything calls `kmalloc`; drivers also take whole pages.
The boot command stacks up on all of it: it opens a device, mounts a file system,
reads the kernel through the block layer into a kmalloc'ed buffer (perhaps
through inflate), moves it to its place, reads a ramdisk to below the running
loader, allocates page tables, and turns MILO's page map into the list of
clusters Linux believes. The timer interrupt runs drivers' timers and tasks, and
a driver's interrupt ends the request `bread` is polling for. Environment
variables configure the boot and set the memory size (`MEMORY_SIZE` calls
`reset_mem`), and live in a store whose flash variant the flash manager creates.
The command interpreter decides what the boot command is given: from a typed
line, the environment, the console that started MILO, the menu, or the reboot
block a previous boot left in memory. Every command that reads a file mounts its
device first, and the file system readers keep their tables from one command to
the next. Before any of that, the emulator runs the video adapter's own ROM.

What is hard here.

* *Long sequences of legal calls*: memory is shared out by commands in any
  order, given back rarely, and a boot may fail at any point and be tried again.
* *Boundaries*: page and block sizes, a block that ends with its page, a ramdisk
  that ends with its page, a read that starts inside a block.
* *Interrupts*: timer handlers and tasks change the list that `do_timer` walks;
  the completion of a request races the reader that polls.
* *Power failures*: both stores are rewritten in place and flash is erased first.
* *Stale copies*: `blocks[]` against the flash memory, the working area against
  the store, the single block buffer against the device, a cached indirect block
  against the disk now mounted, the reboot block against the last boot.
* *Partial failures*: one read of many, one byte of a chip, one attempt of a boot
  fails, and the code goes on with what it has.

The hazards, each at its line and with the properties that would catch it, are in
`PROJECT.json` under `hazards`.

## 2. Modules and how they correspond to the code

```
PageMap            page types, alignment rules, first fit
 |- PageScan       allocate_many_pfn's search loop, one iteration a step
 |- Clusters       build_HWRPB_mem_map, one page a step
 |   '- PageMapProofs   about Clusters and PageScan
 '- Memory         the allocator
     '- Handover   the boot command on top of the allocator
         '- MemoryProofs   about Memory and Handover
TimerQueue  <--refines--  Timers        (TimersProofs)
Environment     Flash     NoNameFlash     Prompt     (each with its ...Proofs)
BlockIO            the block layer under the readers
Disks
 |- Ext2, Msdos, Isofs
 '- FileSystems    the switch and the commands over the three readers
     '- DiskProofs     about BlockIO and FileSystems
X86Machine         registers, memory, operand decoding
 '- X86Prims       arithmetic
     '- X86Bios, X86Alu
         '- X86Flow
             '- X86Ops           the remaining handlers and the dispatch table
                 '- X86Emulator  the interpreter's loop
MC*.tla, *.cfg     instances for TLC
```

**PageMap / PageScan.** `PageMap` has the map's types and `allocate_many_pfn`'s
rule for where a run of pages may start. `Memory` uses the rule (`IsFirstFit`);
`PageScan` is the loop the code really runs, which jumps over starts; it is
checked, and proved, to return the page the rule names, so that the two
descriptions of one function are tied together.

**Memory.** The variables are the statics of `memory.c`. An address is a record
of page and offset. `Kmalloc` is the whole function with its three ways of
finding room (rest of the page, adjoining free pages, fresh pages) and the free
list in front of them when `REUSE_MEMORY` is on; `error()` is `halted`.
`live` and `handed` are history variables: what the callers hold.

**Clusters.** The two loops of `build_HWRPB_mem_map`. `before` remembers the map
at the call.

**Handover.** `boot_cmd` as a program counter over the memory manager's state.
Each allocation, marking and copy is a step; the file system decides whether a
file is found, compressed, well formed and how large it is. A failure returns to
the prompt with everything that was allocated still allocated.

**Timers / TimerQueue.** `Timers` has the `next` and `prev` links as functions,
so that unlinking and linking are what the code does. `add_timer`, `del_timer`,
`mod_timer` and `queue_task` run with interrupts off and are one step each;
`do_timer` is several, since it calls handlers that call the others.
`TimerQueue` is what drivers rely on: a set of pending timers with due times;
a tick fires all that are due, earliest first.

**BlockIO.** The reader (`block_read`, `bread`, `wait_on_buffer`) polls, the
driver's interrupt (`buffer_end_io`) fills and unlocks the buffer at any moment,
with data or an error. A cell of a device names its device and position, so a
wrong byte is visible.

**Environment.** Working area and store as chunks; a save writes chunk by chunk
and the power may go between two chunks or inside one (`CutShort`). The erase before
a save to flash may be cut short or fail (`StopErasing`), and `nvram_copyout` goes on as
if it had not: what it then writes mixes with the text that is there (`Over`), because
programming a byte only clears bits. `known`, `changing`, `cuts` and `fault`, what failed
in the last save, are history.

**Flash.** The blocks' contents, and `blocks[]` as the utility believes them to
be. Programming is one step per erased and per programmed block; each may fail
and the power may go. After two of the error returns the code does not scan
again: the model keeps the stale marks.

**NoNameFlash.** The chips' bytes with the physics the code works against: a write
only clears bits, an erase pulse sets all of them, a byte may be weak (needs another
pulse) or broken, and an erase of a chip that was not cleared first wears it out.
`flash_program` is a program counter through preparation, erasure, programming and
verification with their retry counts; the keyboard controller that switches the
programming voltage may refuse.

**Disks, Ext2, Msdos, Isofs, FileSystems.** `Disks` is what `device_read` promises:
the block of the disk that is open, or a failure (bounded by `MaxFaults`). Each
reader has its own tables and caches as variables and one action per operation of
its file system; a path search or a listing is one step per block it reads, since
that is where it may fail. `FileSystems` composes the three as `fs.c` does, with the
mount that tries each type in turn, and the commands (`ls`, `cd`, load an image, read
the configuration file) that call them. Every reader is compared with `Truth`, the
files that are on the disks, stated apart from the disk's layout.

**X86Machine .. X86Emulator.** A machine is a record and every function of the
emulator an operator from machines to machines. A handler has the source's name and
is an instance of the form its opcode family shares; byte, word and long versions are
one definition with a width where the code's versions agree, and separate where they
do not. `X86Emulator` is `x86_exec`'s loop, with `vgabios_init`'s two runs of it and
the interrupts an instruction may raise. These modules use `Bitwise`, so only TLC
works on them.

**Prompt.** `milo()` from its first statement, as a program counter, with the
environment, the reboot block and the console's command as what survives a restart.
A command line is a sequence of commands. An option of the kernel's command line is a
name, spelled out because `boot_config` compares prefixes, and a value. What the code
reads past the end of a field is `Junk`. The loop over the options goes on behind the end
of a typed text: where kmalloc clears its blocks it finds a zero there and stops, in a
block handed out again (`REUSE_MEMORY`) it finds words (`Leftovers`) and treats them as
options. The boot itself succeeds
or fails: what it does is `Handover`'s subject.

Abstraction. Text, formatting and messages are left out. Bytes of files are not
modelled in `Handover`, only extents; in `BlockIO` and the file systems they are
identities. Integers are not wrapped where sizes are far from 2^31; they are in the
emulator, where a long is 24 bits wide instead of 32 (TLC's integers), and in
`Msdos`, whose block list holds shorts (`SHRT_MAX`).

## 3. Runs

| Run | Instance | What it shows |
|---|---|---|
| `page_scan` | every free/used map of 7 and 9 pages, counts 1 to 7, superpages of 4 | the search, which jumps, stays on aligned starts and passes over no candidate, so that it returns the first fit or finds that there is none |
| `memory` | 8 or 11 pages growing to 14, blocks of less than a page, of half and of more than one, runs of 2 and 4 pages, free list on | blocks and pages have one owner and stay marked; `AllocatorInv` holds |
| `clusters` | every map of six pages, three values of `lastpfn` | clusters describe every page once, with the right usage, as few as possible |
| `handover` | 23 or 28 pages growing to 30, two attempts, three images, four ramdisk sizes, commands before the boot | what Linux needs is in no free cluster, page tables hit nothing, loads stay apart, the copy loop's overrun hits nothing, nor does an expanding kernel up to `MAX_KERNEL_SIZE`; 60 of 48 bytes are expanded too |
| `timers` | three listed timers, one of `mod_timer`, one task, three ticks, wheel vectors of two | list intact; refines `TimerQueue`; timers fire; tasks run |
| `block_io` | two devices of four sectors, the reads msdos and ext2 make | reads return exactly the device's data or fail; one request at a time; the buffer is large enough; reads return |
| `environment` | two variables with the same first letter, two values, two chunks behind the marker; symmetry in both | what the next run of MILO finds after any sequence of changes, cuts, failed writes and failed erases |
| `flash` | six blocks, an image of two, nine initial layouts | the debug monitor and foreign firmware survive; never two environment blocks |
| `noname_flash` | two chips of three bytes of two bits, weak and broken bytes, one retry of a write, three of an erasure | a programming that reports success leaves the image in both chips, only cleared chips are erased, and programming ends unless a byte of a chip cannot be cleared |
| `files` | six disks (two ext2, FAT of 12 and of 16 bits, ISO, blank), every command on each in any order, one read that fails | searches find exactly what is there with its size, blocks delivered are the file's, a directory is listed with its names and a file with its own, caches stay true to their disk, commands come back |
| `emulator` | some six thousand ROMs of one to four instructions, over the whole dispatch table and boundary operands | instructions end where they should and leave no prefix behind; arithmetic, shifts, branches, strings, operands, calls and stack mean what the processor's manual says |
| `prompt` | two images, two devices, four environments, six command lines, countdowns of none, 0 and 2 seconds, two restarts with or without power | a restart boots again what was booted; the menu boots the image chosen with its options; a machine told to boot by itself does |

**Bounds and why they are enough.** A page is 16 bytes and a word 2, so a
request can be smaller than a page, half of one and more than one, and a superpage of
four pages is crossed by runs of 5 and 7. `MaxHeld`, `PromptHeld`, `MaxAttempts`
and `MaxJiffies` bound how long a history TLC explores; each is large enough for
every disjunct of the next-state relations to be taken, and for two operations of
each kind to interfere. The proofs of section 5 remove
the bounds on sizes for every module but the file systems and the emulator. Three timers are needed for a timer in the middle of the list; two
variables with one first letter for a half-stored name to read as the other
one; two devices for the single buffer to hold the wrong one's data. Six flash
blocks leave room for a foreign image, the new image and a free block, with the
last two owned by NT and the SRM console.

For the file systems, two direct blocks and two pointers to an indirect block make a
file of up to eight blocks reach the double indirect block and both sides of every limit;
two ext2 disks share the number of an indirect block with other contents; a FAT of 6
clusters and one of more take both widths; ISO records straddle, fill and end their
blocks. One fault suffices to reach every error return, and a view leaves out what no
action reads again. The emulator's ROMs cover every opcode and, for arithmetic, the
operands around 0, half and all of the range. In `prompt` the string field holds two
options, so that three overflow it, and a file name just fills its field.

Symmetry is used in `environment` alone, where neither variables nor values are told
apart and nothing temporal is checked. `CHECK_DEADLOCK FALSE` is set where the system may stop: the
allocator halts the machine when memory is gone, the search loop and
`build_HWRPB_mem_map` return, a boot ends in Linux, the emulated machine halts, and
`prompt`'s last restart is used up.

**Preconditions of the runs.** `memory` and `handover` use one growth of memory
(`GrowOnly`), map bytes that read as used before they are written (`JunkReserved`)
and, for `memory`, block sizes that never fill pages exactly (`NoExactFit`).
Dropping the first or the third violates `OneOwner`: they are defects of the code
(section 6). Without the second, kmalloc may take pages past the last one, since it
looks at map entries above `lastpfn`; the code does not write those bytes, and what
they hold depends on the memory's contents at power-up. `handover`'s ramdisk sizes are
those whose last page is marked. `block_io` has the reads the file systems make, which
start at block boundaries. `FilesExact` leaves out blocks past `ind2lim` and cached
indirect blocks of another disk, `InstructionsApart` instructions behind an operand
size prefix and 0xd8, `BranchesDecide` the parity jumps and the long JNL, and
`MenuBootsChoice` the second try of one label and options hidden by a prefix: each is
a defect listed in section 6, and each definition says so.

**Fairness.** `Timers`: weak fairness of the tick, a periodic interrupt, and of
`do_timer`, which runs to its end with handlers that return; a handler never asks
for a time that has come already (a handler that did would keep `do_timer` from
returning). `BlockIO`: weak fairness of the reader, which polls, and of the
driver's interrupt for a request that was started: Linux drivers end every request
by their own timeout. `FileSystems`: weak fairness of the command being carried out,
sequential code, through reads that succeed; nobody need give a command and no read
need fail. `NoNameFlash`: weak fairness of the program's own steps. `Prompt`: weak
fairness of what MILO does by itself, the countdown's seconds included, and none of
the keyboard. The other modules state no liveness and no fairness.

## 4. Mutants

Every property of a passing run has a mutant: the definition it is about with a
plausible mistake (an off-by-one, a check of the first page only, a skipped
erase, the trust in a stale mark). TLC finds the property violated with the mutant
in place. The mutants stand in the modules next to what they change.

## 5. Proofs

`MemoryProofs` proves, for all sizes of memory, page, word and request, with or
without the free list and guard bands:

* `TypeCorrect`: `Spec => []TypeOK`;
* `AllocatorSafe`: under `GrowOnly`, `JunkReserved` and `NoExactFit`,
  `Spec => []AllocatorInv`;
* `BlocksNeverOverlap`, `PagesHaveOneOwner`: the two parts of it callers rely on.

*Why an inductive invariant.* `OneOwner` and `BlocksApart` do not follow from
themselves: kmalloc's fast path carves the next block at `temp_memory_ptr` without
a look at the map. So `AllocatorInv` adds that the pointer's page is marked, not
reserved and in nobody's extent, and that no held block lies behind the pointer in
that page (`PointerOwned`); that nothing is held above `lastpfn` and nothing there
reads as free (`TopRespected`), which is what raising `lastpfn` needs; that blocks
own the page they start in; and that reserved pages are marked. The proof goes by
action; the three ways of carving a block share one lemma (`CarveInv`) about a
block placed in pages that are the pointer's own or were free, and the two page
allocators share another (`HandInv`). Division by the page size is handled in a
handful of lemmas at the start, as the provers do not know it.

*Its conditions.* The three, as hypotheses of the theorems. `GrowOnly` and
`NoExactFit` cannot be dropped: TLC finds `OneOwner` violated without either.

It then proves of `Handover`, under `BootConditions`:

* `BootCorrect`: `BootSpec => []BootInv`;
* `HandOverIsComplete` (`LinuxKeepsWhatItNeeds`), `TablesLandOnFreePages`
  (`TablesHitNothing`), `LoadsDoNotCollide` (`LoadsStayApart`);
* `CopyStaysInItsPages` (`CopyHitsNothing`), under `CopyFits` too.

`BootInv` changes shape half way. Up to the marking of the kernel it is `AllocatorInv`
(`EarlyInv`). `load_ramdisk_from_device` then marks pages whoever they belong to, and the
allocator's invariant is gone; what is left (`LateInv`, `UsedInv`) is that what Linux
keeps is ALLOCATED, which neither `add_VA`, which takes free pages, nor
`build_HWRPB_mem_map`, which frees TEMPORARY ones, undoes, and that what is in use is
not free, so that `add_VA` does not take it. HWRPB and PALcode are ALLOCATED throughout
(`FixedInv`), since the allocator leaves a page in use as it is (`KmallocKeeps`,
`PagesKeep`). `BootConditions` are the allocator's three, also for the sizes the boot
asks of kmalloc (`BootBlocksFit`); regions as in `milo.h`, the kernel's one extent apart
from the rest (`KernelApart`); an image that ends in that region (`ImagesFit`) and a
ramdisk that begins above it and does not end in the last 1024 bytes of a page
(`RamdisksFit`), neither of which the code enforces (section 6); and no
`REUSE_MEMORY`, since the free that the boot command makes is not modelled with it.
The `handover` run satisfies all of them.

`CopyHitsNothing` is about bytes, not pages: the invariant (`BufferInv`) fixes the end of
all that the loop may write (`FarFrom`), and says that each page up to there is
TEMPORARY and nobody's extent, that every block but the decompressor's first buffer ends
before the kernel's buffer or begins behind that end, and that kmalloc's pointer does too,
so that later blocks stay away (`Away`). Each of the three ways of carving a block is
shown to keep it. `CopyFits` is about constants of the code: the 512 bytes in front of a
buffer and one block of 1024 fit in a page, and the kernel's buffer and the decompressor's
hold together what the loop may write; without the second TLC finds the next block hit.
Decompression needs none of it: up to `MAX_KERNEL_SIZE` it stays inside its buffer, and
blocks are apart. How far a compressed kernel expands nothing limits (section 6).

`PageMapProofs`, for every map and memory size:

* `SearchSkipsNothing`: `ScanSpec => []NothingSkipped`, and `SearchFindsFirstFit`: the
  loop returns the page `IsFirstFit` names, and says there is none only when there is
  no candidate. The invariant says that the start looked at is aligned and no candidate
  is below it. The jump is the difficulty: rounding up past a page in use
  (`NextStartExact`, from `RoundedUp`) passes over no aligned start.
* `ClustersCorrect`: `Spec => []ClusterInv`. The invariant says how far the two loops are
  (`LoopInv`), that the clusters so far are contiguous and start at page 0
  (`Contiguous`), and that they tell the map and are maximal; the first two are what the
  last two need.

`TimersProofs`, for every number of timers and tasks and any length of run, under
`UsedOneWay` (no timer is given to both `add_timer` and `mod_timer`; one that is corrupts
the list, section 6):

* `TimersCorrect`, `ListStaysIntact`: the list is well linked and sorted. The invariant
  exhibits the list as a sequence (`IsRing`): links that agree pairwise could also form
  two rings, and then a removal could lose timers.
* `TimersImplementQueue`: `Spec => ImplementsQueue`. Each step maps to one of
  `TimerQueue` or a stutter; that `do_timer` fires the earliest timer follows from the
  sequence being sorted.

`DiskProofs`, of `BlockIO`, for all devices, block sizes and reads:

* `BlockIOCorrect` (types), `OneReadAtATime` (`OneRequest`), without conditions. The
  invariant (`HandOverInv`) ties the request's state, the lock and the reader's place
  together.
* `ReadsAreExact` (`ReadsExact`) under `ReadsFit`: each read starts at a block or stays in
  one, as those of the file systems do; others return what lies behind the buffer
  (section 6). The invariant adds that the buffer, once up to date, holds the block the
  reader waits for (`FilledInv`).
* `BlocksFitTheBuffer` (`BufferHoldsBlock`) under `Disks # {}`: with a disk in the machine
  the first read has the largest block size; with a floppy only it fails (section 6).

and of `FileSystems`, for any disks, files, commands and failures:

* `CachesStayHonest` (`CachesHonest`): no step of a command on a disk makes the ext2
  reader's caches tell lies about that disk. All rests on one lemma (`BreadiKeeps`): what
  the block map does to a cache is to leave it or to fill it with a block and that block's
  number at once, whatever fails in between (`Refilled`).
* `CachesFromDisks` (`FilesInv`) and `OneDiskNeverStale`: a cache always holds a block as
  some disk has it under that number; with one disk (`OneDisk`) it is therefore never
  stale. With two it may be, since nothing resets the caches (section 6).
* `ReadsFollowTheInode` (`ReadsFollowInode`): with true caches, a step in which no read
  fails gets the block that the pointers on the disk name, with no cache in between
  (`MappedBlock`), at all limits of direct, indirect and double indirect blocks, for
  files, for directories searched or listed, and for the text of a long link. Its
  hypothesis `Unsigned`, that no pointer is the -1 of an empty cache, is the type of the
  pointers (`unsigned int`). The invariant says that a command at work has its disk.
* `ReadsFollowTheChain` (`ReadsFollowChain`): a block the MS-DOS reader delivers is the
  next two sectors of the chain that the FAT has for the inode's first cluster. The
  invariant (`ChainInv`) is that while a file is read its list of sectors is still the one
  made from that chain. The second half excepts what section 6 says of it: a read that
  fails, and a sector number that a `short` turns negative.
* `SearchesFindSlots` (`RoomToSearch`): no path search is ever short of an inode slot,
  although the tables have four or five and not every failure gives its inode back. The
  invariant (`SlotsInv`) says what may be held: in ext2 the slots of `dir_inode` and
  `file_inode` (`Tidy`), after links too; in the other two the one searched and one more,
  lost by the search for the first of the two configuration files (`AlmostTidy`) - the
  only search that another one follows under the same mount.
* `FilesTypeCorrect` (`files_TypeOK`): types, and that the descriptor a command reads or
  lists with is a slot of the tables. It says nothing of the slot being in use: after a
  link it may not be (section 6).

`EnvironmentProofs`, without conditions, for any number of variables, chunks, saves and
power failures: `VariablesAreUnique` (`OneChunkPerVariable`), `SavesAreComplete`
(`SavedIsCurrent`), `NvramLosesNoOther` (`OthersSurvive`), `FlashShowsNoOldValue`
(`FlashNeverStale`) and their invariant, `EnvironmentCorrect`. In NVRAM store and working
area differ at most in chunks of variables being changed (`NvramInv`). In flash the store
is, once erased, a beginning of the working area, its last chunk perhaps torn (`Prefix`, in
`FlashInv`), which is why a first match in the store is never an old value. After an erase
that failed (`fault = "erase"`) nothing of the kind holds, and neither theorem claims it,
until a later save erases the block or MILO starts again and takes what it finds.

`FlashProofs`, for any number of blocks and any image: `FlashCorrect` (types);
`EnvironmentIsOne` (`OneEnvironment`) if there is at most one to begin with
(`OneAtFirst`); `FlashStaysOrderly`, `MonitorIsSafe` (`DebugMonitorSafe`) and
`ForeignIsSpared` (`ForeignSpared`) under `OrderlyFlash`: to begin with no two images
overlap, none claims the environment's block, the debug monitor lies below the last two
blocks, and the utility's own image is neither NT's nor the SRM console's. That is how
the makers of the boards fill the flash memory; with overlapping images a block has two
owners and the claim no meaning. The invariant is about the stale marks: whatever failed
before, no mark calls a foreign block free or MILO's, and each operation in progress
works on blocks that yield (`MarksInv`, `WorkInv`).

`NoNameFlashProofs`, without conditions, for chips of any size and any set of broken and
weak bytes: `NothingIsOverErased` (`ErasesOnlyCleared`), `WrongImageIsReported`
(`FlashHoldsImage`), `NoNameCorrect`. The invariant says what each pass leaves behind it:
cleared bytes above the counter of `flash_prep`, bytes cleared or erased while erasing.

`PromptProofs`, without conditions: `RestartRepeats` (`RebootRepeats`), from the fact that
the block is what was last booted whenever its flag is set; and `MenuBootsImageAndOptions`
(`MenuBootsChoice`), that the menu boots the image and device chosen with all the options
of the choice. Options are merged word by word (`Merged`); the loop invariant (`Kept`) says
which of the old ones a turn may replace, and that the others stay where they can be no
victims of the array's end. Since the induction rules of the library are out
of reach (they take an operator), it is proved by least counterexample: were it false after
some word, it would be false after a first one, and one turn keeps it.

*Assumptions.* The named `ASSUME`s, which TLC evaluates in every run: positive sizes, the
fixed regions below the first 16 MB with room for the map, types of the constants,
slots of the timer wheel that are no timers (`SlotsAssumption`), and one fact of
arithmetic, that powers of two are positive (`PowersPositive`), which the provers do not
know.

*Only model-checked.*
* Liveness (`TimersAndTasksRun`, `ReadReturns`, `CommandsReturn`, `ProgrammingEnds`,
  `UnattendedBoots`), which is beyond the prover.
* `LookupsExact`, `FilesExact` and `ListsExact` of `FileSystems`, which compare the
  answers with what is on the disks (`Truth`), over walks of directories, FAT chains and
  records: induction over data. What is proved of the ext2 and msdos readers is one step
  of such a walk.
* The emulator, whose modules rest on `Bitwise`, which the prover cannot use.

## 6. Defects met while modelling

The models do what the code does, these included. Where one would violate a property,
the property or the run's inputs exclude exactly it (section 3).

Memory and boot
* Lowering `MEMORY_SIZE` and raising it again marks pages in use as free, as "new
  pages" (`memory.c:586-588`). Raising it leaves the map's own growth past a multiple of
  64 MB unreserved (`memory.c:581`).
* A block that ends with its page leaves kmalloc's pointer in a page it does not own,
  and the next block goes there (`memory.c:223`).
* `free` does nothing without `REUSE_MEMORY` and is given a pointer 512 bytes into the
  block (`boot.c:513`): a failed boot keeps more than 8 MB, and the second attempt on a
  32 MB machine halts.
* The ramdisk's last page stays free if its size modulo 8192 is 0 or above 7168
  (`boot.c:1105`). One too large for its place prints "aborting." and is loaded
  (`boot.c:1103`), perhaps over live heap pages.
* The loop that reads the kernel tests its limit after it has copied (`boot.c:494`) and
  writes up to a block past its buffer. For the sizes in the code what lies there is the
  decompressor's input buffer, out of use, or the rest of kmalloc's own pages
  (`CopyStaysInItsPages`); that rests on how kmalloc rounds, not on any check.
* The decompressor tests no limit at all (`flush_window`, `zip/misc.c:153-160`), although
  the comment at `zip/misc.c:172-177` says that one is put on the kernel's size: a kernel
  that expands past `MAX_KERNEL_SIZE` runs over the decompressor's own buffers and
  whatever kmalloc or `init_mem` put behind them. `FlushWindow` does so in the model;
  `CopyHitsNothing` is claimed only up to `MAX_KERNEL_SIZE`, and what the bytes written
  beyond it destroy is not modelled.
* The image's memory size is not compared with the room the kernel has, and the bss is
  not cleared.

Timers, devices, environment, flash
* Timers of `mod_timer` never fire: nothing runs the wheel. A timer given to both
  `add_timer` and `mod_timer` corrupts the list.
* `interruptible_sleep_on` enables interrupts before it counts itself a sleeper
  (`devices.c:734`): a wake-up in between is lost.
* A read that starts inside a block copies what lies behind the buffer
  (`devices.c:899`; the `read` command's second screen does so, `milo.c:903`).
* The block buffer is sized by the first read ever made: on a machine with only a floppy
  a later ext2 mount overruns it.
* A value longer than its chunk runs into the next variable. A flash block that lost its
  marker in a power failure is never found nor saved to again (`nvram.c:191`).
* `delete_flash_block` may fail and returns nothing (`flash/28f008sa.c:141-145`); the save
  writes over the old text all the same (`nvram.c:194`). It can end as if complete with a
  store that is not the working area, and a value that was replaced can come back.
* Overwriting the old MILO frees the environment's block too (`flash/eb.c:339`).
* NoName: `flash_prep` never gives up on a byte it cannot clear (`flash/noname.c:1377`;
  the comment at 1341 promises 25 retries). `verify(port, 0xff)` compares a signed char
  and never holds (1485), so blank chips are prepared again. Only one chip is told to read in
  `flash_program`; `found` is the second chip's alone. A failed erasure leaves the
  programming voltage on and the caller prints "Done" (1696, 1752); `flash_update`'s
  error is ignored.

File systems
* Callers take 1 KB of every block: ext2 with 2 or 4 KB blocks cannot be read and
  overruns their buffers. `ind2lim` leaves out the single indirect blocks
  (`ext2.c:198`). The indirect caches survive a mount.
* A failed ext2 read delivers zeros or the old buffer as success; a directory block of
  zeros is searched for ever (`ext2.c:562`); an inode that cannot be read in the middle
  of a path is a null pointer. A link frees the slot that its search returns, and a slow
  link at the end of a path reads the directory's block. Deleted entries are found.
* `__close` is given the channel, not the descriptor.
* msdos: block numbers are shorts; an empty file is refused; `open("/")` follows a chain
  from the root directory's sector; a size is one block too many (`dos.c:278`); a failed
  search keeps its inodes.
* ISO: a record whose second half cannot be read is found with inode 0; a failed read in
  a listing is ignored (`isofs.c:448`); `..` works at the root only; the inode of a
  directory that lacks the next component, that of `ls` and that of `__close` are not given
  back before the next mount; how much of a straddling record's tail `isofs_iget` copies
  depends on a byte of another record (`isofs.c:225-230`); every mount leaks its buffers.
* `fs_type_to_name` bounds its index by the wrong size (`fs.c:74`).

Emulator
* The parity table is inverted (JP, JNP). The long JNL tests JL
  (`x86_ops.c:146-147`).
* `x86_intr_handle` pushes CS and IP in the other order than `x86op_int` and never clears
  its request; between a prefix and its instruction it takes the prefix away.
* REPE and REPNE drop earlier prefixes and stay set over an instruction that is no string
  instruction. The operand size prefix is ignored by most immediate forms; MOV AX,imm
  clears EAX's upper half; repeated INS and OUTS of longs stop after one; several
  overrides halt; 0xd8 does not fetch its mode byte.
* Flags: NEG's overflow of words; the carry of SHL and SHR by the width and of ROL by a
  multiple of it; SAR's count modulo the width; RCL of longs masks 16 bits; DIV and IDIV of
  words check the quotient by `abs`, which lets 2^31 through, and DIV's 65535 largest.
* `mem_write` of a long to an even address writes two bytes, and only the first byte's
  address is checked (`freebiosvga.c:231`). The ROM's final RETF returns to memory
  nobody wrote. Segment registers 4 to 7 are a null pointer.

Prompt
* An option replaces every earlier one its name is a prefix of: "ro" removes "root=..."
  (`milo.c:610`, against the comment at 569). `options[]` is one short if options are
  typed behind a label (589-594), which only kmalloc's rounding makes up for; and the scan
  runs past the end of the text (623): with `REUSE_MEMORY` words of an earlier text replace
  options of this one, or overrun the array.
* `dev:file` and `command=` texts are cut in place (649, 558): the second try of a label
  boots a file named after the device, and runs no commands.
* The reboot block's fields are not terminated when full (323-330). It is written after
  a successful load only, where the comment (`hwrpb.c:158`) says each attempt.
* `tokens[10]` is not bounded (265). After one boot, autoboot never runs again until the
  power goes.

## 7. Plan

Modelled and checked: every module of section 2. Proved: every safety property of the
runs except those that section 5 lists as only model-checked. What is left:

1. That the search of a directory, in each reader, finds the first entry of that name:
   the step from `ReadsFollowTheInode` and `ReadsFollowTheChain` towards `LookupsExact`.
2. The parts of section 8 that have state worth a model: the line editor and the wait
   queues.

## 8. Not modelled

* inflate: gzip's code, taken over unchanged; what it computes is a recursive function of
  its whole input. Its buffers and calls back are in `Handover`.
* Keyboard and line editor: device input. `Prompt` takes from it a key, a second without
  one, or a line.
* Wait queues, semaphores and driver tables: called by Linux's drivers only, which are
  not in the repository, so that who sleeps and who wakes cannot be read from it.
* Console output, video drivers, UART: device output without state of interest.
* PALcode and entry code: Alpha assembly, most of it vendor code, and the header files of
  register numbers that go with it.
* Chip set-up (`cpu.c`, `pceb.c`, `smc.c`, `kernel/core_*.c`): register writes
  whose meaning is in the hardware.
* Start-up (`relocate.c`, `stub.c`, `__main`): copies between fixed addresses, run
  once.
* Host tools: programs that build images; not part of the loader.
* Stubs for Linux functions (`kernel.c`, `generic.c`, `proc.c`, `dumb*.c`): empty.
* The flash utility's command loop: parses a command and calls what `Flash` models.
* Code that is not built: `X86_FPU_PRESENT`, the debugger of the emulator, `DEBUG_*`.
