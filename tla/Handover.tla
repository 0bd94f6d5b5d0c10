------------------------------- MODULE Handover -------------------------------
(***************************************************************************)
(* The boot command, from the prompt to the jump into Linux: boot_cmd      *)
(* (milo.c), load_image_from_device, load_image_from_memory,               *)
(* load_ramdisk_from_device and add_VA (boot.c), uncompress_kernel         *)
(* (zip/misc.c) and build_HWRPB_mem_map (hwrpb.c), on top of the memory    *)
(* manager of module Memory.  A boot attempt is a sequence of allocations  *)
(* and markings that may fail half way and return to the prompt.           *)
(*                                                                         *)
(* Byte positions are counted from the start of memory; `pc` is the place  *)
(* in boot_cmd.  File system and disk are the module's environment: they   *)
(* decide whether a file is found, compressed, well formed and how large.  *)
(***************************************************************************)
EXTENDS Memory

CONSTANTS
    MaxKernelSize,  \* MAX_KERNEL_SIZE
    Slack,          \* the 512 bytes kmalloc'ed in front of each buffer
    IobufSize,      \* IOBUF_SIZE, the unit __bread reads
    InbufSize,      \* INBUFSIZ, the decompressor's input buffer
    WindowSize,     \* WSIZE, its window
    FileSizes,      \* sizes of kernel files that are not compressed
    ExpandedSizes,  \* how far compressed ones expand before their end
    Images,         \* ELF headers: [entry, vaddr, memsz], from KERNEL_START
    Ramdisks,       \* sizes of initdisk.gz
    PromptHeld,     \* bound: what commands before the boot hold
    MaxAttempts     \* bound: boot commands

VARIABLES
    pc,             \* where boot_cmd is
    buffer,         \* the block the kernel file is read into, or NONE
    inbuf,          \* the decompressor's input buffer, or NONE
    written,        \* bytes read into `buffer` so far
    kernel,         \* [at, memsize, pages] of the loaded image, or NONE
    ramdisk,        \* [where, size] of the loaded ramdisk, or NONE
    page_tables,    \* pages add_VA allocated, the L2 page first
    attempts        \* boot commands so far

bootvars == <<pc, buffer, inbuf, written, kernel, ramdisk, page_tables, attempts>>
allvars == <<vars, bootvars>>

NONE == [none |-> TRUE]
KernelStart == CHOOSE p \in Kernel : \A q \in Kernel : p <= q
LoaderAt == (CHOOSE p \in Loader : \A q \in Loader : p <= q) * PageSize
KernelAt == KernelStart * PageSize

ASSUME BootAssumption ==
    /\ {MaxKernelSize, Slack, InbufSize, WindowSize} \subseteq Nat
    /\ IobufSize \in 1 .. PageSize
    /\ Images \subseteq [entry : Nat, vaddr : Nat, memsz : Nat] /\ Ramdisks \subseteq Nat
    /\ ExpandedSizes \subseteq Nat
    /\ Kernel # {} /\ Loader # {}
    /\ MaxKernelSize = Cardinality(Kernel) * PageSize
    /\ \A i \in Images : i.entry >= PageSize /\ i.vaddr <= i.entry /\ i.memsz > i.entry - i.vaddr

\* Pages that hold the bytes from position a up to, not including, b.
BytePages(a, b) == (a \div PageSize) .. ((b + PageSize - 1) \div PageSize - 1)

BootInit ==
    /\ Init
    /\ pc = "prompt"
    /\ buffer = NONE /\ inbuf = NONE /\ written = 0
    /\ kernel = NONE /\ ramdisk = NONE
    /\ page_tables = <<>>
    /\ attempts = 0

At(label) == pc = label /\ ~halted
Goto(label) == pc' = label

-----------------------------------------------------------------------------
(* Commands before the boot: kmalloc, driver pages, MEMORY_SIZE.  Without  *)
(* REUSE_MEMORY a free changes nothing, so none is modelled here.          *)

Command ==
    /\ At("prompt")
    /\ Cardinality(live) + Cardinality(handed) < PromptHeld
    /\ \/ \E size \in Sizes : Kmalloc(size)
       \/ \E count \in PageCounts : GetFreePages(count)
       \/ \E top \in ResetTops : ResetMem(top)
    /\ UNCHANGED bootvars

-----------------------------------------------------------------------------
(* load_image_from_device *)

\* device_mount or __open fails: boot_cmd returns with nothing done.
OpenFails ==
    /\ At("prompt")
    /\ attempts < MaxAttempts
    /\ attempts' = attempts + 1
    /\ UNCHANGED <<vars, pc, inbuf, buffer, written, kernel, ramdisk, page_tables>>

\* where = kmalloc(MAX_KERNEL_SIZE + 512) + 512.
AllocateBuffer ==
    /\ At("prompt")
    /\ attempts < MaxAttempts
    /\ attempts' = attempts + 1
    /\ Kmalloc(MaxKernelSize + Slack)
    /\ buffer' = IF halted' THEN NONE ELSE CHOOSE b \in live' : b \notin live
    /\ written' = 0
    /\ Goto("inbuf")
    /\ UNCHANGED <<inbuf, kernel, ramdisk, page_tables>>

\* uncompress_kernel: two buffers that are never freed, then the magic number.
AllocateInbuf ==
    /\ At("inbuf") /\ Kmalloc(InbufSize) /\ Goto("window")
    /\ inbuf' = IF halted' THEN NONE ELSE CHOOSE b \in live' : b \notin live
    /\ UNCHANGED <<buffer, written, kernel, ramdisk, page_tables, attempts>>

AllocateWindow ==
    /\ At("window") /\ Kmalloc(WindowSize)
    /\ \/ Goto("plain")        \* "this is not a zipped file"
       \/ Goto("unzip")
    /\ UNCHANGED <<inbuf, buffer, written, kernel, ramdisk, page_tables, attempts>>

\* flush_window, called with the window full: nothing compares what has been
\* expanded with the buffer's size.
FlushWindow ==
    /\ At("unzip")
    /\ written' = written + WindowSize
    /\ \E size \in ExpandedSizes : written' <= size
    /\ UNCHANGED <<vars, pc, inbuf, buffer, kernel, ramdisk, page_tables, attempts>>

\* The end of the kernel, with the rest of the window, or
\* error("invalid compressed format") at any point.
Unzip ==
    /\ At("unzip")
    /\ \/ /\ \E size \in ExpandedSizes :
                /\ written <= size /\ size < written + WindowSize
                /\ written' = size
          /\ Goto("unzipped")
          /\ UNCHANGED vars
       \/ error /\ UNCHANGED <<pc, written>>
    /\ UNCHANGED <<inbuf, buffer, kernel, ramdisk, page_tables, attempts>>

AllocateIobuf ==
    /\ At("plain") /\ Kmalloc(IobufSize + Slack) /\ Goto("copy")
    /\ UNCHANGED <<inbuf, buffer, written, kernel, ramdisk, page_tables, attempts>>

\* Mutant: takes the bytes in front of the buffer for room behind it.
StopCopy_Slack(n) == n > MaxKernelSize + Slack

\* "if ((ptr - where) > MAX_KERNEL_SIZE) break", after the block is copied.
StopCopy(n) == n > MaxKernelSize

\* One block: __bread, memcpy, advance.  The ext2 __bread never fails, so the
\* loop may go on past the end of the file; another's fails there.
CopyBlock ==
    /\ At("copy")
    /\ written' = written + IobufSize
    /\ IF StopCopy(written') THEN Goto("header") ELSE Goto("copy")
    /\ UNCHANGED <<vars, inbuf, buffer, kernel, ramdisk, page_tables, attempts>>

CopyEnds ==
    /\ At("copy")
    /\ written \in FileSizes
    /\ Goto("header")
    /\ UNCHANGED <<vars, inbuf, buffer, written, kernel, ramdisk, page_tables, attempts>>

-----------------------------------------------------------------------------
(* load_image_from_memory and boot_cmd *)

Loaded == At("header") \/ At("unzipped")

\* extract_header_info returns -1; kfree does nothing; boot_cmd gives up.
BadHeader ==
    /\ Loaded
    /\ Goto("prompt")
    /\ live' = live \ {buffer}
    /\ buffer' = NONE
    /\ UNCHANGED <<milo_memory_map, map_pages, lastpfn, temp_memory_ptr, free_cache,
                   halted, handed, inbuf, written, kernel, ramdisk, page_tables, attempts>>

\* Mutant: forgets the pages between KERNEL_START and the entry point.
PagesOf_NoPrefix(at, memsize) == PagesFor(memsize)

\* kernel_pages: the image, and the pages between KERNEL_START and its entry.
PagesOf(at, memsize) == PagesFor(memsize) + PagesFor(at)

\* What is before the entry point is not loaded.
GoodHeader ==
    /\ Loaded
    /\ \E i \in Images :
        LET at == i.entry
            memsize == i.memsz - (i.entry - i.vaddr)
        IN  kernel' = [at |-> KernelAt + at, memsize |-> memsize,
                       pages |-> PagesOf(at, memsize)]
    /\ Goto("mark")
    /\ live' = live \ {buffer}
    /\ buffer' = NONE
    /\ UNCHANGED <<milo_memory_map, map_pages, lastpfn, temp_memory_ptr, free_cache,
                   halted, handed, inbuf, written, ramdisk, page_tables, attempts>>

\* Mutant: marks the real kernel first and frees the guess after it.
KernelMarked_Swapped(map, pages) ==
    MarkPages(MarkMany(map, KernelStart, pages, ALLOCATED_PAGE), Kernel, FREE_PAGE)

\* Free what init_mem guessed, then mark what the kernel really takes.
KernelMarked(map, pages) ==
    MarkMany(MarkPages(map, Kernel, FREE_PAGE), KernelStart, pages, ALLOCATED_PAGE)

MarkKernel ==
    /\ At("mark")
    /\ milo_memory_map' = KernelMarked(milo_memory_map, kernel.pages)
    /\ Goto("ramdisk")
    /\ UNCHANGED <<map_pages, lastpfn, temp_memory_ptr, free_cache, halted, live, handed,
                   inbuf, buffer, written, kernel, ramdisk, page_tables, attempts>>

-----------------------------------------------------------------------------
(* load_ramdisk_from_device *)

\* Mutant: no slack for the block the loop reads beyond the file's end.
Where_NoSlack(size) == LoaderAt - size
Where(size) == LoaderAt - size - IobufSize

\* Bytes the loop reads: it stops once it has read more than size.
ReadBytes(size) == (size \div IobufSize + 1) * IobufSize

\* Mutant: one page too few.
RamdiskPages_Floor(size) == Extent(Where(size) \div PageSize, size \div PageSize)
RamdiskPages(size) == Extent(Where(size) \div PageSize, PagesFor(size))

\* A ramdisk that would overwrite the kernel is announced and loaded all the
\* same; its pages are marked whoever they belong to.
LoadRamdisk ==
    /\ At("ramdisk")
    /\ \E size \in Ramdisks :
        /\ ramdisk' = [where |-> Where(size), size |-> size]
        /\ milo_memory_map' = MarkPages(milo_memory_map, RamdiskPages(size), ALLOCATED_PAGE)
    /\ Goto("tables")
    /\ UNCHANGED <<map_pages, lastpfn, temp_memory_ptr, free_cache, halted, live, handed,
                   inbuf, buffer, written, kernel, page_tables, attempts>>

NoRamdisk ==
    /\ At("ramdisk")
    /\ Goto("tables")
    /\ UNCHANGED <<vars, inbuf, buffer, written, kernel, ramdisk, page_tables, attempts>>

-----------------------------------------------------------------------------
(* make_HWRPB_virtual and build_HWRPB_mem_map *)

\* add_VA for the HWRPB: an L2 page, then an L3 page.
AddVA ==
    /\ At("tables")
    /\ AllocatePfn
    /\ page_tables' = IF halted' THEN page_tables
                      ELSE Append(page_tables, (CHOOSE e \in handed' : e \notin handed).pfn)
    /\ IF Len(page_tables) = 1 THEN Goto("clusters") ELSE Goto("tables")
    /\ UNCHANGED <<inbuf, buffer, written, kernel, ramdisk, attempts>>

\* The memory map for Linux (module Clusters), then the jump.
BuildMemMap ==
    /\ At("clusters")
    /\ milo_memory_map' = [p \in Pfns |-> IF p <= lastpfn /\ milo_memory_map[p] = TEMPORARY_PAGE
                                          THEN FREE_PAGE ELSE milo_memory_map[p]]
    /\ Goto("linux")
    /\ UNCHANGED <<map_pages, lastpfn, temp_memory_ptr, free_cache, halted, live, handed,
                   inbuf, buffer, written, kernel, ramdisk, page_tables, attempts>>

BootNext ==
    \/ Command
    \/ OpenFails \/ AllocateBuffer \/ AllocateInbuf \/ AllocateWindow
    \/ FlushWindow \/ Unzip \/ AllocateIobuf \/ CopyBlock \/ CopyEnds
    \/ BadHeader \/ GoodHeader \/ MarkKernel
    \/ LoadRamdisk \/ NoRamdisk
    \/ AddVA \/ BuildMemMap

BootSpec == BootInit /\ [][BootNext]_allvars

-----------------------------------------------------------------------------
KernelPages == IF kernel = NONE THEN {} ELSE BytePages(kernel.at, kernel.at + kernel.memsize)
RamdiskHolds == IF ramdisk = NONE THEN {}
                ELSE BytePages(ramdisk.where, ramdisk.where + ramdisk.size)
TablePages == {page_tables[i] : i \in 1 .. Len(page_tables)}

BootTypeOK ==
    /\ TypeOK
    /\ pc \in {"prompt", "inbuf", "window", "unzip", "unzipped", "plain", "copy",
               "header", "mark", "ramdisk", "tables", "clusters", "linux"}
    /\ buffer \in live \cup {NONE} /\ inbuf \in live \cup {NONE}
    /\ written \in Nat /\ attempts \in 0 .. MaxAttempts
    /\ TablePages \subseteq Pfns /\ Len(page_tables) <= 2

(***************************************************************************)
(* When Linux starts, no page it needs is in a free cluster: the HWRPB,    *)
(* the PALcode it runs on, its own image, the page tables it starts with   *)
(* (the L1 page is the kernel's first) and its ramdisk.                    *)
(***************************************************************************)
LinuxKeepsWhatItNeeds ==
    pc = "linux" =>
        \A p \in {0, KernelStart} \cup Palcode \cup KernelPages \cup TablePages \cup RamdiskHolds :
            milo_memory_map[p] # FREE_PAGE

(***************************************************************************)
(* The page tables add_VA builds, after the kernel and the ramdisk are in  *)
(* place, land on neither of them, on nothing MILO still runs from and on  *)
(* no block MILO still holds.                                              *)
(***************************************************************************)
TablesHitNothing ==
    /\ Len(page_tables) = 2 => page_tables[1] # page_tables[2]
    /\ TablePages \cap (KernelPages \cup RamdiskHolds \cup Palcode \cup Stub \cup Loader
                        \cup {0, KernelStart} \cup Extent(MapAt, map_pages)) = {}
    /\ \A b \in live : BlockPages(b) \cap TablePages = {}

(***************************************************************************)
(* MILO survives its own loading: neither the last block read for the      *)
(* ramdisk nor the image of the kernel reaches the loader, and the kernel  *)
(* does not reach the ramdisk.                                             *)
(***************************************************************************)
LoadsStayApart ==
    /\ ramdisk # NONE =>
          /\ ramdisk.where + ReadBytes(ramdisk.size) <= LoaderAt
          /\ kernel.at + kernel.memsize <= ramdisk.where
    /\ KernelPages \cap Loader = {}

(***************************************************************************)
(* The copy loop tests its limit after each block, and so writes up to a   *)
(* block past the kernel buffer: what it writes there is at most the       *)
(* decompressor's input buffer, which is out of use, or the unused rest of *)
(* pages kmalloc already owns, never another block, page or region.  The   *)
(* decompressor stays off its own input buffer as well, as long as it has  *)
(* not expanded more than MAX_KERNEL_SIZE, which it does not test.         *)
(***************************************************************************)
Zipped == pc \in {"unzip", "unzipped"}

CopyHitsNothing ==
    buffer # NONE /\ (Zipped => written <= MaxKernelSize) =>
        LET end == Plus(buffer.at, Slack + written)
            pages == PagesSpanned(buffer.at, end)
            spent == IF Zipped THEN {} ELSE {inbuf}
        IN  /\ \A b \in live \ ({buffer} \cup spent) :
                  AtOrBelow(end, b.at) \/ AtOrBelow(b.end, buffer.at)
            /\ \A e \in handed : ExtentPages(e) \cap pages = {}
            /\ pages \cap Reserved = {}
            /\ \A p \in pages : milo_memory_map[p] = TEMPORARY_PAGE
===============================================================================
