------------------------------- MODULE Memory -------------------------------
(***************************************************************************)
(* MILO's memory management (memory.c): init_mem lays out the page map,    *)
(* allocate_pfn and allocate_many_pfn hand out pages, kmalloc carves       *)
(* blocks from pages it marks TEMPORARY, free puts a block on a list when  *)
(* REUSE_MEMORY is configured, and reset_mem changes the amount of memory  *)
(* when the operator sets MEMORY_SIZE.                                     *)
(*                                                                         *)
(* An address is a record [pfn, off]: the page _PHYSICAL_TO_PFN computes   *)
(* and the offset in it.  `live` and `handed` are history variables: what  *)
(* the callers hold.  Nothing in the program depends on them.              *)
(***************************************************************************)
EXTENDS PageMap, Integers, Sequences, FiniteSets

CONSTANTS
    PageSize,      \* bytes in a page (8192); the map takes a byte per page
    WordSize,      \* kmalloc rounds to this many bytes (8)
    GuardBytes,    \* added to a request when GUARD_BANDS is on, else 0
    ReuseMemory,   \* the configuration option REUSE_MEMORY
    MinPages,      \* MILO_MIN_MEMORY_SIZE in pages
    Loader, Stub, Kernel, Palcode,  \* pages at LOADER_AT, STUB_AT, ...
    InitTops,      \* memory sizes, in pages, that init_mem may find
    ResetTops,     \* memory sizes, in pages, the operator may ask for
    Junk,          \* what the map's bytes may hold before init_mem writes them
    Sizes,         \* sizes asked of kmalloc
    PageCounts,    \* page counts (1 << order) asked of __get_free_pages
    MaxHeld        \* bound: blocks and extents held at one time

ASSUME SizeAssumption ==
    /\ PageSize \in Nat \ {0} /\ WordSize \in Nat \ {0}
    /\ GuardBytes \in Nat
    /\ ReuseMemory \in BOOLEAN
    /\ Sizes \subseteq Nat
    /\ PageCounts \subseteq Nat \ {0}
    /\ MaxHeld \in Nat

ASSUME LayoutAssumption ==
    /\ MinPages \in Nat \ {0}
    /\ InitTops \subseteq MinPages .. (MapCap - 1)
    /\ ResetTops \subseteq MinPages .. (MapCap - 1)
    /\ Loader \subseteq 1 .. (MinPages - 1) /\ Stub \subseteq 1 .. (MinPages - 1)
    /\ Kernel \subseteq 1 .. (MinPages - 1) /\ Palcode \subseteq 1 .. (MinPages - 1)
    /\ Junk \subseteq Maps

VARIABLES
    milo_memory_map,  \* the page map
    map_pages,        \* pages init_mem reserved for the map itself
    lastpfn,
    temp_memory_ptr,  \* where the next kmalloc block starts, or NULL
    free_cache,       \* REUSE_MEMORY: list of freed blocks, last freed first
    halted,           \* error() was called: the machine waits for a key, halts
    live,             \* history: the blocks kmalloc's callers hold
    handed            \* history: the extents of pages handed to other callers

vars == <<milo_memory_map, map_pages, lastpfn, temp_memory_ptr, free_cache,
          halted, live, handed>>

NULL == [pfn |-> -1, off |-> 0]
Addresses == [pfn : Nat, off : 0 .. (PageSize - 1)]
Blocks == [at : Addresses, end : Addresses, size : Nat]
Extents == [pfn : Nat, count : Nat]

-----------------------------------------------------------------------------
(* Addresses *)

Plus(a, n) == [pfn |-> a.pfn + (a.off + n) \div PageSize,
               off |-> (a.off + n) % PageSize]

AtOrBelow(a, b) == a.pfn < b.pfn \/ (a.pfn = b.pfn /\ a.off <= b.off)

\* The pages the bytes from a up to, not including, b lie in.
PagesSpanned(a, b) == a.pfn .. (IF b.off = 0 THEN b.pfn - 1 ELSE b.pfn)

BlockPages(b) == PagesSpanned(b.at, b.end)
Apart(b, c) == AtOrBelow(b.end, c.at) \/ AtOrBelow(c.end, b.at)

PagesFor(bytes) == (bytes + PageSize - 1) \div PageSize

\* The map always fits below MILO_MIN_MEMORY_SIZE.
ASSUME MapFits == \A top \in InitTops : PagesFor(top) < MinPages

\* milo_memory_map is one byte per page, in the top pages of the first 16 MB.
MapAt == MinPages - map_pages
MapExtent(top) == Extent(MapAt, PagesFor(top))

-----------------------------------------------------------------------------
(* init_mem *)

\* Everything free, then the regions in the order init_mem marks them.  Bytes
\* of the map above lastpfn keep whatever the memory held.
InitialMap(junk, top) ==
    LET npages   == PagesFor(top)
        allFree  == [p \in Pfns |-> IF p < top THEN FREE_PAGE ELSE junk[p]]
        ownPages == MarkMany(allFree, MinPages - npages, npages, TEMPORARY_PAGE)
        hwrpb    == MarkMany(ownPages, 0, 1, ALLOCATED_PAGE)
        loader   == MarkPages(hwrpb, Loader, TEMPORARY_PAGE)
        stub     == MarkPages(loader, Stub, ALLOCATED_PAGE)
        kernel   == MarkPages(stub, Kernel, TEMPORARY_PAGE)
    IN  MarkPages(kernel, Palcode, ALLOCATED_PAGE)

init_mem(top) ==
    /\ lastpfn = top - 1
    /\ map_pages = PagesFor(top)
    /\ \E junk \in Junk : milo_memory_map = InitialMap(junk, top)

Init ==
    /\ \E top \in InitTops : init_mem(top)
    /\ temp_memory_ptr = NULL
    /\ free_cache = <<>>
    /\ halted = FALSE
    /\ live = {}
    /\ handed = {}

-----------------------------------------------------------------------------
(* Pages: allocate_pfn, allocate_many_pfn, __get_free_pages *)

CanHold == ~halted /\ Cardinality(live) + Len(free_cache) + Cardinality(handed) < MaxHeld

\* error("Not enough memory"): prints, waits for a key and halts.
error ==
    /\ halted' = TRUE
    /\ UNCHANGED <<milo_memory_map, map_pages, lastpfn, temp_memory_ptr,
                   free_cache, live, handed>>

Hand(pfn, count, type) ==
    /\ milo_memory_map' = MarkMany(milo_memory_map, pfn, count, type)
    /\ handed' = handed \cup {[pfn |-> pfn, count |-> count]}
    /\ UNCHANGED <<map_pages, lastpfn, temp_memory_ptr, free_cache, halted, live>>

\* allocate_pfn(ALLOCATED_PAGE), for a page table.
AllocatePfn ==
    /\ CanHold
    /\ \/ \E pfn \in Pfns : /\ IsFirstFree(pfn, milo_memory_map, lastpfn)
                             /\ Hand(pfn, 1, ALLOCATED_PAGE)
       \/ /\ \A pfn \in 0 .. lastpfn : milo_memory_map[pfn] # FREE_PAGE
          /\ error

\* __get_free_pages: allocate_many_pfn(count, TEMPORARY_PAGE), for a driver.
GetFreePages(count) ==
    /\ CanHold
    /\ \/ \E pfn \in Pfns : /\ IsFirstFit(pfn, milo_memory_map, lastpfn, count)
                             /\ Hand(pfn, count, TEMPORARY_PAGE)
       \/ /\ Candidates(milo_memory_map, lastpfn, count) = {}
          /\ error

-----------------------------------------------------------------------------
(* kmalloc and free *)

\* size += 8 - (size & 7): a multiple of the word size gets a whole word more.
Rounded(size) == size + (WordSize - (size % WordSize)) + GuardBytes
HeaderSize == IF ReuseMemory THEN 2 * WordSize ELSE 0
Gross(size) == Rounded(size) + HeaderSize

\* Mutant: takes the block and leaves it on the list.
Unlink_Keeps(list, i) == list

\* search_cache: the first freed block that is large enough leaves the list.
IsCacheHit(i, size) ==
    /\ i \in 1 .. Len(free_cache)
    /\ free_cache[i].size >= size
    /\ \A j \in 1 .. (i - 1) : free_cache[j].size < size

Unlink(list, i) == [j \in 1 .. (Len(list) - 1) |-> IF j < i THEN list[j] ELSE list[j + 1]]

SearchCache(size) ==
    \E i \in 1 .. Len(free_cache) :
        /\ IsCacheHit(i, Rounded(size))
        /\ live' = live \cup {free_cache[i]}
        /\ free_cache' = Unlink(free_cache, i)
        /\ UNCHANGED <<milo_memory_map, map_pages, lastpfn, temp_memory_ptr,
                       halted, handed>>

\* Mutant: the pointer moves by the size asked for, not by the size used.
Carve_Short(start, size) ==
    /\ live' = live \cup {[at |-> start, end |-> Plus(start, Gross(size)),
                            size |-> Rounded(size)]}
    /\ temp_memory_ptr' = Plus(start, size)
    /\ UNCHANGED <<map_pages, lastpfn, free_cache, halted, handed>>

\* The block starts at `start`; the next one will start where it ends.
Carve(start, size) ==
    /\ live' = live \cup {[at |-> start, end |-> Plus(start, Gross(size)),
                            size |-> Rounded(size)]}
    /\ temp_memory_ptr' = Plus(start, Gross(size))
    /\ UNCHANGED <<map_pages, lastpfn, free_cache, halted, handed>>

\* Mutant: compares nothing, every block is taken to fit.
RoomInPage_Always(size) == temp_memory_ptr # NULL

\* top == bottom: the block ends inside the page the pointer is in.
RoomInPage(size) ==
    /\ temp_memory_ptr # NULL
    /\ Plus(temp_memory_ptr, Gross(size)).pfn = temp_memory_ptr.pfn

\* Pages the block may grow into: as many as its size needs, after this one.
\* The code does not compare them with lastpfn.
PagesAfter(size) == Extent(temp_memory_ptr.pfn + 1, PagesFor(Gross(size)))
RoomAfterPage(size) ==
    /\ temp_memory_ptr # NULL
    /\ ~RoomInPage(size)
    /\ AllFree(milo_memory_map, PagesAfter(size))

\* The model's map is long enough to hold what the code would look at.
Representable(size) ==
    temp_memory_ptr # NULL =>
        temp_memory_ptr.pfn + PagesFor(Gross(size)) < MapCap

CarveInPage(size) ==
    /\ RoomInPage(size)
    /\ Carve(temp_memory_ptr, size)
    /\ UNCHANGED milo_memory_map

CarveAcrossPages(size) ==
    /\ RoomAfterPage(size)
    /\ milo_memory_map' = MarkPages(milo_memory_map, PagesAfter(size), TEMPORARY_PAGE)
    /\ Carve(temp_memory_ptr, size)

\* No pointer yet, or no room: allocate_many_pfn, and start at the new pages.
CarveFresh(size) ==
    /\ ~RoomInPage(size) /\ ~RoomAfterPage(size)
    /\ \E pfn \in Pfns :
        /\ IsFirstFit(pfn, milo_memory_map, lastpfn, PagesFor(Gross(size)))
        /\ milo_memory_map' = MarkMany(milo_memory_map, pfn, PagesFor(Gross(size)),
                                       TEMPORARY_PAGE)
        /\ Carve([pfn |-> pfn, off |-> 0], size)

CarveNothing(size) ==
    /\ ~RoomInPage(size) /\ ~RoomAfterPage(size)
    /\ Candidates(milo_memory_map, lastpfn, PagesFor(Gross(size))) = {}
    /\ error

CacheMiss(size) ==
    ReuseMemory => \A i \in 1 .. Len(free_cache) : free_cache[i].size < Rounded(size)

Kmalloc(size) ==
    /\ CanHold
    /\ Representable(size)
    /\ \/ ReuseMemory /\ SearchCache(size)
       \/ CacheMiss(size) /\ CarveInPage(size)
       \/ CacheMiss(size) /\ CarveAcrossPages(size)
       \/ CacheMiss(size) /\ CarveFresh(size)
       \/ CacheMiss(size) /\ CarveNothing(size)

\* free(where): without REUSE_MEMORY the body is empty and the block is lost.
Free(b) ==
    /\ ~halted
    /\ live' = live \ {b}
    /\ free_cache' = IF ReuseMemory THEN <<b>> \o free_cache ELSE free_cache
    /\ UNCHANGED <<milo_memory_map, map_pages, lastpfn, temp_memory_ptr, halted, handed>>

-----------------------------------------------------------------------------
(* reset_mem: "the memory map stays where it is, but it's size changes". *)

ResetMem(top) ==
    /\ ~halted
    /\ milo_memory_map' =
          IF lastpfn < top - 1
          THEN MarkMany(milo_memory_map, lastpfn + 1, (top - 1) - lastpfn, FREE_PAGE)
          ELSE milo_memory_map
    /\ lastpfn' = top - 1
    /\ UNCHANGED <<map_pages, temp_memory_ptr, free_cache, halted, live, handed>>

Next ==
    \/ AllocatePfn
    \/ \E count \in PageCounts : GetFreePages(count)
    \/ \E size \in Sizes : Kmalloc(size)
    \/ \E b \in live : Free(b)
    \/ \E top \in ResetTops : ResetMem(top)

Spec == Init /\ [][Next]_vars

-----------------------------------------------------------------------------
(* Invariants *)

TypeOK ==
    /\ milo_memory_map \in Maps
    /\ map_pages \in Nat
    /\ lastpfn \in Pfns
    /\ temp_memory_ptr \in Addresses \cup {NULL}
    /\ free_cache \in Seq(Blocks)
    /\ halted \in BOOLEAN
    /\ live \subseteq Blocks
    /\ handed \subseteq Extents

Cached == {free_cache[i] : i \in 1 .. Len(free_cache)}
Held == live \cup Cached
ExtentPages(e) == Extent(e.pfn, e.count)

\* The pages init_mem sets aside: the fixed regions and the map itself.
Reserved == {0} \cup Loader \cup Stub \cup Kernel \cup Palcode \cup Extent(MapAt, map_pages)

(***************************************************************************)
(* Two blocks that kmalloc handed out and that were not freed share no     *)
(* byte, and neither does a block on the free list with any other: memory  *)
(* is in at most one place at a time.                                      *)
(***************************************************************************)
BlocksApart ==
    /\ \A b, c \in live : b # c => Apart(b, c)
    /\ \A b \in live, c \in Cached : Apart(b, c)
    /\ \A i, j \in 1 .. Len(free_cache) : i # j => Apart(free_cache[i], free_cache[j])

(***************************************************************************)
(* Every page in use, by a kmalloc block or by a caller of the page        *)
(* allocators, is marked in the map, so that no later search finds it.     *)
(***************************************************************************)
UsedPagesMarked ==
    /\ \A b \in Held : \A p \in BlockPages(b) : milo_memory_map[p] # FREE_PAGE
    /\ \A e \in handed : \A p \in ExtentPages(e) : milo_memory_map[p] # FREE_PAGE

(***************************************************************************)
(* A page has one owner: extents handed out by allocate_pfn and            *)
(* allocate_many_pfn share no page with each other, with kmalloc's blocks  *)
(* or with the regions init_mem reserved (HWRPB, PALcode, stub, loader,    *)
(* kernel and the pages first set aside for the map).                      *)
(***************************************************************************)
OneOwner ==
    /\ \A e, f \in handed : e # f => ExtentPages(e) \cap ExtentPages(f) = {}
    /\ \A e \in handed, b \in Held : ExtentPages(e) \cap BlockPages(b) = {}
    /\ \A e \in handed : ExtentPages(e) \cap Reserved = {}
    /\ \A b \in Held : BlockPages(b) \cap Reserved = {}

-----------------------------------------------------------------------------
(***************************************************************************)
(* What the allocator's safety rests on.  Without any one of these three   *)
(* conditions on the environment it fails (README): MEMORY_SIZE is only    *)
(* ever raised, to one value; the map's bytes above the last page do not   *)
(* read as free; and no block fills its pages exactly.                     *)
(***************************************************************************)
GrowOnly == \A t \in ResetTops : \A u \in InitTops \cup ResetTops : u <= t
JunkReserved == \A junk \in Junk : \A p \in Pfns : junk[p] # FREE_PAGE
NoExactFit == \A size \in Sizes : Gross(size) % PageSize # 0

\* kmalloc's pointer is in a page of its own, and behind it nothing is held.
PointerOwned ==
    temp_memory_ptr # NULL =>
        /\ temp_memory_ptr.pfn <= lastpfn
        /\ milo_memory_map[temp_memory_ptr.pfn] # FREE_PAGE
        /\ temp_memory_ptr.pfn \notin Reserved
        /\ \A e \in handed : temp_memory_ptr.pfn \notin ExtentPages(e)
        /\ \A b \in Held : \/ AtOrBelow(b.end, temp_memory_ptr)
                            \/ temp_memory_ptr.pfn < b.at.pfn

\* Nothing is held above lastpfn, and nothing there looks free.
TopRespected ==
    /\ lastpfn + 1 \in InitTops \cup ResetTops
    /\ \A p \in Pfns : p > lastpfn => milo_memory_map[p] # FREE_PAGE
    /\ \A b \in Held : \A p \in BlockPages(b) : p <= lastpfn
    /\ \A e \in handed : \A p \in ExtentPages(e) : p <= lastpfn

BlocksWellFormed == \A b \in Held : b.at.pfn \in BlockPages(b)

ReservedMarked == \A p \in Reserved : p \in 0 .. lastpfn /\ milo_memory_map[p] # FREE_PAGE

(***************************************************************************)
(* The inductive invariant of the allocator: blocks, extents and reserved  *)
(* pages are apart and marked, and the page kmalloc's pointer is in        *)
(* belongs to kmalloc, so that carving the next block from it, which looks *)
(* at no map entry, cannot take anybody else's page.                       *)
(***************************************************************************)
AllocatorInv ==
    /\ TypeOK
    /\ BlocksApart /\ UsedPagesMarked /\ OneOwner
    /\ PointerOwned /\ TopRespected /\ BlocksWellFormed /\ ReservedMarked

=============================================================================
