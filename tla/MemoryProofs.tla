---------------------------- MODULE MemoryProofs ----------------------------
(***************************************************************************)
(* Proofs about Memory and Handover.  First the allocator: type            *)
(* correctness for every configuration, and the safety of the allocator    *)
(* (AllocatorInv and what follows from it) under the three conditions      *)
(* GrowOnly, JunkReserved and NoExactFit.  Then the boot command on top of *)
(* it, under BootConditions: BootInv, and from it LinuxKeepsWhatItNeeds,   *)
(* TablesHitNothing and LoadsStayApart; with the sizes of CopyFits,        *)
(* CopyHitsNothing as well.                                                *)
(***************************************************************************)
EXTENDS Handover, FiniteSetTheorems, WellFoundedInduction, TLAPS

-----------------------------------------------------------------------------
(* Division by the page size.  PageSize is a parameter, so these facts are *)
(* not linear arithmetic and are proved once, here.                        *)

\* Quotient and remainder of an address by the page size are what they should.
LEMMA DivType ==
    ASSUME NEW P \in Nat \ {0}, NEW x \in Nat
    PROVE  x \div P \in Nat /\ x % P \in 0 .. (P - 1)
  BY SMT

\* An address is its page number times the page size plus its offset.
LEMMA DivEq ==
    ASSUME NEW P \in Nat \ {0}, NEW x \in Nat
    PROVE  x = P * (x \div P) + (x % P)
  BY SMT

\* A later page starts at least a page further.
LEMMA MulMono ==
    ASSUME NEW P \in Nat \ {0}, NEW a \in Nat, NEW b \in Nat, a < b
    PROVE  P * a + P <= P * b
  BY SMT

\* A higher address is not in a lower page.
LEMMA DivMono ==
    ASSUME NEW P \in Nat \ {0}, NEW x \in Nat, NEW y \in Nat, x <= y
    PROVE  x \div P <= y \div P
  <1>1. SUFFICES ASSUME y \div P < x \div P PROVE FALSE
    BY DivType
  <1> QED BY <1>1, DivEq, DivType, MulMono

\* In page 0 the offset is the address.
LEMMA DivZero ==
    ASSUME NEW P \in Nat \ {0}, NEW x \in Nat, x \div P = 0
    PROVE  x % P = x
  BY DivEq, DivType

\* The split of an address into page and offset is unique.
LEMMA DivUnique ==
    ASSUME NEW P \in Nat \ {0}, NEW y \in Nat, NEW a \in Nat, NEW b \in 0 .. (P - 1),
           y = P * a + b
    PROVE  y \div P = a
  <1> DEFINE q == y \div P
  <1> DEFINE r == y % P
  <1>1. q \in Nat /\ r \in 0 .. (P - 1) /\ y = P * q + r
    BY DivType, DivEq
  <1> HIDE DEF q, r
  <1>2. ~(q < a)
    BY <1>1, MulMono
  <1>3. ~(a < q)
    BY <1>1, MulMono
  <1>4. q = a
    BY <1>1, <1>2, <1>3
  <1> QED BY <1>4 DEF q

\* Rounding up a size that is no multiple of the page size adds one page.
LEMMA DivUp ==
    ASSUME NEW P \in Nat \ {0}, NEW x \in Nat, x % P # 0
    PROVE  (x + P - 1) \div P = x \div P + 1
  <1> DEFINE q == x \div P
  <1> DEFINE r == x % P
  <1>1. q \in Nat /\ r \in 0 .. (P - 1) /\ x = P * q + r /\ r # 0
    BY DivType, DivEq
  <1> HIDE DEF q, r
  <1>2. P * (q + 1) = P * q + P
    BY <1>1
  <1>3. /\ x + P - 1 = P * (q + 1) + (r - 1)
        /\ r - 1 \in 0 .. (P - 1)
        /\ x + P - 1 \in Nat
    BY <1>1, <1>2
  <1>4. (x + P - 1) \div P = q + 1
    BY <1>1, <1>3, DivUnique
  <1> QED BY <1>4 DEF q

-----------------------------------------------------------------------------
(* Addresses and sizes *)

\* A number of bytes takes a number of pages.
LEMMA PagesForType ==
    ASSUME NEW n \in Nat
    PROVE  PagesFor(n) \in Nat
  <1>1. n + PageSize - 1 \in Nat
    BY SizeAssumption
  <1> QED BY <1>1, SizeAssumption, DivType DEF PagesFor

\* kmalloc never asks for nothing: what it uses is a positive number of bytes.
LEMMA GrossType ==
    ASSUME NEW size \in Nat
    PROVE  /\ Rounded(size) \in Nat /\ Gross(size) \in Nat \ {0}
           /\ PagesFor(Gross(size)) \in Nat
  <1>1. size % WordSize \in 0 .. (WordSize - 1)
    BY SizeAssumption, DivType
  <1>2. HeaderSize \in Nat
    BY SizeAssumption DEF HeaderSize
  <1>3. Rounded(size) \in Nat \ {0}
    BY <1>1, SizeAssumption DEF Rounded
  <1>4. Gross(size) \in Nat \ {0}
    BY <1>2, <1>3 DEF Gross
  <1>5. PagesFor(Gross(size)) \in Nat
    BY <1>4, PagesForType
  <1> QED BY <1>3, <1>4, <1>5

\* Moving an address forward gives an address.
LEMMA PlusType ==
    ASSUME NEW a \in Addresses, NEW n \in Nat
    PROVE  Plus(a, n) \in Addresses
  <1>1. a.off + n \in Nat
    BY SizeAssumption DEF Addresses
  <1>2. (a.off + n) \div PageSize \in Nat /\ (a.off + n) % PageSize \in 0 .. (PageSize - 1)
    BY <1>1, SizeAssumption, DivType
  <1> QED BY <1>2 DEF Plus, Addresses

\* Marking pages with a page type keeps a map a map.
LEMMA MarkType ==
    ASSUME NEW map \in Maps, NEW pages, NEW type \in PageTypes
    PROVE  MarkPages(map, pages, type) \in Maps
  BY DEF Maps, MarkPages

\* The map init_mem builds is a map.
LEMMA InitialMapType ==
    ASSUME NEW junk \in Maps, NEW top
    PROVE  InitialMap(junk, top) \in Maps
  <1> DEFINE allFree == [p \in Pfns |-> IF p < top THEN FREE_PAGE ELSE junk[p]]
  <1>1. allFree \in Maps
    BY DEF Maps, PageTypes
  <1>2. {FREE_PAGE, ALLOCATED_PAGE, TEMPORARY_PAGE} = PageTypes
    BY DEF PageTypes
  <1> HIDE DEF allFree
  <1> QED BY <1>1, <1>2, MarkType DEF InitialMap, MarkMany, allFree

-----------------------------------------------------------------------------
(* Type correctness *)

\* A first fit or a first free page is a page below the end of memory.
LEMMA FitType ==
    ASSUME TypeOK
    PROVE  /\ \A pfn, count : IsFirstFit(pfn, milo_memory_map, lastpfn, count) => pfn \in 0 .. lastpfn
           /\ \A pfn : IsFirstFree(pfn, milo_memory_map, lastpfn) => pfn \in 0 .. lastpfn
  BY DEF IsFirstFit, Candidates, IsFirstFree

\* The free list loses one element and keeps the others.
LEMMA UnlinkType ==
    ASSUME NEW S, NEW list \in Seq(S), NEW i \in 1 .. Len(list)
    PROVE  /\ Unlink(list, i) \in Seq(S)
           /\ Len(Unlink(list, i)) = Len(list) - 1
           /\ \A j \in 1 .. (Len(list) - 1) :
                Unlink(list, i)[j] = IF j < i THEN list[j] ELSE list[j + 1]
  <1>1. Len(list) - 1 \in Nat
    OBVIOUS
  <1>2. \A j \in 1 .. (Len(list) - 1) : (IF j < i THEN list[j] ELSE list[j + 1]) \in S
    OBVIOUS
  <1>3. Unlink(list, i) \in [1 .. (Len(list) - 1) -> S]
    BY <1>2 DEF Unlink
  <1>4. Unlink(list, i) \in Seq(S) /\ Len(Unlink(list, i)) = Len(list) - 1
    BY <1>1, <1>3
  <1> QED BY <1>4 DEF Unlink

\* A block carved at an address is a block, and the pointer stays an address.
LEMMA CarveType ==
    ASSUME TypeOK, NEW size \in Nat, NEW start \in Addresses, Carve(start, size)
    PROVE  live' \subseteq Blocks /\ temp_memory_ptr' \in Addresses
  <1>1. Plus(start, Gross(size)) \in Addresses
    BY PlusType, GrossType
  <1>2. Rounded(size) \in Nat
    BY GrossType
  <1> QED BY <1>1, <1>2 DEF Carve, TypeOK, Blocks

\* init_mem establishes the types.
LEMMA InitTypeOK == Init => TypeOK
  <1> SUFFICES ASSUME Init PROVE TypeOK
    OBVIOUS
  <1>1. PICK top \in InitTops : init_mem(top)
    BY DEF Init
  <1>2. top \in Nat \ {0} /\ lastpfn \in Pfns
    BY <1>1, LayoutAssumption, MapAssumption DEF init_mem, Pfns
  <1>3. map_pages \in Nat
    BY <1>1, <1>2, PagesForType DEF init_mem
  <1>4. milo_memory_map \in Maps
    BY <1>1, InitialMapType, LayoutAssumption DEF init_mem
  <1>5. free_cache \in Seq(Blocks)
    BY DEF Init
  <1>6. halted \in BOOLEAN /\ temp_memory_ptr \in Addresses \cup {NULL}
    BY DEF Init
  <1> QED BY <1>2, <1>3, <1>4, <1>5, <1>6 DEF Init, TypeOK

\* kmalloc keeps the types.
LEMMA KmallocTypes ==
    ASSUME TypeOK, NEW size \in Nat, Kmalloc(size)
    PROVE  TypeOK'
  <1> USE DEF TypeOK
  <1>1. CASE SearchCache(size)
    <2>1. PICK i \in 1 .. Len(free_cache) :
              /\ live' = live \cup {free_cache[i]}
              /\ free_cache' = Unlink(free_cache, i)
      BY <1>1 DEF SearchCache
    <2>2. free_cache[i] \in Blocks /\ free_cache' \in Seq(Blocks)
      BY <2>1, UnlinkType
    <2> QED BY <1>1, <2>1, <2>2 DEF SearchCache
  <1>2. CASE CarveInPage(size)
    <2>1. temp_memory_ptr \in Addresses
      BY <1>2 DEF CarveInPage, RoomInPage
    <2> QED BY <1>2, <2>1, CarveType DEF CarveInPage, Carve
  <1>3. CASE CarveAcrossPages(size)
    <2>1. temp_memory_ptr \in Addresses
      BY <1>3 DEF CarveAcrossPages, RoomAfterPage
    <2>2. milo_memory_map' \in Maps
      BY <1>3, MarkType DEF CarveAcrossPages, PageTypes
    <2> QED BY <1>3, <2>1, <2>2, CarveType DEF CarveAcrossPages, Carve
  <1>4. CASE CarveFresh(size)
    <2>1. PICK pfn \in Pfns :
              /\ milo_memory_map' = MarkMany(milo_memory_map, pfn, PagesFor(Gross(size)),
                                             TEMPORARY_PAGE)
              /\ Carve([pfn |-> pfn, off |-> 0], size)
      BY <1>4 DEF CarveFresh
    <2>2. [pfn |-> pfn, off |-> 0] \in Addresses
      BY SizeAssumption DEF Addresses, Pfns
    <2>3. milo_memory_map' \in Maps
      BY <2>1, MarkType DEF MarkMany, PageTypes
    <2> QED BY <2>1, <2>2, <2>3, CarveType DEF Carve
  <1>5. CASE CarveNothing(size)
    BY <1>5 DEF CarveNothing, error
  <1> QED BY <1>1, <1>2, <1>3, <1>4, <1>5 DEF Kmalloc

\* Every operation of the allocator keeps the types.
LEMMA NextTypeOK == TypeOK /\ [Next]_vars => TypeOK'
  <1> SUFFICES ASSUME TypeOK, [Next]_vars PROVE TypeOK'
    OBVIOUS
  <1> USE DEF TypeOK
  <1>1. ASSUME error PROVE TypeOK'
    BY <1>1 DEF error
  <1>2. ASSUME NEW pfn \in 0 .. lastpfn, NEW count \in Nat, NEW type \in PageTypes,
               Hand(pfn, count, type)
        PROVE  TypeOK'
    BY <1>2, MarkType DEF Hand, MarkMany, Extents, Pfns
  <1>3. CASE AllocatePfn
    BY <1>1, <1>2, <1>3, FitType DEF AllocatePfn, PageTypes
  <1>4. ASSUME NEW count \in PageCounts, GetFreePages(count) PROVE TypeOK'
    BY <1>1, <1>2, <1>4, FitType, SizeAssumption DEF GetFreePages, PageTypes
  <1>5. ASSUME NEW size \in Sizes, Kmalloc(size) PROVE TypeOK'
    BY <1>5, KmallocTypes, SizeAssumption
  <1>6. ASSUME NEW b \in live, Free(b) PROVE TypeOK'
    <2>1. b \in Blocks /\ <<b>> \o free_cache \in Seq(Blocks)
      OBVIOUS
    <2> QED BY <1>6, <2>1 DEF Free
  <1>7. ASSUME NEW top \in ResetTops, ResetMem(top) PROVE TypeOK'
    <2>1. milo_memory_map' \in Maps
      BY <1>7, MarkType DEF ResetMem, MarkMany, PageTypes
    <2>2. lastpfn' \in Pfns
      BY <1>7, LayoutAssumption, MapAssumption DEF ResetMem, Pfns
    <2> QED BY <1>7, <2>1, <2>2 DEF ResetMem
  <1>8. CASE UNCHANGED vars
    BY <1>8 DEF vars
  <1> QED BY <1>3, <1>4, <1>5, <1>6, <1>7, <1>8 DEF Next

(***************************************************************************)
(* Type correctness of the allocator's state, for every page size, memory  *)
(* layout, request and configuration: no operation leaves a pointer that   *)
(* is not an address, a page map with a foreign value or a lastpfn outside *)
(* the map.                                                                *)
(***************************************************************************)
THEOREM TypeCorrect == Spec => []TypeOK
  BY InitTypeOK, NextTypeOK, PTL DEF Spec

-----------------------------------------------------------------------------
(* Where a carved block lies *)

\* A block that ends in the page it starts in lies in that page only.
LEMMA SpanInPage ==
    ASSUME NEW a \in Addresses, NEW n \in Nat \ {0}, Plus(a, n).pfn = a.pfn
    PROVE  /\ PagesSpanned(a, Plus(a, n)) = {a.pfn}
           /\ AtOrBelow(a, Plus(a, n))
  <1>1. a.off + n \in Nat /\ a.pfn \in Nat /\ a.off \in 0 .. (PageSize - 1)
    BY SizeAssumption DEF Addresses
  <1>2. (a.off + n) \div PageSize = 0
    <2>1. Plus(a, n).pfn = a.pfn + (a.off + n) \div PageSize
      BY DEF Plus
    <2>2. (a.off + n) \div PageSize \in Nat
      BY <1>1, SizeAssumption, DivType
    <2> QED BY <1>1, <2>1, <2>2
  <1>3. Plus(a, n).off = a.off + n
    BY <1>1, <1>2, SizeAssumption, DivZero DEF Plus
  <1> QED BY <1>1, <1>3 DEF PagesSpanned, AtOrBelow

\* A block that crosses into the next pages ends within as many pages after
\* the first as its size needs.
LEMMA SpanAcross ==
    ASSUME NEW a \in Addresses, NEW n \in Nat \ {0}, Plus(a, n).pfn # a.pfn
    PROVE  /\ Plus(a, n).pfn \in (a.pfn + 1) .. (a.pfn + PagesFor(n))
           /\ PagesSpanned(a, Plus(a, n)) \subseteq a.pfn .. (a.pfn + PagesFor(n))
           /\ a.pfn \in PagesSpanned(a, Plus(a, n))
           /\ AtOrBelow(a, Plus(a, n))
  <1>1. /\ a.off + n \in Nat /\ n + PageSize - 1 \in Nat
        /\ a.pfn \in Nat /\ a.off \in 0 .. (PageSize - 1)
        /\ a.off + n <= n + PageSize - 1
    BY SizeAssumption DEF Addresses
  <1>2. (a.off + n) \div PageSize <= PagesFor(n)
    BY <1>1, SizeAssumption, DivMono DEF PagesFor
  <1>3. (a.off + n) \div PageSize \in Nat /\ PagesFor(n) \in Nat
    BY <1>1, SizeAssumption, DivType, PagesForType
  <1>4. Plus(a, n).pfn \in (a.pfn + 1) .. (a.pfn + PagesFor(n))
    BY <1>1, <1>2, <1>3 DEF Plus
  <1>5. Plus(a, n).off \in 0 .. (PageSize - 1)
    BY PlusType DEF Addresses
  <1> QED BY <1>1, <1>3, <1>4, <1>5 DEF PagesSpanned, AtOrBelow

\* A block at the start of fresh pages that does not fill them exactly ends
\* inside them, so kmalloc's pointer stays in pages it was given.
LEMMA SpanFresh ==
    ASSUME NEW pfn \in Nat, NEW n \in Nat \ {0}, n % PageSize # 0
    PROVE  LET a == [pfn |-> pfn, off |-> 0]
           IN  /\ Plus(a, n).pfn \in Extent(pfn, PagesFor(n))
               /\ PagesSpanned(a, Plus(a, n)) \subseteq Extent(pfn, PagesFor(n))
               /\ pfn \in PagesSpanned(a, Plus(a, n))
               /\ AtOrBelow(a, Plus(a, n))
  <1> DEFINE a == [pfn |-> pfn, off |-> 0]
  <1>1. n \div PageSize \in Nat /\ n % PageSize \in 0 .. (PageSize - 1)
    BY SizeAssumption, DivType
  <1>2. PagesFor(n) = n \div PageSize + 1
    BY SizeAssumption, DivUp DEF PagesFor
  <1>3. Plus(a, n).pfn = pfn + n \div PageSize /\ Plus(a, n).off = n % PageSize
    BY DEF Plus
  <1> QED BY <1>1, <1>2, <1>3 DEF Extent, PagesSpanned, AtOrBelow

-----------------------------------------------------------------------------
(* The allocator's invariant *)

\* The blocks on the free list are blocks.
LEMMA HeldType == TypeOK => Held \subseteq Blocks /\ Cached \subseteq Blocks
  BY DEF TypeOK, Held, Cached

\* An extent of free pages is nobody's.
LEMMA FreePagesUnowned ==
    ASSUME AllocatorInv, NEW S \in SUBSET (0 .. lastpfn), AllFree(milo_memory_map, S)
    PROVE  /\ S \cap Reserved = {}
           /\ \A e \in handed : S \cap ExtentPages(e) = {}
           /\ \A b \in Held : S \cap BlockPages(b) = {}
           /\ temp_memory_ptr # NULL => temp_memory_ptr.pfn \notin S
  BY DEF AllocatorInv, AllFree, UsedPagesMarked, PointerOwned, ReservedMarked

\* Marking free pages as used frees nothing that was in use.
LEMMA MarkKeepsUsed ==
    ASSUME NEW map \in Maps, NEW S, NEW type \in PageTypes \ {FREE_PAGE}
    PROVE  \A p \in Pfns : /\ map[p] # FREE_PAGE => MarkPages(map, S, type)[p] # FREE_PAGE
                           /\ p \in S => MarkPages(map, S, type)[p] # FREE_PAGE
  BY DEF MarkPages, Maps

\* allocate_pfn and allocate_many_pfn: pages that were free get an owner.
LEMMA HandInv ==
    ASSUME AllocatorInv, NEW pfn \in 0 .. lastpfn, NEW count \in Nat \ {0},
           NEW type \in PageTypes \ {FREE_PAGE},
           Extent(pfn, count) \subseteq 0 .. lastpfn,
           AllFree(milo_memory_map, Extent(pfn, count)),
           TypeOK', Hand(pfn, count, type)
    PROVE  AllocatorInv'
  <1> DEFINE S == Extent(pfn, count)
  <1> DEFINE new == [pfn |-> pfn, count |-> count]
  <1>1. TypeOK
    BY DEF AllocatorInv
  <1>2. /\ handed' = handed \cup {new} /\ ExtentPages(new) = S
        /\ Held' = Held /\ Reserved' = Reserved
        /\ UNCHANGED <<map_pages, lastpfn, temp_memory_ptr, free_cache, live>>
    BY DEF Hand, ExtentPages, Held, Cached, Reserved, MapAt
  <1>3. /\ S \cap Reserved = {} /\ \A e \in handed : S \cap ExtentPages(e) = {}
        /\ \A b \in Held : S \cap BlockPages(b) = {}
        /\ temp_memory_ptr # NULL => temp_memory_ptr.pfn \notin S
    BY FreePagesUnowned
  <1>4. \A p \in Pfns : /\ milo_memory_map[p] # FREE_PAGE => milo_memory_map'[p] # FREE_PAGE
                        /\ p \in S => milo_memory_map'[p] # FREE_PAGE
    BY <1>1, MarkKeepsUsed DEF Hand, MarkMany, TypeOK
  <1>5. \A p \in 0 .. lastpfn : p \in Pfns
    BY <1>1, MapAssumption DEF TypeOK, Pfns
  <1> HIDE DEF S, new
  <1>6. BlocksApart'
    BY <1>2 DEF AllocatorInv, BlocksApart, Cached, Held
  <1>7. UsedPagesMarked'
    <2>1. \A b \in Held : \A p \in BlockPages(b) : p \in Pfns /\ milo_memory_map[p] # FREE_PAGE
      BY <1>1, <1>5, HeldType DEF AllocatorInv, UsedPagesMarked, TopRespected, BlockPages, PagesSpanned,
                                  Blocks, Addresses
    <2>2. \A e \in handed : \A p \in ExtentPages(e) : p \in Pfns /\ milo_memory_map[p] # FREE_PAGE
      BY <1>1, <1>5 DEF AllocatorInv, UsedPagesMarked, TopRespected, ExtentPages, Extent, TypeOK, Extents
    <2>3. \A p \in S : p \in Pfns
      BY <1>5 DEF S
    <2> QED BY <1>2, <1>4, <2>1, <2>2, <2>3 DEF UsedPagesMarked
  <1>8. OneOwner'
    BY <1>2, <1>3 DEF AllocatorInv, OneOwner
  <1>9. PointerOwned'
    <2>1. temp_memory_ptr # NULL => temp_memory_ptr.pfn \in Pfns
      BY <1>1, <1>5 DEF AllocatorInv, PointerOwned, TypeOK, Addresses
    <2> QED BY <1>2, <1>3, <1>4, <2>1 DEF AllocatorInv, PointerOwned
  <1>10. TopRespected'
    BY <1>2, <1>4 DEF AllocatorInv, TopRespected, S
  <1>11. BlocksWellFormed'
    BY <1>2 DEF AllocatorInv, BlocksWellFormed
  <1>12. ReservedMarked'
    BY <1>2, <1>4, <1>5 DEF AllocatorInv, ReservedMarked
  <1> QED BY <1>6, <1>7, <1>8, <1>9, <1>10, <1>11, <1>12 DEF AllocatorInv

\* kmalloc: a block carved from pages that were free and from the page the
\* pointer is in keeps everything apart.
LEMMA CarveInv ==
    ASSUME AllocatorInv, NEW size \in Nat, NEW start \in Addresses,
           Carve(start, size), TypeOK',
           NEW S \in SUBSET (0 .. lastpfn), AllFree(milo_memory_map, S),
           milo_memory_map' = MarkPages(milo_memory_map, S, TEMPORARY_PAGE),
           NEW end, end = Plus(start, Gross(size)),
           \A p \in PagesSpanned(start, end) \cup {end.pfn} :
                p \in S \/ (temp_memory_ptr # NULL /\ p = temp_memory_ptr.pfn),
           start.pfn \in PagesSpanned(start, end),
           \A b \in Held : AtOrBelow(b.end, start) \/ end.pfn < b.at.pfn,
           AtOrBelow(start, end)
    PROVE  AllocatorInv'
  <1> DEFINE new == [at |-> start, end |-> end, size |-> Rounded(size)]
  <1> DEFINE ptr == temp_memory_ptr
  <1>1. TypeOK /\ end \in Addresses
    BY PlusType, GrossType DEF AllocatorInv
  <1>2. /\ live' = live \cup {new} /\ temp_memory_ptr' = end
        /\ Held' = Held \cup {new} /\ Cached' = Cached /\ Reserved' = Reserved
        /\ UNCHANGED <<map_pages, lastpfn, free_cache, handed>>
    BY DEF Carve, Held, Cached, Reserved, MapAt
  <1>3. BlockPages(new) = PagesSpanned(start, end) /\ new.at = start /\ new.end = end
    BY DEF BlockPages
  <1>4. /\ S \cap Reserved = {} /\ \A e \in handed : S \cap ExtentPages(e) = {}
    BY FreePagesUnowned
  <1>5. \A p \in Pfns : /\ milo_memory_map[p] # FREE_PAGE => milo_memory_map'[p] # FREE_PAGE
                        /\ p \in S => milo_memory_map'[p] # FREE_PAGE
    BY <1>1, MarkKeepsUsed DEF TypeOK, PageTypes, FREE_PAGE, TEMPORARY_PAGE
  <1>6. \A p \in 0 .. lastpfn : p \in Pfns
    BY <1>1, MapAssumption DEF TypeOK, Pfns
  <1>7. \A p \in BlockPages(new) \cup {end.pfn} :
            /\ p \in 0 .. lastpfn /\ milo_memory_map'[p] # FREE_PAGE
            /\ p \notin Reserved /\ \A e \in handed : p \notin ExtentPages(e)
    <2> SUFFICES ASSUME NEW p \in BlockPages(new) \cup {end.pfn}
                 PROVE  /\ p \in 0 .. lastpfn /\ milo_memory_map'[p] # FREE_PAGE
                        /\ p \notin Reserved /\ \A e \in handed : p \notin ExtentPages(e)
      OBVIOUS
    <2>1. p \in S \/ (ptr # NULL /\ p = ptr.pfn)
      BY <1>3
    <2>2. CASE p \in S
      BY <2>2, <1>4, <1>5, <1>6
    <2>3. CASE ptr # NULL /\ p = ptr.pfn
      <3>1. p \in 0 .. lastpfn
        BY <2>3, <1>1 DEF AllocatorInv, PointerOwned, TypeOK, Addresses
      <3> QED BY <2>3, <3>1, <1>5, <1>6 DEF AllocatorInv, PointerOwned
    <2> QED BY <2>1, <2>2, <2>3
  <1>8. \A b \in Held : Apart(b, new) /\ Apart(new, b)
    <2> SUFFICES ASSUME NEW b \in Held PROVE Apart(b, new) /\ Apart(new, b)
      OBVIOUS
    <2>1. b \in Blocks
      BY <1>1, HeldType
    <2> QED BY <2>1, <1>1, <1>3 DEF Apart, AtOrBelow, Blocks, Addresses
  <1>9. \A b \in Held : AtOrBelow(b.end, end) \/ end.pfn < b.at.pfn
    <2> SUFFICES ASSUME NEW b \in Held PROVE AtOrBelow(b.end, end) \/ end.pfn < b.at.pfn
      OBVIOUS
    <2>1. b.end \in Addresses
      BY <1>1, HeldType DEF Blocks
    <2> QED BY <2>1, <1>1 DEF AtOrBelow, Addresses
  <1>10. AtOrBelow(end, end)
    BY <1>1 DEF AtOrBelow, Addresses
  <1>11. \A b \in Held : \A p \in BlockPages(b) :
            p \in Pfns /\ milo_memory_map[p] # FREE_PAGE /\ p <= lastpfn
    BY <1>1, <1>6, HeldType DEF AllocatorInv, UsedPagesMarked, TopRespected, BlockPages, PagesSpanned,
                                Blocks, Addresses
  <1>12. \A e \in handed : \A p \in ExtentPages(e) : p \in Pfns /\ milo_memory_map[p] # FREE_PAGE
    BY <1>1, <1>6 DEF AllocatorInv, UsedPagesMarked, TopRespected, ExtentPages, Extent, TypeOK, Extents
  <1> HIDE DEF new, ptr
  <1>13. BlocksApart'
    <2>1. \A b \in live, c \in Cached : b \in Held /\ c \in Held
      BY DEF Held
    <2> QED BY <1>2, <1>8, <2>1 DEF AllocatorInv, BlocksApart, Held
  <1>14. UsedPagesMarked'
    BY <1>2, <1>5, <1>7, <1>11, <1>12 DEF UsedPagesMarked
  <1>15. OneOwner'
    BY <1>2, <1>7 DEF AllocatorInv, OneOwner
  <1>16. PointerOwned'
    BY <1>2, <1>3, <1>7, <1>9, <1>10 DEF PointerOwned
  <1>17. TopRespected'
    BY <1>2, <1>5, <1>7, <1>11 DEF AllocatorInv, TopRespected
  <1>18. BlocksWellFormed'
    BY <1>2, <1>3 DEF AllocatorInv, BlocksWellFormed
  <1>19. ReservedMarked'
    BY <1>2, <1>5, <1>6 DEF AllocatorInv, ReservedMarked
  <1> QED BY <1>13, <1>14, <1>15, <1>16, <1>17, <1>18, <1>19 DEF AllocatorInv

\* Free pages and held blocks: a held block lies wholly before or wholly
\* after an interval of free pages.
LEMMA FreeIntervalBetween ==
    ASSUME AllocatorInv, NEW lo \in Nat, NEW hi \in Nat, lo <= hi,
           lo .. hi \subseteq 0 .. lastpfn, AllFree(milo_memory_map, lo .. hi), NEW b \in Held
    PROVE  (b.end.pfn < lo \/ (b.end.pfn = lo /\ b.end.off = 0)) \/ hi < b.at.pfn
  <1>1. b \in Blocks
    BY HeldType DEF AllocatorInv
  <1>2. (lo .. hi) \cap BlockPages(b) = {}
    BY FreePagesUnowned
  <1>3. b.at.pfn \in BlockPages(b)
    BY DEF AllocatorInv, BlocksWellFormed
  <1> DEFINE last == IF b.end.off = 0 THEN b.end.pfn - 1 ELSE b.end.pfn
  <1>4. b.at.pfn \in Nat /\ b.end.pfn \in Nat /\ b.end.off \in Nat /\ last \in Int
    BY <1>1 DEF Blocks, Addresses
  <1>5. BlockPages(b) = b.at.pfn .. last
    BY DEF BlockPages, PagesSpanned
  <1> HIDE DEF last
  <1>6. b.at.pfn <= last
    BY <1>3, <1>4, <1>5
  <1>7. last < lo \/ hi < b.at.pfn
    <2> SUFFICES ASSUME ~(last < lo), ~(hi < b.at.pfn) PROVE FALSE
      OBVIOUS
    <2>1. CASE b.at.pfn <= lo
      <3>1. lo \in lo .. hi /\ lo \in BlockPages(b)
        BY <2>1, <1>4, <1>5
      <3> QED BY <3>1, <1>2
    <2>2. CASE lo < b.at.pfn
      <3>1. b.at.pfn \in lo .. hi
        BY <2>2, <1>4
      <3> QED BY <3>1, <1>2, <1>3
    <2> QED BY <1>4, <2>1, <2>2
  <1> QED BY <1>4, <1>7 DEF last

\* kmalloc, when the block fits in the page the pointer is in.
LEMMA CarveInPageInv ==
    ASSUME AllocatorInv, NEW size \in Nat, CarveInPage(size), TypeOK'
    PROVE  AllocatorInv'
  <1> DEFINE ptr == temp_memory_ptr
  <1> DEFINE end == Plus(ptr, Gross(size))
  <1>1. TypeOK /\ ptr # NULL /\ ptr \in Addresses /\ end.pfn = ptr.pfn /\ Carve(ptr, size)
    BY DEF AllocatorInv, CarveInPage, RoomInPage, TypeOK
  <1>2. PagesSpanned(ptr, end) = {ptr.pfn} /\ AtOrBelow(ptr, end)
    BY <1>1, SpanInPage, GrossType
  <1>3. milo_memory_map' = MarkPages(milo_memory_map, {}, TEMPORARY_PAGE)
    BY <1>1 DEF CarveInPage, MarkPages, TypeOK, Maps
  <1>4. \A b \in Held : AtOrBelow(b.end, ptr) \/ end.pfn < b.at.pfn
    BY <1>1 DEF AllocatorInv, PointerOwned
  <1>5. AllFree(milo_memory_map, {}) /\ {} \in SUBSET (0 .. lastpfn)
    BY DEF AllFree
  <1>6. /\ \A p \in PagesSpanned(ptr, end) \cup {end.pfn} :
                p \in {} \/ (ptr # NULL /\ p = ptr.pfn)
        /\ ptr.pfn \in PagesSpanned(ptr, end)
    BY <1>1, <1>2
  <1> HIDE DEF ptr, end
  <1> QED BY <1>1, <1>2, <1>3, <1>4, <1>5, <1>6, CarveInv DEF ptr, end

\* kmalloc, when the block grows into the free pages that follow.
LEMMA CarveAcrossPagesInv ==
    ASSUME AllocatorInv, NEW size \in Nat, Representable(size), CarveAcrossPages(size), TypeOK'
    PROVE  AllocatorInv'
  <1> DEFINE ptr == temp_memory_ptr
  <1> DEFINE end == Plus(ptr, Gross(size))
  <1> DEFINE n == PagesFor(Gross(size))
  <1> DEFINE S == PagesAfter(size)
  <1>1. /\ TypeOK /\ ptr # NULL /\ ptr \in Addresses /\ ptr.pfn \in Nat /\ end.pfn # ptr.pfn
        /\ Carve(ptr, size) /\ AllFree(milo_memory_map, S) /\ n \in Nat
        /\ milo_memory_map' = MarkPages(milo_memory_map, S, TEMPORARY_PAGE)
    BY GrossType DEF AllocatorInv, CarveAcrossPages, RoomAfterPage, RoomInPage, TypeOK, Addresses
  <1>2. S = (ptr.pfn + 1) .. (ptr.pfn + n)
    BY <1>1 DEF PagesAfter, Extent
  <1>3. /\ end.pfn \in S /\ PagesSpanned(ptr, end) \subseteq S \cup {ptr.pfn}
        /\ ptr.pfn \in PagesSpanned(ptr, end) /\ AtOrBelow(ptr, end)
    <2>1. /\ end.pfn \in (ptr.pfn + 1) .. (ptr.pfn + n)
          /\ PagesSpanned(ptr, end) \subseteq ptr.pfn .. (ptr.pfn + n)
          /\ ptr.pfn \in PagesSpanned(ptr, end) /\ AtOrBelow(ptr, end)
      BY <1>1, SpanAcross, GrossType
    <2> QED BY <1>1, <1>2, <2>1
  <1>4. S \in SUBSET (0 .. lastpfn)
    <2>1. \A p \in S : p \in Pfns /\ milo_memory_map[p] = FREE_PAGE
      BY <1>1, <1>2, MapAssumption DEF Representable, AllFree, Pfns
    <2> QED BY <2>1, <1>1 DEF AllocatorInv, TopRespected, TypeOK, Pfns
  <1>5. \A b \in Held : AtOrBelow(b.end, ptr) \/ end.pfn < b.at.pfn
    <2> SUFFICES ASSUME NEW b \in Held, ~AtOrBelow(b.end, ptr) PROVE end.pfn < b.at.pfn
      OBVIOUS
    <2>1. ptr.pfn < b.at.pfn /\ b \in Blocks
      BY <1>1, HeldType DEF AllocatorInv, PointerOwned
    <2>2. b.at.pfn \in BlockPages(b) /\ S \cap BlockPages(b) = {}
      BY <1>1, <1>4, FreePagesUnowned DEF AllocatorInv, BlocksWellFormed
    <2> QED BY <1>1, <1>2, <1>3, <2>1, <2>2 DEF Blocks, Addresses
  <1>6. \A p \in PagesSpanned(ptr, end) \cup {end.pfn} : p \in S \/ (ptr # NULL /\ p = ptr.pfn)
    BY <1>1, <1>3
  <1> HIDE DEF ptr, end, n, S
  <1> QED BY <1>1, <1>3, <1>4, <1>5, <1>6, CarveInv DEF ptr, end

\* kmalloc, when it takes fresh pages: here a block must not fill them.
LEMMA CarveFreshInv ==
    ASSUME AllocatorInv, NEW size \in Nat, Gross(size) % PageSize # 0, CarveFresh(size), TypeOK'
    PROVE  AllocatorInv'
  <1> DEFINE n == PagesFor(Gross(size))
  <1>1. PICK pfn \in Pfns :
            /\ IsFirstFit(pfn, milo_memory_map, lastpfn, n)
            /\ milo_memory_map' = MarkMany(milo_memory_map, pfn, n, TEMPORARY_PAGE)
            /\ Carve([pfn |-> pfn, off |-> 0], size)
    BY DEF CarveFresh
  <1> DEFINE start == [pfn |-> pfn, off |-> 0]
  <1> DEFINE end == Plus(start, Gross(size))
  <1> DEFINE S == Extent(pfn, n)
  <1>2. TypeOK /\ start \in Addresses /\ pfn \in Nat /\ n \in Nat
    BY SizeAssumption, GrossType DEF AllocatorInv, Addresses, Pfns
  <1>3. /\ end.pfn \in S /\ PagesSpanned(start, end) \subseteq S
        /\ pfn \in PagesSpanned(start, end) /\ AtOrBelow(start, end)
    BY <1>2, SpanFresh, GrossType
  <1>4. S \in SUBSET (0 .. lastpfn) /\ AllFree(milo_memory_map, S)
    BY <1>1, <1>2 DEF IsFirstFit, Candidates, Fits, Extent, TypeOK, Pfns
  <1>5. \A b \in Held : AtOrBelow(b.end, start) \/ end.pfn < b.at.pfn
    <2> SUFFICES ASSUME NEW b \in Held PROVE AtOrBelow(b.end, start) \/ end.pfn < b.at.pfn
      OBVIOUS
    <2>1. b \in Blocks
      BY <1>2, HeldType
    <2>2. S = pfn .. (pfn + n - 1) /\ pfn + n - 1 \in Nat /\ pfn <= pfn + n - 1
      BY <1>2, <1>3 DEF Extent
    <2>3. (b.end.pfn < pfn \/ (b.end.pfn = pfn /\ b.end.off = 0)) \/ pfn + n - 1 < b.at.pfn
      BY <1>2, <1>4, <2>2, FreeIntervalBetween
    <2> QED BY <1>2, <1>3, <2>1, <2>2, <2>3 DEF AtOrBelow, Blocks, Addresses
  <1>6. /\ milo_memory_map' = MarkPages(milo_memory_map, S, TEMPORARY_PAGE)
        /\ start.pfn = pfn
    BY <1>1 DEF MarkMany
  <1>7. /\ \A p \in PagesSpanned(start, end) \cup {end.pfn} :
                p \in S \/ (temp_memory_ptr # NULL /\ p = temp_memory_ptr.pfn)
        /\ start.pfn \in PagesSpanned(start, end)
    BY <1>3, <1>6
  <1>8. Carve(start, size)
    BY <1>1
  <1> HIDE DEF n, start, end, S
  <1> QED BY <1>2, <1>3, <1>4, <1>5, <1>6, <1>7, <1>8, CarveInv DEF end

\* kmalloc with REUSE_MEMORY: a block moves from the free list to its caller.
LEMMA SearchCacheInv ==
    ASSUME AllocatorInv, NEW size \in Nat, SearchCache(size), TypeOK'
    PROVE  AllocatorInv'
  <1>1. TypeOK /\ free_cache \in Seq(Blocks)
    BY DEF AllocatorInv, TypeOK
  <1>2. PICK i \in 1 .. Len(free_cache) :
            /\ live' = live \cup {free_cache[i]} /\ free_cache' = Unlink(free_cache, i)
            /\ UNCHANGED <<milo_memory_map, map_pages, lastpfn, temp_memory_ptr, handed>>
    BY DEF SearchCache
  <1>3. /\ Len(free_cache') = Len(free_cache) - 1
        /\ \A j \in 1 .. Len(free_cache') :
              free_cache'[j] = IF j < i THEN free_cache[j] ELSE free_cache[j + 1]
    BY <1>1, <1>2, UnlinkType
  <1> DEFINE at(j) == IF j < i THEN j ELSE j + 1
  <1>4. Len(free_cache) \in Nat
    BY <1>1
  <1>5. \A j \in 1 .. Len(free_cache') :
            /\ at(j) \in 1 .. Len(free_cache) /\ at(j) # i
            /\ free_cache'[j] = free_cache[at(j)]
    BY <1>3, <1>4
  <1>6. \A j, k \in 1 .. Len(free_cache') : j # k => at(j) # at(k)
    BY <1>3, <1>4
  <1> HIDE DEF at
  <1>7. \A c \in Cached' : \E j \in 1 .. Len(free_cache) : j # i /\ c = free_cache[j]
    BY <1>5 DEF Cached
  <1>8. Held' \subseteq Held
    BY <1>2, <1>7 DEF Held, Cached
  <1>9. Reserved' = Reserved
    BY <1>2 DEF Reserved, MapAt
  <1>10. BlocksApart'
    <2>1. \A b, c \in live' : b # c => Apart(b, c)
      BY <1>2 DEF AllocatorInv, BlocksApart, Cached, Apart
    <2>2. \A b \in live', c \in Cached' : Apart(b, c)
      BY <1>2, <1>7 DEF AllocatorInv, BlocksApart, Cached
    <2>3. \A j, k \in 1 .. Len(free_cache') : j # k => Apart(free_cache'[j], free_cache'[k])
      BY <1>5, <1>6 DEF AllocatorInv, BlocksApart
    <2> QED BY <2>1, <2>2, <2>3 DEF BlocksApart, Apart, AtOrBelow
  <1>11. UsedPagesMarked' /\ OneOwner' /\ BlocksWellFormed'
    BY <1>2, <1>8, <1>9 DEF AllocatorInv, UsedPagesMarked, OneOwner, BlocksWellFormed
  <1>12. PointerOwned' /\ TopRespected' /\ ReservedMarked'
    BY <1>2, <1>8, <1>9 DEF AllocatorInv, PointerOwned, TopRespected, ReservedMarked
  <1> QED BY <1>10, <1>11, <1>12 DEF AllocatorInv

\* free: the block goes to the head of the free list, or is forgotten.
LEMMA FreeInv ==
    ASSUME AllocatorInv, NEW b \in live, Free(b), TypeOK'
    PROVE  AllocatorInv'
  <1>1. TypeOK /\ free_cache \in Seq(Blocks) /\ b \in Blocks
    BY DEF AllocatorInv, TypeOK
  <1>2. /\ live' = live \ {b}
        /\ UNCHANGED <<milo_memory_map, map_pages, lastpfn, temp_memory_ptr, handed>>
    BY DEF Free
  <1>3. Reserved' = Reserved
    BY <1>2 DEF Reserved, MapAt
  <1>4. Held' \subseteq Held /\ BlocksApart'
    <2>1. CASE ~ReuseMemory
      <3>1. free_cache' = free_cache
        BY <2>1 DEF Free
      <3> QED BY <1>2, <3>1 DEF AllocatorInv, BlocksApart, Held, Cached
    <2>2. CASE ReuseMemory
      <3>1. free_cache' = <<b>> \o free_cache
        BY <2>2 DEF Free
      <3>2. /\ Len(free_cache) \in Nat /\ Len(free_cache') = Len(free_cache) + 1
            /\ \A j \in 1 .. Len(free_cache') :
                  free_cache'[j] = IF j = 1 THEN b ELSE free_cache[j - 1]
        BY <3>1, <1>1
      <3>3. \A j \in 1 .. Len(free_cache') : j = 1 \/ j - 1 \in 1 .. Len(free_cache)
        BY <3>2
      <3>4. \A c \in Cached' : c = b \/ c \in Cached
        BY <3>2, <3>3 DEF Cached
      <3>5. \A c \in Cached : Apart(b, c) /\ Apart(c, b)
        BY DEF AllocatorInv, BlocksApart, Apart
      <3>6. \A j, k \in 1 .. Len(free_cache') : j # k => Apart(free_cache'[j], free_cache'[k])
        <4> SUFFICES ASSUME NEW j \in 1 .. Len(free_cache'), NEW k \in 1 .. Len(free_cache'), j # k
                     PROVE  Apart(free_cache'[j], free_cache'[k])
          OBVIOUS
        <4>1. CASE j = 1
          <5>1. k - 1 \in 1 .. Len(free_cache) /\ free_cache'[k] = free_cache[k - 1]
            BY <4>1, <3>2, <3>3
          <5>2. free_cache'[j] = b /\ free_cache'[k] \in Cached
            BY <4>1, <5>1, <3>2 DEF Cached
          <5> QED BY <5>2, <3>5
        <4>2. CASE k = 1
          <5>1. j - 1 \in 1 .. Len(free_cache) /\ free_cache'[j] = free_cache[j - 1]
            BY <4>2, <3>2, <3>3
          <5>2. free_cache'[k] = b /\ free_cache'[j] \in Cached
            BY <4>2, <5>1, <3>2 DEF Cached
          <5> QED BY <5>2, <3>5
        <4>3. CASE j # 1 /\ k # 1
          <5>1. /\ j - 1 \in 1 .. Len(free_cache) /\ free_cache'[j] = free_cache[j - 1]
                /\ k - 1 \in 1 .. Len(free_cache) /\ free_cache'[k] = free_cache[k - 1]
                /\ j - 1 # k - 1
            BY <4>3, <3>2, <3>3
          <5> QED BY <5>1 DEF AllocatorInv, BlocksApart
        <4> QED BY <4>1, <4>2, <4>3
      <3>7. /\ \A c, d \in live' : c # d => Apart(c, d)
            /\ \A c \in live', d \in Cached' : Apart(c, d)
        BY <1>2, <3>4 DEF AllocatorInv, BlocksApart
      <3>8. Held' \subseteq Held
        BY <1>2, <3>4 DEF Held
      <3> QED BY <3>6, <3>7, <3>8 DEF BlocksApart, Apart, AtOrBelow
    <2> QED BY <2>1, <2>2
  <1>5. UsedPagesMarked' /\ OneOwner' /\ BlocksWellFormed'
    BY <1>2, <1>3, <1>4 DEF AllocatorInv, UsedPagesMarked, OneOwner, BlocksWellFormed
  <1>6. PointerOwned' /\ TopRespected' /\ ReservedMarked'
    BY <1>2, <1>3, <1>4 DEF AllocatorInv, PointerOwned, TopRespected, ReservedMarked
  <1> QED BY <1>4, <1>5, <1>6 DEF AllocatorInv

\* reset_mem, when memory only grows: the pages it frees are new.
LEMMA ResetMemInv ==
    ASSUME AllocatorInv, GrowOnly, NEW top \in ResetTops, ResetMem(top), TypeOK'
    PROVE  AllocatorInv'
  <1>1. TypeOK /\ lastpfn \in Nat /\ top \in Nat /\ lastpfn' = top - 1 /\ top - 1 \in Pfns
    BY LayoutAssumption, MapAssumption DEF AllocatorInv, TypeOK, Pfns, ResetMem
  <1>2. lastpfn <= top - 1
    BY <1>1 DEF AllocatorInv, TopRespected, GrowOnly
  <1>3. UNCHANGED <<map_pages, temp_memory_ptr, free_cache, live, handed>>
    BY DEF ResetMem
  <1>4. Held' = Held /\ Cached' = Cached /\ Reserved' = Reserved
    BY <1>3 DEF Held, Cached, Reserved, MapAt
  <1>5. \A p \in Pfns : (p <= lastpfn \/ p > top - 1) => milo_memory_map'[p] = milo_memory_map[p]
    BY <1>1 DEF ResetMem, MarkMany, MarkPages, Extent, Pfns, TypeOK, Maps
  <1>6. \A p \in 0 .. lastpfn : p \in Pfns /\ milo_memory_map'[p] = milo_memory_map[p]
    BY <1>1, <1>5, MapAssumption DEF TypeOK, Pfns
  <1>7. \A b \in Held : \A p \in BlockPages(b) : p \in 0 .. lastpfn /\ milo_memory_map[p] # FREE_PAGE
    BY <1>1, HeldType DEF AllocatorInv, UsedPagesMarked, TopRespected, BlockPages, PagesSpanned,
                          Blocks, Addresses
  <1>8. \A e \in handed : \A p \in ExtentPages(e) : p \in 0 .. lastpfn /\ milo_memory_map[p] # FREE_PAGE
    BY <1>1 DEF AllocatorInv, UsedPagesMarked, TopRespected, ExtentPages, Extent, TypeOK, Extents
  <1>9. BlocksApart' /\ OneOwner' /\ BlocksWellFormed'
    BY <1>3, <1>4 DEF AllocatorInv, BlocksApart, OneOwner, BlocksWellFormed
  <1>10. UsedPagesMarked'
    BY <1>3, <1>4, <1>6, <1>7, <1>8 DEF UsedPagesMarked
  <1>11. PointerOwned'
    <2>1. temp_memory_ptr # NULL => temp_memory_ptr.pfn \in 0 .. lastpfn
      BY <1>1 DEF AllocatorInv, PointerOwned, TypeOK, Addresses
    <2> QED BY <1>1, <1>2, <1>3, <1>4, <1>6, <2>1 DEF AllocatorInv, PointerOwned
  <1>12. TopRespected'
    <2>1. (lastpfn + 1)' \in InitTops \cup ResetTops
      BY <1>1
    <2>2. \A p \in Pfns : p > lastpfn' => milo_memory_map'[p] # FREE_PAGE
      BY <1>1, <1>2, <1>5 DEF AllocatorInv, TopRespected, Pfns
    <2>3. \A p \in 0 .. lastpfn : p <= lastpfn'
      BY <1>1, <1>2
    <2> QED BY <1>3, <1>4, <1>7, <1>8, <2>1, <2>2, <2>3 DEF TopRespected
  <1>13. ReservedMarked'
    BY <1>1, <1>2, <1>4, <1>6 DEF AllocatorInv, ReservedMarked
  <1> QED BY <1>9, <1>10, <1>11, <1>12, <1>13 DEF AllocatorInv

\* init_mem establishes the invariant.
LEMMA InitInv == ASSUME JunkReserved PROVE Init => AllocatorInv
  <1> SUFFICES ASSUME Init PROVE AllocatorInv
    OBVIOUS
  <1>1. TypeOK
    BY InitTypeOK
  <1>2. PICK top \in InitTops : init_mem(top)
    BY DEF Init
  <1>3. PICK junk \in Junk : milo_memory_map = InitialMap(junk, top)
    BY <1>2 DEF init_mem
  <1>4. Held = {} /\ handed = {} /\ Cached = {} /\ temp_memory_ptr = NULL
    BY DEF Init, Held, Cached
  <1>5. /\ top \in MinPages .. (MapCap - 1) /\ lastpfn = top - 1 /\ map_pages = PagesFor(top)
        /\ map_pages \in Nat /\ map_pages < MinPages /\ MinPages \in Nat /\ top \in Nat
    BY <1>1, <1>2, LayoutAssumption, MapFits, MapAssumption DEF init_mem, TypeOK
  <1>6. Reserved \subseteq 0 .. (MinPages - 1)
    <2>1. Extent(MapAt, map_pages) \subseteq 0 .. (MinPages - 1)
      BY <1>5 DEF MapAt, Extent
    <2>2. 1 .. (MinPages - 1) \subseteq 0 .. (MinPages - 1) /\ 0 \in 0 .. (MinPages - 1)
      BY <1>5, LayoutAssumption
    <2> QED BY <2>1, <2>2, LayoutAssumption DEF Reserved
  <1>7. \A p \in Pfns : p \in Reserved => milo_memory_map[p] # FREE_PAGE
    <2>1. Extent(MinPages - map_pages, map_pages) = Extent(MapAt, map_pages) /\ 0 \in Extent(0, 1)
      BY DEF MapAt, Extent
    <2> QED BY <1>3, <1>5, <2>1 DEF InitialMap, MarkMany, MarkPages, Reserved, FREE_PAGE, ALLOCATED_PAGE,
                                     TEMPORARY_PAGE
  <1>8. \A p \in Pfns : p > lastpfn => milo_memory_map[p] # FREE_PAGE
    <2>1. \A p \in Pfns : p > lastpfn => ~(p < top)
      BY <1>5 DEF Pfns
    <2>2. \A p \in Pfns : junk[p] # FREE_PAGE
      BY DEF JunkReserved
    <2> QED BY <1>3, <2>1, <2>2 DEF InitialMap, MarkMany, MarkPages, FREE_PAGE, ALLOCATED_PAGE, TEMPORARY_PAGE
  <1>9. BlocksApart
    BY <1>4 DEF Init, BlocksApart
  <1>10. UsedPagesMarked /\ OneOwner /\ BlocksWellFormed /\ PointerOwned
    BY <1>4 DEF UsedPagesMarked, OneOwner, BlocksWellFormed, PointerOwned
  <1>11. TopRespected
    BY <1>4, <1>5, <1>8 DEF TopRespected
  <1>12. ReservedMarked
    <2>1. \A p \in 0 .. (MinPages - 1) : p \in Pfns /\ p \in 0 .. lastpfn
      BY <1>5, MapAssumption DEF Pfns
    <2> QED BY <1>6, <1>7, <2>1 DEF ReservedMarked
  <1> QED BY <1>1, <1>9, <1>10, <1>11, <1>12 DEF AllocatorInv

\* A step that changes nothing of this but forgets blocks keeps it.
LEMMA FewerBlocksInv ==
    ASSUME AllocatorInv, TypeOK', live' \subseteq live,
           UNCHANGED <<milo_memory_map, map_pages, lastpfn, temp_memory_ptr,
                       free_cache, handed>>
    PROVE  AllocatorInv'
  <1>1. Held' \subseteq Held /\ Cached' = Cached /\ Reserved' = Reserved
    BY DEF Held, Cached, Reserved, MapAt
  <1>2. BlocksApart' /\ UsedPagesMarked' /\ OneOwner' /\ BlocksWellFormed'
    BY <1>1 DEF AllocatorInv, BlocksApart, UsedPagesMarked, OneOwner, BlocksWellFormed
  <1>3. PointerOwned' /\ TopRespected' /\ ReservedMarked'
    BY <1>1 DEF AllocatorInv, PointerOwned, TopRespected, ReservedMarked
  <1> QED BY <1>2, <1>3 DEF AllocatorInv

\* kmalloc keeps the invariant, when the block does not fill its pages.
LEMMA KmallocInv ==
    ASSUME AllocatorInv, NEW size \in Nat, Gross(size) % PageSize # 0, Kmalloc(size)
    PROVE  AllocatorInv'
  <1>1. TypeOK'
    BY KmallocTypes DEF AllocatorInv
  <1>2. CASE error
    <2>1. UNCHANGED <<milo_memory_map, map_pages, lastpfn, temp_memory_ptr,
                      free_cache, live, handed>>
      BY <1>2 DEF error
    <2> QED BY <1>1, <2>1, FewerBlocksInv
  <1> QED
    BY <1>1, <1>2, SearchCacheInv, CarveInPageInv, CarveAcrossPagesInv, CarveFreshInv
       DEF Kmalloc, CarveNothing

\* Every operation keeps the invariant.
LEMMA NextInv ==
    ASSUME GrowOnly, NoExactFit
    PROVE  AllocatorInv /\ [Next]_vars => AllocatorInv'
  <1> SUFFICES ASSUME AllocatorInv, [Next]_vars PROVE AllocatorInv'
    OBVIOUS
  <1>1. TypeOK /\ TypeOK'
    BY NextTypeOK DEF AllocatorInv
  <1>2. ASSUME UNCHANGED <<milo_memory_map, map_pages, lastpfn, temp_memory_ptr,
                           free_cache, live, handed>>
        PROVE  AllocatorInv'
    BY <1>1, <1>2, FewerBlocksInv
  <1>3. CASE error
    BY <1>2, <1>3 DEF error
  <1>4. CASE UNCHANGED vars
    BY <1>2, <1>4 DEF vars
  <1>5. CASE AllocatePfn
    <2>1. ASSUME NEW pfn \in Pfns, IsFirstFree(pfn, milo_memory_map, lastpfn),
                 Hand(pfn, 1, ALLOCATED_PAGE)
          PROVE  AllocatorInv'
      <3>1. pfn \in 0 .. lastpfn /\ Extent(pfn, 1) = {pfn} /\ AllFree(milo_memory_map, {pfn})
        BY <2>1, <1>1 DEF IsFirstFree, Extent, AllFree, Pfns, TypeOK
      <3>2. ALLOCATED_PAGE \in PageTypes \ {FREE_PAGE}
        BY DEF PageTypes, ALLOCATED_PAGE, FREE_PAGE
      <3> QED BY <2>1, <3>1, <3>2, <1>1, HandInv
    <2> QED BY <1>3, <1>5, <2>1 DEF AllocatePfn
  <1>6. ASSUME NEW count \in PageCounts, GetFreePages(count) PROVE AllocatorInv'
    <2>1. ASSUME NEW pfn \in Pfns, IsFirstFit(pfn, milo_memory_map, lastpfn, count),
                 Hand(pfn, count, TEMPORARY_PAGE)
          PROVE  AllocatorInv'
      <3>1. count \in Nat \ {0}
        BY SizeAssumption
      <3>2. /\ pfn \in 0 .. lastpfn /\ AllFree(milo_memory_map, Extent(pfn, count))
            /\ Extent(pfn, count) \subseteq 0 .. lastpfn
        BY <2>1, <3>1, <1>1 DEF IsFirstFit, Candidates, Fits, Extent, TypeOK, Pfns
      <3>3. TEMPORARY_PAGE \in PageTypes \ {FREE_PAGE}
        BY DEF PageTypes, TEMPORARY_PAGE, FREE_PAGE
      <3> QED BY <2>1, <3>1, <3>2, <3>3, <1>1, HandInv
    <2> QED BY <1>3, <1>6, <2>1 DEF GetFreePages
  <1>7. ASSUME NEW size \in Sizes, Kmalloc(size) PROVE AllocatorInv'
    BY <1>7, KmallocInv, SizeAssumption DEF NoExactFit
  <1>8. ASSUME NEW b \in live, Free(b) PROVE AllocatorInv'
    BY <1>1, <1>8, FreeInv
  <1>9. ASSUME NEW top \in ResetTops, ResetMem(top) PROVE AllocatorInv'
    BY <1>1, <1>9, ResetMemInv
  <1> QED BY <1>4, <1>5, <1>6, <1>7, <1>8, <1>9 DEF Next

(***************************************************************************)
(* The allocator is safe: for every page size, layout, request and page    *)
(* count, with and without REUSE_MEMORY, blocks share no byte, pages have  *)
(* one owner and every page in use is marked, provided MEMORY_SIZE only    *)
(* grows, the bytes after the map do not read as free, and no block fills  *)
(* its pages exactly.                                                      *)
(***************************************************************************)
THEOREM AllocatorSafe ==
    ASSUME GrowOnly, JunkReserved, NoExactFit
    PROVE  Spec => []AllocatorInv
  BY InitInv, NextInv, PTL DEF Spec

(***************************************************************************)
(* Under the same conditions two blocks kmalloc handed out never share a   *)
(* byte: the property kmalloc's callers rely on.                           *)
(***************************************************************************)
THEOREM BlocksNeverOverlap ==
    ASSUME GrowOnly, JunkReserved, NoExactFit
    PROVE  Spec => []BlocksApart
  <1>1. AllocatorInv => BlocksApart
    BY DEF AllocatorInv
  <1> QED BY <1>1, AllocatorSafe, PTL

(***************************************************************************)
(* Under the same conditions no page has two owners: what the page table   *)
(* builder, the drivers and kmalloc hold is apart and outside the regions  *)
(* init_mem reserved.                                                      *)
(***************************************************************************)
THEOREM PagesHaveOneOwner ==
    ASSUME GrowOnly, JunkReserved, NoExactFit
    PROVE  Spec => []OneOwner
  <1>1. AllocatorInv => OneOwner
    BY DEF AllocatorInv
  <1> QED BY <1>1, AllocatorSafe, PTL

-----------------------------------------------------------------------------
(* The boot command (module Handover) *)

\* Without REUSE_MEMORY, as the boot command is modelled, free does nothing.
FreeIsEmpty == ~ReuseMemory

\* The regions of milo.h: the kernel's is one extent, apart from the others.
KernelApart ==
    /\ Kernel = Extent(KernelStart, Cardinality(Kernel))
    /\ Kernel \cap (Palcode \cup Stub \cup Loader) = {}
    /\ \A top \in InitTops : Kernel \cap Extent(MinPages - PagesFor(top), PagesFor(top)) = {}

\* An image ends in the kernel's region; a ramdisk begins above it and, below
\* the loader, does not end in the last IOBUF_SIZE bytes of a page.
ImagesFit == \A i \in Images : i.vaddr + i.memsz <= MaxKernelSize
RamdisksFit ==
    \A size \in Ramdisks :
        /\ KernelAt + MaxKernelSize + size + IobufSize <= LoaderAt
        /\ size % PageSize \in 1 .. (PageSize - IobufSize)

\* NoExactFit, of the blocks the boot command itself asks for.
BootBlocksFit ==
    \A size \in {MaxKernelSize + Slack, InbufSize, WindowSize, IobufSize + Slack} :
        Gross(size) % PageSize # 0

\* What the hand-over rests on.
BootConditions ==
    /\ FreeIsEmpty /\ KernelApart /\ ImagesFit /\ RamdisksFit /\ BootBlocksFit
    /\ GrowOnly /\ JunkReserved /\ NoExactFit

\* A non-empty set of pages has a first one.
LEMMA LeastPage ==
    ASSUME NEW S \in SUBSET Nat, S # {}
    PROVE  \E x \in S : \A y \in S : x <= y
  <1>1. \E x \in S : \A y \in S : ~(<<y, x>> \in OpToRel(<, Nat))
    BY NatLessThanWellFounded, WFMin, Zenon
  <1>2. ASSUME NEW x \in Nat, NEW y \in Nat, ~(<<y, x>> \in OpToRel(<, Nat))
        PROVE  x <= y
    BY <1>2 DEF OpToRel
  <1> QED BY <1>1, <1>2

\* The first pages of the kernel's region and of the loader.
LEMMA Starts ==
    /\ KernelStart \in Kernel /\ KernelStart \in Nat /\ KernelAt = KernelStart * PageSize
    /\ \E l \in Loader : LoaderAt = l * PageSize
    /\ Cardinality(Kernel) \in Nat /\ MaxKernelSize = Cardinality(Kernel) * PageSize
  <1>1. Kernel \in SUBSET Nat /\ Loader \in SUBSET Nat /\ Kernel # {} /\ Loader # {}
    BY LayoutAssumption, BootAssumption
  <1>2. \E p \in Kernel : \A q \in Kernel : p <= q
    BY <1>1, LeastPage
  <1>3. \E p \in Loader : \A q \in Loader : p <= q
    BY <1>1, LeastPage
  <1>4. KernelStart \in Kernel
    BY <1>2 DEF KernelStart
  <1>5. (CHOOSE p \in Loader : \A q \in Loader : p <= q) \in Loader
    BY <1>3
  <1>6. IsFiniteSet(Kernel)
    <2>1. IsFiniteSet(1 .. (MinPages - 1))
      BY LayoutAssumption, FS_Interval
    <2> QED BY <2>1, LayoutAssumption, FS_Subset
  <1>7. Cardinality(Kernel) \in Nat
    BY <1>6, FS_CardinalityType
  <1> QED BY <1>1, <1>4, <1>5, <1>7, BootAssumption DEF KernelAt, LoaderAt

\* Rounding up to pages: the least number of pages that holds the bytes.
LEMMA CeilLeast ==
    ASSUME NEW P \in Nat \ {0}, NEW x \in Nat
    PROVE  /\ (x + P - 1) \div P \in Nat
           /\ x <= P * ((x + P - 1) \div P)
           /\ \A k \in Nat : x <= P * k => (x + P - 1) \div P <= k
  <1> DEFINE c == (x + P - 1) \div P
             r == (x + P - 1) % P
  <1>1. /\ c \in Nat /\ r \in 0 .. (P - 1) /\ x + P - 1 = P * c + r
    <2>1. x + P - 1 \in Nat
      OBVIOUS
    <2> QED BY <2>1, DivType, DivEq
  <1> HIDE DEF c, r
  <1>2. P * c \in Nat /\ x <= P * c
    BY <1>1
  <1>3. ASSUME NEW k \in Nat, x <= P * k PROVE c <= k
    <2> SUFFICES ASSUME k < c PROVE FALSE
      BY <1>1
    <2>1. P * k + P <= P * c /\ P * k \in Nat
      BY <1>1, MulMono
    <2> QED BY <1>1, <1>2, <1>3, <2>1
  <1> QED BY <1>1, <1>2, <1>3 DEF c

\* Rounding down: the last page that starts at or before the byte.
LEMMA FloorGreatest ==
    ASSUME NEW P \in Nat \ {0}, NEW x \in Nat, NEW k \in Nat, P * k <= x
    PROVE  k <= x \div P
  <1>1. x \div P \in Nat /\ x % P \in 0 .. (P - 1) /\ x = P * (x \div P) + (x % P)
    BY DivType, DivEq
  <1> DEFINE c == x \div P
             r == x % P
  <1> HIDE DEF c, r
  <1>2. c \in Nat /\ r \in 0 .. (P - 1) /\ x = P * c + r
    BY <1>1 DEF c, r
  <1>3. CASE c < k
    <2>1. P * c + P <= P * k /\ P * c \in Nat /\ P * k \in Nat
      BY <1>2, <1>3, MulMono
    <2> QED BY <1>2, <2>1
  <1> QED BY <1>2, <1>3 DEF c

\* The pages of an image that ends in the kernel's region are in the region
\* and among those boot_cmd marks.
LEMMA ImagePages ==
    ASSUME KernelApart, NEW at \in Nat, NEW m \in Nat, at + m <= MaxKernelSize
    PROVE  /\ BytePages(KernelAt + at, KernelAt + at + m) \subseteq Kernel
           /\ BytePages(KernelAt + at, KernelAt + at + m) \subseteq
                  Extent(KernelStart, PagesOf(at, m))
  <1> DEFINE P == PageSize
             n == Cardinality(Kernel)
             lo == (KernelAt + at) \div P
             hi == (KernelAt + at + m + P - 1) \div P
             cm == PagesFor(m)
             ca == PagesFor(at)
  <1>1. /\ P \in Nat \ {0} /\ n \in Nat /\ KernelStart \in Nat
        /\ KernelAt = P * KernelStart /\ KernelAt \in Nat /\ MaxKernelSize = P * n
    BY Starts, SizeAssumption
  <1>2. Kernel = KernelStart .. (KernelStart + n - 1)
    BY DEF KernelApart, Extent
  <1>3. KernelStart <= lo /\ lo \in Nat
    <2>1. KernelAt + at \in Nat /\ P * KernelStart <= KernelAt + at
      BY <1>1
    <2> QED BY <1>1, <2>1, FloorGreatest, DivType
  <1>4. /\ cm \in Nat /\ m <= P * cm /\ ca \in Nat /\ at <= P * ca
    BY <1>1, CeilLeast DEF PagesFor
  <1>5. /\ hi \in Nat
        /\ \A k \in Nat : KernelAt + at + m <= P * k => hi <= k
    <2>1. KernelAt + at + m \in Nat
      BY <1>1
    <2> QED BY <1>1, <2>1, CeilLeast
  <1> HIDE DEF P, n, lo, hi, cm, ca
  <1>6. hi <= KernelStart + n
    <2>1. P * (KernelStart + n) = P * KernelStart + P * n
      BY <1>1
    <2>2. KernelAt + at + m <= P * (KernelStart + n)
      BY <1>1, <2>1
    <2> QED BY <1>1, <1>5, <2>2
  <1>7. hi <= KernelStart + (cm + ca)
    <2>1. P * (KernelStart + (cm + ca)) = P * KernelStart + P * cm + P * ca
      BY <1>1, <1>4
    <2>2. P * cm \in Nat /\ P * ca \in Nat
      BY <1>1, <1>4
    <2>3. KernelAt + at + m <= P * (KernelStart + (cm + ca))
      BY <1>1, <1>4, <2>1, <2>2
    <2> QED BY <1>1, <1>4, <1>5, <2>3
  <1>8. BytePages(KernelAt + at, KernelAt + at + m) = lo .. (hi - 1)
    BY DEF BytePages, lo, hi, P
  <1>9. Extent(KernelStart, PagesOf(at, m)) = KernelStart .. (KernelStart + (cm + ca) - 1)
    BY DEF Extent, PagesOf, cm, ca
  <1> QED BY <1>1, <1>2, <1>3, <1>4, <1>5, <1>6, <1>7, <1>8, <1>9

\* The pages of a ramdisk that leaves the last bytes of its last page free are
\* those load_ramdisk_from_device marks, and lie below the loader.
LEMMA RamdiskInPlace ==
    ASSUME RamdisksFit, NEW size \in Ramdisks
    PROVE  /\ BytePages(Where(size), Where(size) + size) \subseteq RamdiskPages(size)
           /\ BytePages(Where(size), Where(size) + size) \subseteq 0 .. (MinPages - 1)
           /\ Where(size) \in Nat /\ KernelAt + MaxKernelSize <= Where(size)
           /\ Where(size) + ReadBytes(size) <= LoaderAt
  <1> DEFINE P == PageSize
             a == Where(size)
             q == size \div P
             r == size % P
             c == PagesFor(size)
             lo == a \div P
             hi == (a + size + P - 1) \div P
  <1>1. /\ P \in Nat \ {0} /\ size \in Nat /\ IobufSize \in 1 .. P
        /\ KernelAt + MaxKernelSize \in Nat
    BY Starts, SizeAssumption, BootAssumption
  <1>2. PICK l \in Loader : LoaderAt = l * P
    BY Starts
  <1>3. l \in 1 .. (MinPages - 1) /\ MinPages \in Nat /\ LoaderAt = P * l /\ LoaderAt \in Nat
    BY <1>1, <1>2, LayoutAssumption
  <1>4. /\ q \in Nat /\ r \in 1 .. (P - IobufSize) /\ size = P * q + r
    BY <1>1, DivType, DivEq DEF RamdisksFit
  <1>5. c = q + 1
    <2>1. r # 0
      BY <1>1, <1>4
    <2> QED BY <1>1, <2>1, DivUp DEF PagesFor
  <1>6. /\ a \in Nat /\ KernelAt + MaxKernelSize <= a /\ a = LoaderAt - size - IobufSize
    BY <1>1, <1>3 DEF RamdisksFit, Where
  <1>7. lo \in Nat /\ (\A k \in Nat : P * k <= a => k <= lo)
    BY <1>1, <1>6, DivType, FloorGreatest
  <1>8. /\ hi \in Nat
        /\ \A k \in Nat : a + size <= P * k => hi <= k
    <2>1. a + size \in Nat
      BY <1>1, <1>6
    <2> QED BY <1>1, <2>1, CeilLeast
  <1> HIDE DEF P, a, q, r, c, lo, hi
  <1>9. hi <= l
    <2>1. a + size <= P * l
      BY <1>1, <1>3, <1>6
    <2> QED BY <1>3, <1>8, <2>1
  <1>10. l <= lo + c
    <2>1. CASE l <= c
      BY <1>3, <1>4, <1>5, <1>7, <2>1
    <2>2. CASE c < l
      <3>1. l - c \in Nat /\ P * (l - c) = P * l - P * c /\ P * c = P * q + P /\ P * q \in Nat
        BY <1>1, <1>3, <1>4, <1>5, <2>2
      <3>2. P * (l - c) <= a
        BY <1>1, <1>3, <1>4, <1>6, <3>1
      <3>3. l - c <= lo
        BY <1>7, <3>1, <3>2
      <3> QED BY <1>3, <1>4, <1>5, <1>7, <3>3
    <2> QED BY <1>3, <1>4, <1>5, <2>1, <2>2
  <1>11. /\ BytePages(a, a + size) = lo .. (hi - 1)
         /\ RamdiskPages(size) = lo .. (lo + c - 1)
    BY DEF BytePages, RamdiskPages, Extent, lo, hi, c, a, P
  <1>12. ReadBytes(size) <= size + IobufSize /\ ReadBytes(size) \in Nat
    <2> DEFINE i == size \div IobufSize
    <2>1. /\ IobufSize \in Nat \ {0} /\ i \in Nat
          /\ size % IobufSize \in 0 .. (IobufSize - 1)
          /\ size = IobufSize * i + (size % IobufSize)
      <3>1. IobufSize \in Nat \ {0}
        BY <1>1
      <3> QED BY <1>1, <3>1, DivType, DivEq
    <2>2. (i + 1) * IobufSize = IobufSize * i + IobufSize /\ IobufSize * i \in Nat
      BY <2>1
    <2>3. ReadBytes(size) = (i + 1) * IobufSize
      BY DEF ReadBytes
    <2> HIDE DEF i
    <2> QED BY <1>1, <2>1, <2>2, <2>3
  <1>13. a + ReadBytes(size) <= LoaderAt
    BY <1>1, <1>3, <1>6, <1>12
  <1>14. BytePages(a, a + size) \subseteq RamdiskPages(size)
    BY <1>3, <1>4, <1>5, <1>7, <1>8, <1>9, <1>10, <1>11
  <1>15. BytePages(a, a + size) \subseteq 0 .. (MinPages - 1)
    BY <1>3, <1>7, <1>8, <1>9, <1>11
  <1> QED BY <1>6, <1>13, <1>14, <1>15 DEF a

-----------------------------------------------------------------------------
(* The inductive invariant of the boot command: up to the marking of the   *)
(* kernel the allocator's own, and from there on, when the ramdisk's pages *)
(* may be anybody's, only what is marked and stays so.                     *)

\* The places in boot_cmd before and after the kernel's pages are marked.
EarlyPcs == {"prompt", "inbuf", "window", "unzip", "unzipped", "plain", "copy", "header", "mark"}
LatePcs == {"ramdisk", "tables", "clusters", "linux"}

\* The HWRPB and the PALcode stay marked for good.
FixedPages == {0} \cup Palcode
FixedInv == \A p \in FixedPages : p \in Pfns /\ milo_memory_map[p] = ALLOCATED_PAGE

\* What GoodHeader leaves in kernel.
KernelInv ==
    kernel # NONE =>
        \E i \in Images :
            LET memsize == i.memsz - (i.entry - i.vaddr)
            IN  kernel = [at |-> KernelAt + i.entry, memsize |-> memsize,
                          pages |-> PagesOf(i.entry, memsize)]

RamdiskInv == ramdisk # NONE => \E size \in Ramdisks : ramdisk = [where |-> Where(size), size |-> size]

\* Up to the marking of the kernel the allocator's invariant holds, and
\* nothing of Linux is in place.
EarlyInv ==
    pc \in EarlyPcs =>
        /\ AllocatorInv
        /\ page_tables = <<>> /\ ramdisk = NONE
        /\ kernel # NONE <=> pc = "mark"

\* What Linux keeps is marked for good.
LoadedPages == {KernelStart} \cup KernelPages \cup RamdiskHolds \cup TablePages

\* What MILO still runs from, and what its callers hold.
MilosPages == Stub \cup Loader \cup Extent(MapAt, map_pages)

\* Afterwards kmalloc's part of the invariant is gone, as the ramdisk's pages
\* are marked whoever they belong to; what is in use stays marked.
LateInv ==
    pc \in LatePcs =>
        /\ kernel # NONE
        /\ page_tables \in Seq(Pfns)
        /\ pc = "ramdisk" => page_tables = <<>> /\ ramdisk = NONE
        /\ \A p \in LoadedPages : p \in Pfns /\ milo_memory_map[p] = ALLOCATED_PAGE
        /\ \A i, j \in 1 .. Len(page_tables) : page_tables[i] = page_tables[j] => i = j
        /\ TablePages \cap (KernelPages \cup RamdiskHolds \cup FixedPages \cup MilosPages
                            \cup {KernelStart}) = {}
        /\ \A b \in live : BlockPages(b) \cap TablePages = {}

\* What is in use stays marked up to the jump into Linux.
UsedInv ==
    pc \in LatePcs \ {"linux"} =>
        /\ \A p \in MilosPages : p \in Pfns /\ milo_memory_map[p] # FREE_PAGE
        /\ \A b \in live : \A p \in BlockPages(b) : p \in Pfns /\ milo_memory_map[p] # FREE_PAGE
        /\ \A e \in handed : \A p \in ExtentPages(e) : p \in Pfns /\ milo_memory_map[p] # FREE_PAGE

BootInv ==
    /\ TypeOK /\ pc \in EarlyPcs \cup LatePcs
    /\ map_pages \in {PagesFor(top) : top \in InitTops}
    /\ FixedInv /\ KernelInv /\ RamdiskInv
    /\ EarlyInv /\ LateInv /\ UsedInv

-----------------------------------------------------------------------------
(* What the allocator's operations do to pages that are in use: nothing.   *)

\* Marking free pages changes no page that is in use.
LEMMA FreeMarkKeeps ==
    ASSUME NEW map \in Maps, NEW pages, NEW type, AllFree(map, pages), NEW p \in Pfns,
           map[p] # FREE_PAGE
    PROVE  MarkPages(map, pages, type)[p] = map[p]
  BY DEF MarkPages, AllFree

\* Nothing up to lastpfn that is in use is marked anew.
Keeps == \A p \in 0 .. lastpfn :
            milo_memory_map[p] # FREE_PAGE => milo_memory_map'[p] = milo_memory_map[p]

\* kmalloc takes pages that are free.
LEMMA KmallocKeeps ==
    ASSUME TypeOK, NEW size \in Nat, Kmalloc(size)
    PROVE  Keeps /\ map_pages' = map_pages
  <1>0. 0 .. lastpfn \subseteq Pfns /\ milo_memory_map \in Maps
    BY MapAssumption DEF TypeOK, Pfns
  <1>1. CASE UNCHANGED <<milo_memory_map, map_pages>>
    BY <1>1 DEF Keeps
  <1>2. CASE CarveAcrossPages(size)
    BY <1>2, <1>0, FreeMarkKeeps DEF CarveAcrossPages, RoomAfterPage, Carve, Keeps
  <1>3. CASE CarveFresh(size)
    <2>1. PICK pfn \in Pfns :
            /\ IsFirstFit(pfn, milo_memory_map, lastpfn, PagesFor(Gross(size)))
            /\ milo_memory_map' = MarkMany(milo_memory_map, pfn, PagesFor(Gross(size)),
                                           TEMPORARY_PAGE)
            /\ Carve([pfn |-> pfn, off |-> 0], size)
      BY <1>3 DEF CarveFresh
    <2>2. AllFree(milo_memory_map, Extent(pfn, PagesFor(Gross(size))))
      BY <2>1 DEF IsFirstFit, Candidates, Fits
    <2> QED BY <2>1, <2>2, <1>0, FreeMarkKeeps DEF MarkMany, Carve, Keeps
  <1> QED
    BY <1>1, <1>2, <1>3
       DEF Kmalloc, SearchCache, CarveInPage, CarveNothing, error, Carve

\* The page allocators take pages that are free; reset_mem frees only pages
\* above lastpfn.
LEMMA PagesKeep ==
    ASSUME TypeOK, \/ AllocatePfn \/ \E count \in PageCounts : GetFreePages(count)
                   \/ \E top \in ResetTops : ResetMem(top)
    PROVE  Keeps /\ map_pages' = map_pages
  <1>0. 0 .. lastpfn \subseteq Pfns /\ milo_memory_map \in Maps /\ lastpfn \in Nat
    BY MapAssumption DEF TypeOK, Pfns
  <1>1. CASE error
    BY <1>1 DEF error, Keeps
  <1>2. ASSUME NEW pfn, NEW count, NEW type, Hand(pfn, count, type),
               AllFree(milo_memory_map, Extent(pfn, count))
        PROVE  Keeps /\ map_pages' = map_pages
    BY <1>2, <1>0, FreeMarkKeeps DEF Hand, MarkMany, Keeps
  <1>3. CASE AllocatePfn
    <2>1. ASSUME NEW pfn \in Pfns, IsFirstFree(pfn, milo_memory_map, lastpfn)
          PROVE  AllFree(milo_memory_map, Extent(pfn, 1))
      BY <2>1 DEF IsFirstFree, AllFree, Extent, Pfns
    <2> QED BY <1>1, <1>2, <1>3, <2>1 DEF AllocatePfn
  <1>4. ASSUME NEW count \in PageCounts, GetFreePages(count)
        PROVE  Keeps /\ map_pages' = map_pages
    BY <1>1, <1>2, <1>4 DEF GetFreePages, IsFirstFit, Candidates, Fits
  <1>5. ASSUME NEW top \in ResetTops, ResetMem(top) PROVE Keeps /\ map_pages' = map_pages
    BY <1>5, <1>0 DEF ResetMem, MarkMany, MarkPages, Extent, Keeps
  <1> QED BY <1>3, <1>4, <1>5

-----------------------------------------------------------------------------
(* Every step of the boot command keeps its invariant. *)

\* The regions lie below MILO_MIN_MEMORY_SIZE, which is in every map.
LEMMA Regions ==
    ASSUME InitTops # {}
    PROVE  /\ 0 .. (MinPages - 1) \subseteq Pfns /\ 0 \notin Kernel
           /\ Kernel \cup Stub \cup Loader \cup FixedPages \subseteq 0 .. (MinPages - 1)
           /\ Kernel \cup FixedPages \cup MilosPages \subseteq Reserved
  <1>1. MinPages \in Nat \ {0} /\ MinPages <= MapCap - 1
    <2>1. PICK top \in InitTops : top \in MinPages .. (MapCap - 1)
      BY LayoutAssumption
    <2> QED BY <2>1, LayoutAssumption, MapAssumption
  <1>2. 0 .. (MinPages - 1) \subseteq Pfns /\ 1 .. (MinPages - 1) \subseteq 0 .. (MinPages - 1)
        /\ 0 \in 0 .. (MinPages - 1) /\ 0 \notin 1 .. (MinPages - 1)
    BY <1>1, MapAssumption DEF Pfns
  <1>3. Kernel \cup FixedPages \cup MilosPages \subseteq Reserved
    BY DEF FixedPages, MilosPages, Reserved
  <1> QED BY <1>2, <1>3, LayoutAssumption DEF FixedPages

\* What GoodHeader puts in kernel: an image in the kernel's region, whose
\* pages and first page are among those to be marked.
LEMMA LoadedKernel ==
    ASSUME KernelApart, ImagesFit, KernelInv, kernel # NONE
    PROVE  /\ KernelPages \subseteq Kernel
           /\ {KernelStart} \cup KernelPages \subseteq Extent(KernelStart, kernel.pages)
           /\ kernel.at + kernel.memsize <= KernelAt + MaxKernelSize
           /\ kernel.at \in Nat /\ kernel.memsize \in Nat
  <1>1. PICK i \in Images :
          kernel = [at |-> KernelAt + i.entry, memsize |-> i.memsz - (i.entry - i.vaddr),
                    pages |-> PagesOf(i.entry, i.memsz - (i.entry - i.vaddr))]
    BY DEF KernelInv
  <1> DEFINE at == i.entry
             m == i.memsz - (i.entry - i.vaddr)
  <1>2. /\ at \in Nat /\ m \in Nat /\ m > 0 /\ at + m <= MaxKernelSize
        /\ KernelStart \in Nat /\ KernelAt \in Nat /\ MaxKernelSize \in Nat
        /\ PageSize \in Nat \ {0}
    BY BootAssumption, Starts, SizeAssumption DEF ImagesFit
  <1>3. /\ kernel.at = KernelAt + at /\ kernel.memsize = m /\ kernel.pages = PagesOf(at, m)
    BY <1>1
  <1>4. PagesOf(at, m) \in Nat /\ PagesOf(at, m) > 0
    <2> DEFINE c == PagesFor(m)
    <2>1. c \in Nat /\ m <= PageSize * c /\ PagesFor(at) \in Nat
      BY <1>2, CeilLeast DEF PagesFor
    <2>2. PagesOf(at, m) = c + PagesFor(at)
      BY DEF PagesOf
    <2> HIDE DEF at, m, c
    <2>3. c # 0
      BY <1>2, <2>1
    <2> QED BY <2>1, <2>2, <2>3
  <1>5. KernelPages = BytePages(KernelAt + at, KernelAt + at + m)
    BY <1>3 DEF KernelPages
  <1> HIDE DEF at, m
  <1>6. /\ KernelPages \subseteq Kernel
        /\ KernelPages \subseteq Extent(KernelStart, PagesOf(at, m))
    BY <1>2, <1>5, ImagePages
  <1>7. KernelStart \in Extent(KernelStart, PagesOf(at, m))
    BY <1>2, <1>4 DEF Extent
  <1> QED BY <1>2, <1>3, <1>6, <1>7

\* The boot command starts with everything as init_mem left it.
LEMMA InitBoot ==
    ASSUME JunkReserved
    PROVE  BootInit => BootInv
  <1> SUFFICES ASSUME BootInit PROVE BootInv
    OBVIOUS
  <1>1. AllocatorInv /\ TypeOK
    BY InitInv DEF BootInit, AllocatorInv
  <1>2. PICK top \in InitTops : init_mem(top)
    BY DEF BootInit, Init
  <1>3. map_pages \in {PagesFor(t) : t \in InitTops} /\ InitTops # {}
    BY <1>2 DEF init_mem
  <1>4. FixedInv
    <2>1. PICK junk \in Junk : milo_memory_map = InitialMap(junk, top)
      BY <1>2 DEF init_mem
    <2>2. FixedPages \subseteq Pfns /\ 0 \notin Loader \cup Stub \cup Kernel
      BY <1>3, Regions, LayoutAssumption
    <2>3. 0 \in Extent(0, 1)
      BY DEF Extent
    <2> QED BY <2>1, <2>2, <2>3 DEF FixedInv, FixedPages, InitialMap, MarkMany, MarkPages
  <1>5. pc = "prompt" /\ kernel = NONE /\ ramdisk = NONE /\ page_tables = <<>>
    BY DEF BootInit
  <1>6. EarlyInv /\ LateInv /\ UsedInv /\ KernelInv /\ RamdiskInv
    BY <1>1, <1>5 DEF EarlyInv, LateInv, UsedInv, KernelInv, RamdiskInv, EarlyPcs, LatePcs
  <1> QED BY <1>1, <1>3, <1>4, <1>5, <1>6 DEF BootInv, EarlyPcs

\* Before the kernel's pages are marked it is enough that a step keeps the
\* allocator's invariant and the pages in use.
LEMMA EarlyStep ==
    ASSUME BootInv, pc \in EarlyPcs, pc' \in EarlyPcs, AllocatorInv',
           Keeps, map_pages' = map_pages,
           page_tables' = page_tables, ramdisk' = ramdisk,
           KernelInv', kernel' # NONE <=> pc' = "mark"
    PROVE  BootInv'
  <1>1. AllocatorInv /\ page_tables = <<>> /\ ramdisk = NONE
    BY DEF BootInv, EarlyInv
  <1>2. InitTops # {}
    BY DEF BootInv
  <1>3. FixedInv'
    <2>1. FixedPages \subseteq 0 .. lastpfn
      BY <1>1, <1>2, Regions DEF AllocatorInv, ReservedMarked
    <2>2. ALLOCATED_PAGE # FREE_PAGE
      BY DEF ALLOCATED_PAGE, FREE_PAGE
    <2> QED BY <2>1, <2>2 DEF FixedInv, Keeps, BootInv
  <1>4. EarlyInv' /\ RamdiskInv'
    BY <1>1 DEF EarlyInv, RamdiskInv
  <1>5. LateInv' /\ UsedInv'
    BY DEF EarlyPcs, LatePcs, LateInv, UsedInv
  <1>6. TypeOK' /\ pc' \in EarlyPcs \cup LatePcs
    BY DEF AllocatorInv
  <1> QED BY <1>3, <1>4, <1>5, <1>6 DEF BootInv

\* kmalloc, in the boot command.
LEMMA BootKmalloc ==
    ASSUME BootConditions, BootInv, pc \in EarlyPcs,
           NEW size \in {MaxKernelSize + Slack, InbufSize, WindowSize, IobufSize + Slack},
           Kmalloc(size)
    PROVE  AllocatorInv' /\ Keeps /\ map_pages' = map_pages
  <1>1. size \in Nat /\ Gross(size) % PageSize # 0
    BY BootAssumption, SizeAssumption DEF BootConditions, BootBlocksFit
  <1>2. AllocatorInv /\ TypeOK
    BY DEF BootInv, EarlyInv
  <1> QED BY <1>1, <1>2, KmallocInv, KmallocKeeps

\* The steps up to the marking of the kernel.
LEMMA EarlyNext ==
    ASSUME BootConditions, BootInv,
           \/ Command \/ OpenFails \/ AllocateBuffer \/ AllocateInbuf \/ AllocateWindow
           \/ FlushWindow \/ Unzip \/ AllocateIobuf \/ CopyBlock \/ CopyEnds
           \/ BadHeader \/ GoodHeader
    PROVE  BootInv'
  <1>1. pc \in EarlyPcs /\ pc # "mark"
    BY DEF At, Command, OpenFails, AllocateBuffer, AllocateInbuf, AllocateWindow,
           FlushWindow, Unzip, AllocateIobuf, CopyBlock, CopyEnds, BadHeader, GoodHeader, Loaded,
           EarlyPcs
  <1>2. /\ AllocatorInv /\ TypeOK /\ kernel = NONE
    BY <1>1 DEF BootInv, EarlyInv
  <1>3. ASSUME UNCHANGED <<milo_memory_map, map_pages, lastpfn, temp_memory_ptr,
                           free_cache, handed>>,
               live' \subseteq live, halted' \in BOOLEAN
        PROVE  AllocatorInv' /\ Keeps /\ map_pages' = map_pages
    <2>1. TypeOK'
      BY <1>2, <1>3 DEF TypeOK
    <2> QED BY <1>2, <1>3, <2>1, FewerBlocksInv DEF Keeps
  <1>4. ASSUME pc' \in EarlyPcs, pc' # "mark", AllocatorInv' /\ Keeps /\ map_pages' = map_pages,
               UNCHANGED <<kernel, page_tables, ramdisk>>
        PROVE  BootInv'
    <2>1. KernelInv' /\ (kernel' # NONE <=> pc' = "mark")
      BY <1>2, <1>4 DEF KernelInv
    <2> QED BY <1>1, <1>4, <2>1, EarlyStep
  <1>5. CASE Command
    <2>1. Next
      BY <1>5 DEF Command, Next
    <2>2. AllocatorInv'
      BY <1>2, <2>1, NextInv DEF BootConditions
    <2>3. Keeps /\ map_pages' = map_pages
      BY <1>2, <1>5, KmallocKeeps, PagesKeep, SizeAssumption DEF Command
    <2>4. UNCHANGED <<pc, kernel, page_tables, ramdisk>>
      BY <1>5 DEF Command, bootvars
    <2> QED BY <1>1, <1>4, <2>2, <2>3, <2>4
  <1>6. CASE AllocateBuffer \/ AllocateInbuf \/ AllocateWindow \/ AllocateIobuf
    <2>1. /\ AllocatorInv' /\ Keeps /\ map_pages' = map_pages
      BY <1>1, <1>6, BootKmalloc
         DEF AllocateBuffer, AllocateInbuf, AllocateWindow, AllocateIobuf
    <2>2. pc' \in EarlyPcs /\ pc' # "mark" /\ UNCHANGED <<kernel, page_tables, ramdisk>>
      BY <1>6 DEF AllocateBuffer, AllocateInbuf, AllocateWindow, AllocateIobuf, Goto, EarlyPcs
    <2> QED BY <1>4, <2>1, <2>2
  <1>7. CASE OpenFails \/ FlushWindow \/ Unzip \/ CopyBlock \/ CopyEnds \/ BadHeader
    <2>1. /\ UNCHANGED <<milo_memory_map, map_pages, lastpfn, temp_memory_ptr,
                         free_cache, handed>>
          /\ live' \subseteq live /\ halted' \in BOOLEAN
      BY <1>2, <1>7 DEF TypeOK, OpenFails, FlushWindow, Unzip, CopyBlock, CopyEnds, BadHeader,
                        vars, error
    <2>2. pc' \in EarlyPcs /\ pc' # "mark" /\ UNCHANGED <<kernel, page_tables, ramdisk>>
      BY <1>1, <1>7
         DEF OpenFails, FlushWindow, Unzip, CopyBlock, CopyEnds, BadHeader, Goto, EarlyPcs
    <2> QED BY <1>3, <1>4, <2>1, <2>2
  <1>8. CASE GoodHeader
    <2>1. /\ AllocatorInv' /\ Keeps /\ map_pages' = map_pages
      BY <1>2, <1>3, <1>8 DEF GoodHeader, TypeOK
    <2>2. pc' = "mark" /\ pc' \in EarlyPcs /\ UNCHANGED <<page_tables, ramdisk>>
      BY <1>8 DEF GoodHeader, Goto, EarlyPcs
    <2>3. KernelInv' /\ kernel' # NONE
      BY <1>8 DEF GoodHeader, KernelInv, NONE
    <2> QED BY <1>1, <2>1, <2>2, <2>3, EarlyStep
  <1> QED BY <1>5, <1>6, <1>7, <1>8

\* Marking the kernel frees the guess, none of which anybody holds, and marks
\* the image.
LEMMA MarkKernelStep ==
    ASSUME BootConditions, BootInv, MarkKernel
    PROVE  BootInv'
  <1>1. /\ pc = "mark" /\ pc' = "ramdisk" /\ ~halted
        /\ milo_memory_map' = KernelMarked(milo_memory_map, kernel.pages)
        /\ UNCHANGED <<map_pages, lastpfn, temp_memory_ptr, free_cache, halted, live, handed,
                       kernel, ramdisk, page_tables>>
    BY DEF MarkKernel, At, Goto
  <1>2. /\ AllocatorInv /\ TypeOK /\ page_tables = <<>> /\ ramdisk = NONE /\ kernel # NONE
        /\ KernelInv /\ FixedInv /\ InitTops # {} /\ RamdiskInv
    BY <1>1 DEF BootInv, EarlyInv, EarlyPcs
  <1>3. /\ KernelPages \subseteq Kernel
        /\ {KernelStart} \cup KernelPages \subseteq Extent(KernelStart, kernel.pages)
        /\ {KernelStart} \cup KernelPages \subseteq Pfns
    <2>1. /\ KernelPages \subseteq Kernel
          /\ {KernelStart} \cup KernelPages \subseteq Extent(KernelStart, kernel.pages)
      BY <1>2, LoadedKernel DEF BootConditions
    <2> QED BY <2>1, <1>2, Regions, Starts
  <1>4. \A p \in Pfns :
          milo_memory_map'[p] = IF p \in Extent(KernelStart, kernel.pages) THEN ALLOCATED_PAGE
                                ELSE IF p \in Kernel THEN FREE_PAGE ELSE milo_memory_map[p]
    BY <1>1 DEF KernelMarked, MarkMany, MarkPages
  <1>5. ASSUME NEW p \in Pfns, p \notin Kernel, milo_memory_map[p] # FREE_PAGE
        PROVE  milo_memory_map'[p] # FREE_PAGE
    BY <1>4, <1>5 DEF ALLOCATED_PAGE, FREE_PAGE
  <1>6. TypeOK'
    <2>1. MarkPages(milo_memory_map, Kernel, FREE_PAGE) \in Maps
      BY <1>2, MarkType DEF TypeOK, PageTypes
    <2>2. milo_memory_map' \in Maps
      BY <1>1, <2>1, MarkType DEF KernelMarked, MarkMany, PageTypes
    <2> QED BY <1>1, <1>2, <2>2 DEF TypeOK
  <1>7. FixedInv'
    <2>1. FixedPages \cap Kernel = {}
      BY <1>2, Regions DEF FixedPages, BootConditions, KernelApart
    <2> QED BY <1>2, <1>4, <2>1 DEF FixedInv
  <1>8. LateInv'
    <2>1. /\ KernelPages' = KernelPages /\ RamdiskHolds' = {} /\ TablePages' = {}
          /\ page_tables' = <<>>
      BY <1>1, <1>2 DEF KernelPages, RamdiskHolds, TablePages
    <2>2. \A p \in LoadedPages' : p \in Pfns /\ milo_memory_map'[p] = ALLOCATED_PAGE
      BY <1>3, <1>4, <2>1 DEF LoadedPages
    <2> QED BY <1>1, <1>2, <2>1, <2>2 DEF LateInv
  <1>9. UsedInv'
    <2>1. MilosPages \cap Kernel = {}
      <3>1. PICK top \in InitTops : map_pages = PagesFor(top)
        BY DEF BootInv
      <3>2. Kernel \cap Extent(MapAt, map_pages) = {}
        BY <3>1 DEF BootConditions, KernelApart, MapAt
      <3> QED BY <3>2 DEF MilosPages, BootConditions, KernelApart
    <2>2. \A p \in MilosPages : p \in Pfns /\ milo_memory_map[p] # FREE_PAGE
      BY <1>2, Regions, MapAssumption DEF AllocatorInv, ReservedMarked, TypeOK, Pfns
    <2>3. MilosPages' = MilosPages
      BY <1>1 DEF MilosPages, MapAt
    <2>4. \A b \in live : /\ BlockPages(b) \cap Kernel = {}
                          /\ \A p \in BlockPages(b) : p \in Pfns /\ milo_memory_map[p] # FREE_PAGE
      <3> TAKE b \in live
      <3>1. b \in Held /\ b \in Blocks
        BY <1>2 DEF Held, TypeOK
      <3>2. BlockPages(b) \subseteq Nat
        BY <3>1 DEF BlockPages, PagesSpanned, Blocks, Addresses
      <3>3. \A p \in BlockPages(b) : p <= lastpfn /\ milo_memory_map[p] # FREE_PAGE
        BY <1>2, <3>1 DEF AllocatorInv, TopRespected, UsedPagesMarked
      <3>4. BlockPages(b) \cap Kernel = {}
        BY <1>2, <3>1 DEF AllocatorInv, OneOwner, Reserved
      <3> QED BY <1>2, <3>2, <3>3, <3>4, MapAssumption DEF TypeOK, Pfns
    <2>5. \A e \in handed : /\ ExtentPages(e) \cap Kernel = {}
                            /\ \A p \in ExtentPages(e) : p \in Pfns /\ milo_memory_map[p] # FREE_PAGE
      <3> TAKE e \in handed
      <3>1. ExtentPages(e) \subseteq Nat
        BY <1>2 DEF TypeOK, ExtentPages, Extent, Extents
      <3>2. \A p \in ExtentPages(e) : p <= lastpfn /\ milo_memory_map[p] # FREE_PAGE
        BY <1>2 DEF AllocatorInv, TopRespected, UsedPagesMarked
      <3>3. ExtentPages(e) \cap Kernel = {}
        BY <1>2 DEF AllocatorInv, OneOwner, Reserved
      <3> QED BY <1>2, <3>1, <3>2, <3>3, MapAssumption DEF TypeOK, Pfns
    <2>6. \A p \in MilosPages : milo_memory_map'[p] # FREE_PAGE
      BY <1>5, <2>1, <2>2
    <2>7. \A b \in live : \A p \in BlockPages(b) : milo_memory_map'[p] # FREE_PAGE
      BY <1>5, <2>4
    <2>8. \A e \in handed : \A p \in ExtentPages(e) : milo_memory_map'[p] # FREE_PAGE
      BY <1>5, <2>5
    <2> QED BY <1>1, <2>2, <2>3, <2>4, <2>5, <2>6, <2>7, <2>8 DEF UsedInv
  <1>10. KernelInv' /\ RamdiskInv' /\ EarlyInv' /\ pc' \in LatePcs
         /\ map_pages' \in {PagesFor(top) : top \in InitTops}
    BY <1>1, <1>2 DEF BootInv, KernelInv, RamdiskInv, EarlyInv, EarlyPcs, LatePcs
  <1> QED BY <1>6, <1>7, <1>8, <1>9, <1>10 DEF BootInv

\* From here on a step that neither frees a page nor adds one to what is held
\* keeps what is in use.
LEMMA LateStep ==
    ASSUME BootInv, pc \in {"ramdisk", "tables", "clusters"}, pc' \in LatePcs, TypeOK',
           UNCHANGED <<map_pages, kernel>>, RamdiskInv', FixedInv', UsedInv', LateInv'
    PROVE  BootInv'
  <1>1. KernelInv' /\ map_pages' \in {PagesFor(top) : top \in InitTops}
    BY DEF BootInv, KernelInv
  <1>2. EarlyInv'
    BY DEF EarlyInv, EarlyPcs, LatePcs
  <1> QED BY <1>1, <1>2 DEF BootInv

\* The ramdisk's pages are marked whoever they belong to; none becomes free.
LEMMA LoadRamdiskStep ==
    ASSUME BootConditions, BootInv, LoadRamdisk \/ NoRamdisk
    PROVE  BootInv'
  <1>1. /\ pc = "ramdisk" /\ pc' = "tables"
        /\ UNCHANGED <<map_pages, lastpfn, temp_memory_ptr, free_cache, halted, live, handed,
                       kernel, page_tables>>
    BY DEF LoadRamdisk, NoRamdisk, At, Goto, vars
  <1>2. /\ TypeOK /\ FixedInv /\ LateInv /\ UsedInv /\ InitTops # {} /\ RamdiskInv
        /\ page_tables = <<>> /\ ramdisk = NONE /\ kernel # NONE
        /\ \A p \in LoadedPages : p \in Pfns /\ milo_memory_map[p] = ALLOCATED_PAGE
    BY <1>1 DEF BootInv, LateInv, LatePcs
  <1>3. /\ RamdiskInv' /\ milo_memory_map' \in Maps
        /\ \A p \in Pfns : milo_memory_map'[p] \in {ALLOCATED_PAGE, milo_memory_map[p]}
        /\ \A p \in RamdiskHolds' : p \in Pfns /\ milo_memory_map'[p] = ALLOCATED_PAGE
    <2>1. CASE NoRamdisk
      BY <2>1, <1>2 DEF NoRamdisk, vars, TypeOK, RamdiskInv, RamdiskHolds
    <2>2. CASE LoadRamdisk
      <3>1. PICK size \in Ramdisks :
              /\ ramdisk' = [where |-> Where(size), size |-> size]
              /\ milo_memory_map' = MarkPages(milo_memory_map, RamdiskPages(size), ALLOCATED_PAGE)
        BY <2>2 DEF LoadRamdisk
      <3>2. milo_memory_map' \in Maps
        BY <1>2, <3>1, MarkType DEF TypeOK, PageTypes
      <3>3. RamdiskHolds' = BytePages(Where(size), Where(size) + size)
        BY <3>1 DEF RamdiskHolds, NONE
      <3>4. RamdiskHolds' \subseteq RamdiskPages(size) /\ RamdiskHolds' \subseteq Pfns
        BY <1>2, <3>3, RamdiskInPlace, Regions DEF BootConditions
      <3>5. RamdiskInv'
        BY <3>1 DEF RamdiskInv
      <3> QED BY <3>1, <3>2, <3>4, <3>5 DEF MarkPages
    <2> QED BY <2>1, <2>2
  <1>4. /\ KernelPages' = KernelPages /\ TablePages' = {} /\ page_tables' = <<>>
        /\ MilosPages' = MilosPages
    BY <1>1, <1>2 DEF KernelPages, TablePages, MilosPages, MapAt
  <1>5. FixedInv'
    BY <1>2, <1>3 DEF FixedInv
  <1>6. UsedInv'
    BY <1>1, <1>2, <1>3, <1>4 DEF UsedInv, LatePcs, ALLOCATED_PAGE, FREE_PAGE
  <1>7. LateInv'
    <2>1. \A p \in {KernelStart} \cup KernelPages : p \in Pfns /\ milo_memory_map'[p] = ALLOCATED_PAGE
      BY <1>2, <1>3 DEF LoadedPages
    <2>2. \A p \in LoadedPages' : p \in Pfns /\ milo_memory_map'[p] = ALLOCATED_PAGE
      BY <1>3, <1>4, <2>1 DEF LoadedPages
    <2> QED BY <1>1, <1>2, <1>4, <2>2 DEF LateInv
  <1>8. TypeOK'
    BY <1>1, <1>2, <1>3 DEF TypeOK
  <1> QED BY <1>1, <1>3, <1>5, <1>6, <1>7, <1>8, LateStep DEF LatePcs

\* add_VA takes a free page, so one that nobody else needs.
LEMMA AddVAStep ==
    ASSUME BootConditions, BootInv, AddVA
    PROVE  BootInv'
  <1>1. /\ pc = "tables" /\ pc' \in {"tables", "clusters"} /\ AllocatePfn
        /\ UNCHANGED <<kernel, ramdisk>>
        /\ page_tables' = IF halted' THEN page_tables
                          ELSE Append(page_tables, (CHOOSE e \in handed' : e \notin handed).pfn)
    BY DEF AddVA, At, Goto
  <1>2. /\ TypeOK /\ FixedInv /\ LateInv /\ UsedInv /\ RamdiskInv
        /\ page_tables \in Seq(Pfns) /\ kernel # NONE
        /\ pc' \in LatePcs \ {"ramdisk", "linux"}
    BY <1>1 DEF BootInv, LateInv, LatePcs
  <1>3. TypeOK'
    BY <1>1, <1>2, NextTypeOK DEF Next
  <1>4. RamdiskInv' /\ KernelPages' = KernelPages /\ RamdiskHolds' = RamdiskHolds
    BY <1>1, <1>2 DEF RamdiskInv, KernelPages, RamdiskHolds
  <1>5. CASE error
    <2>1. UNCHANGED <<milo_memory_map, map_pages, live, handed, page_tables>>
      BY <1>1, <1>5 DEF error
    <2>2. FixedInv' /\ TablePages' = TablePages /\ LoadedPages' = LoadedPages
          /\ MilosPages' = MilosPages
      BY <1>2, <1>4, <2>1 DEF FixedInv, TablePages, LoadedPages, MilosPages, MapAt
    <2>3. UsedInv'
      BY <1>1, <1>2, <2>1, <2>2 DEF UsedInv, LatePcs
    <2>4. LateInv'
      BY <1>1, <1>2, <1>4, <2>1, <2>2 DEF LateInv, LatePcs
    <2> QED BY <1>1, <1>2, <1>3, <1>4, <2>1, <2>2, <2>3, <2>4, LateStep
  <1>6. CASE ~error
    <2>1. PICK pfn \in Pfns : IsFirstFree(pfn, milo_memory_map, lastpfn) /\ Hand(pfn, 1, ALLOCATED_PAGE)
      BY <1>1, <1>6 DEF AllocatePfn
    <2> DEFINE new == [pfn |-> pfn, count |-> 1]
    <2>2. /\ milo_memory_map[pfn] = FREE_PAGE /\ pfn \in Nat
          /\ handed' = handed \cup {new} /\ ~halted'
          /\ UNCHANGED <<map_pages, live>>
          /\ \A p \in Pfns : milo_memory_map'[p] = IF p = pfn THEN ALLOCATED_PAGE ELSE milo_memory_map[p]
      <3>1. Extent(pfn, 1) = {pfn}
        BY DEF Extent, Pfns
      <3>2. ~halted
        BY <1>1 DEF AllocatePfn, CanHold
      <3> QED BY <2>1, <3>1, <3>2 DEF IsFirstFree, Hand, MarkMany, MarkPages, Pfns
    <2>3. /\ \A p \in MilosPages : p \in Pfns /\ milo_memory_map[p] # FREE_PAGE
          /\ \A b \in live : \A p \in BlockPages(b) : p \in Pfns /\ milo_memory_map[p] # FREE_PAGE
          /\ \A e \in handed : \A p \in ExtentPages(e) : p \in Pfns /\ milo_memory_map[p] # FREE_PAGE
      BY <1>1 DEF UsedInv, LatePcs, BootInv
    <2>4. /\ \A p \in LoadedPages : p \in Pfns /\ milo_memory_map[p] = ALLOCATED_PAGE
          /\ \A i, j \in 1 .. Len(page_tables) : page_tables[i] = page_tables[j] => i = j
          /\ TablePages \cap (KernelPages \cup RamdiskHolds \cup FixedPages \cup MilosPages
                              \cup {KernelStart}) = {}
          /\ \A b \in live : BlockPages(b) \cap TablePages = {}
      BY <1>1 DEF LateInv, LatePcs, BootInv
    <2>5. ExtentPages(new) = {pfn}
      BY <2>2 DEF ExtentPages, Extent
    <2>6. new \notin handed
      BY <2>2, <2>3, <2>5
    <2>7. page_tables' = Append(page_tables, pfn)
      <3>1. (CHOOSE e \in handed' : e \notin handed) = new
        BY <2>2, <2>6
      <3>2. page_tables' = Append(page_tables, (CHOOSE e \in handed' : e \notin handed).pfn)
        BY <1>1, <2>2, Zenon
      <3>3. page_tables' = Append(page_tables, new.pfn)
        BY <3>1, <3>2, Zenon
      <3> QED BY <3>3
    <2>8. /\ Len(page_tables') = Len(page_tables) + 1 /\ Len(page_tables) \in Nat
          /\ page_tables' \in Seq(Pfns)
          /\ \A i \in 1 .. Len(page_tables) : page_tables'[i] = page_tables[i]
          /\ page_tables'[Len(page_tables) + 1] = pfn
      BY <1>2, <2>7
    <2>9. TablePages' = TablePages \cup {pfn} /\ LoadedPages' = LoadedPages \cup {pfn}
      <3>1. TablePages' = TablePages \cup {pfn}
        BY <2>8 DEF TablePages
      <3> QED BY <1>4, <3>1 DEF LoadedPages
    <2>10. FixedInv'
      BY <1>2, <2>2 DEF FixedInv
    <2>11. MilosPages' = MilosPages
      BY <2>2 DEF MilosPages, MapAt
    <2>12. \A p \in Pfns : milo_memory_map[p] # FREE_PAGE => milo_memory_map'[p] = milo_memory_map[p]
      BY <2>2
    <2>13. UsedInv'
      <3>1. \A e \in handed' : \A p \in ExtentPages(e) : p \in Pfns /\ milo_memory_map'[p] # FREE_PAGE
        <4> TAKE e \in handed'
        <4>1. CASE e = new
          BY <4>1, <2>2, <2>5 DEF ALLOCATED_PAGE, FREE_PAGE
        <4>2. CASE e \in handed
          BY <4>2, <2>3, <2>12
        <4> QED BY <4>1, <4>2, <2>2
      <3>2. \A p \in MilosPages : p \in Pfns /\ milo_memory_map'[p] # FREE_PAGE
        BY <2>3, <2>12
      <3>3. \A b \in live : \A p \in BlockPages(b) : p \in Pfns /\ milo_memory_map'[p] # FREE_PAGE
        BY <2>3, <2>12
      <3> QED BY <3>1, <3>2, <3>3, <2>2, <2>11 DEF UsedInv
    <2>14. pfn \notin LoadedPages \cup MilosPages \cup FixedPages
      BY <1>2, <2>2, <2>3, <2>4 DEF FixedInv, ALLOCATED_PAGE, FREE_PAGE
    <2>15. LateInv'
      <3>1. \A p \in LoadedPages' : p \in Pfns /\ milo_memory_map'[p] = ALLOCATED_PAGE
        BY <2>2, <2>4, <2>9
      <3>2. TablePages' \cap (KernelPages \cup RamdiskHolds \cup FixedPages \cup MilosPages
                              \cup {KernelStart}) = {}
        BY <2>4, <2>9, <2>14 DEF LoadedPages
      <3>3. \A b \in live : BlockPages(b) \cap TablePages' = {}
        BY <2>2, <2>3, <2>4, <2>9
      <3>4. \A i, j \in 1 .. Len(page_tables') : page_tables'[i] = page_tables'[j] => i = j
        <4>1. \A i \in 1 .. Len(page_tables) : page_tables'[i] # pfn
          BY <2>8, <2>14 DEF LoadedPages, TablePages
        <4> QED BY <2>4, <2>8, <4>1
      <3> QED BY <1>1, <1>2, <1>4, <2>2, <2>8, <2>11, <3>1, <3>2, <3>3, <3>4 DEF LateInv
    <2> QED BY <1>1, <1>2, <1>3, <1>4, <2>2, <2>10, <2>13, <2>15, LateStep
  <1> QED BY <1>5, <1>6

\* build_HWRPB_mem_map frees pages that are TEMPORARY, and what Linux keeps is
\* ALLOCATED.
LEMMA BuildMemMapStep ==
    ASSUME BootConditions, BootInv, BuildMemMap
    PROVE  BootInv'
  <1>1. /\ pc = "clusters" /\ pc' = "linux"
        /\ milo_memory_map' = [p \in Pfns |-> IF p <= lastpfn /\ milo_memory_map[p] = TEMPORARY_PAGE
                                              THEN FREE_PAGE ELSE milo_memory_map[p]]
        /\ UNCHANGED <<map_pages, lastpfn, temp_memory_ptr, free_cache, halted, live, handed,
                       kernel, ramdisk, page_tables>>
    BY DEF BuildMemMap, At, Goto
  <1>2. TypeOK /\ FixedInv /\ LateInv /\ RamdiskInv
    BY DEF BootInv
  <1>3. \A p \in Pfns : milo_memory_map[p] = ALLOCATED_PAGE => milo_memory_map'[p] = ALLOCATED_PAGE
    BY <1>1 DEF ALLOCATED_PAGE, TEMPORARY_PAGE
  <1>4. /\ KernelPages' = KernelPages /\ TablePages' = TablePages /\ RamdiskHolds' = RamdiskHolds
        /\ MilosPages' = MilosPages /\ LoadedPages' = LoadedPages
    BY <1>1 DEF KernelPages, TablePages, MilosPages, RamdiskHolds, LoadedPages, MapAt
  <1>5. FixedInv'
    BY <1>2, <1>3 DEF FixedInv
  <1>6. LateInv'
    BY <1>1, <1>2, <1>3, <1>4 DEF LateInv, LatePcs
  <1>7. UsedInv'
    BY <1>1 DEF UsedInv
  <1>8. TypeOK'
    BY <1>1, <1>2 DEF TypeOK, Maps, PageTypes
  <1>9. RamdiskInv'
    BY <1>1, <1>2 DEF RamdiskInv
  <1> QED BY <1>1, <1>5, <1>6, <1>7, <1>8, <1>9, LateStep DEF LatePcs

\* Every step of the boot command keeps the invariant.
LEMMA NextBoot ==
    ASSUME BootConditions
    PROVE  BootInv /\ [BootNext]_allvars => BootInv'
  <1> SUFFICES ASSUME BootInv, [BootNext]_allvars PROVE BootInv'
    OBVIOUS
  <1>1. CASE UNCHANGED allvars
    <2>1. UNCHANGED <<milo_memory_map, map_pages, lastpfn, temp_memory_ptr, free_cache, halted,
                      live, handed, pc, kernel, ramdisk, page_tables>>
      BY <1>1 DEF allvars, vars, bootvars
    <2>2. TypeOK' /\ FixedInv' /\ KernelInv' /\ RamdiskInv'
      BY <2>1 DEF BootInv, TypeOK, FixedInv, KernelInv, RamdiskInv
    <2>3. EarlyInv'
      <3>1. pc \in EarlyPcs => AllocatorInv'
        BY <2>1, <2>2, FewerBlocksInv DEF BootInv, EarlyInv
      <3> QED BY <2>1, <3>1 DEF BootInv, EarlyInv
    <2>4. /\ KernelPages' = KernelPages /\ TablePages' = TablePages /\ RamdiskHolds' = RamdiskHolds
          /\ MilosPages' = MilosPages /\ LoadedPages' = LoadedPages
      BY <2>1 DEF KernelPages, TablePages, MilosPages, RamdiskHolds, LoadedPages, MapAt
    <2>5. LateInv' /\ UsedInv'
      BY <2>1, <2>4 DEF BootInv, LateInv, UsedInv
    <2> QED BY <2>1, <2>2, <2>3, <2>5 DEF BootInv
  <1>2. CASE BootNext
    BY <1>2, EarlyNext, MarkKernelStep, LoadRamdiskStep, AddVAStep, BuildMemMapStep DEF BootNext
  <1> QED BY <1>1, <1>2

(***************************************************************************)
(* The invariant of the boot command, from the prompt to the jump, for     *)
(* every layout, image and ramdisk that satisfies BootConditions.          *)
(***************************************************************************)
THEOREM BootCorrect ==
    ASSUME BootConditions
    PROVE  BootSpec => []BootInv
  <1>1. BootInit => BootInv
    BY InitBoot DEF BootConditions
  <1>2. BootInv /\ [BootNext]_allvars => BootInv'
    BY NextBoot
  <1> QED BY <1>1, <1>2, PTL DEF BootSpec

(***************************************************************************)
(* When the boot command jumps, the HWRPB, the PALcode, the image, the     *)
(* page tables and the ramdisk are all outside the pages Linux is told are *)
(* free.                                                                   *)
(***************************************************************************)
THEOREM HandOverIsComplete ==
    ASSUME BootConditions
    PROVE  BootSpec => []LinuxKeepsWhatItNeeds
  <1>1. BootInv => LinuxKeepsWhatItNeeds
    <2> SUFFICES ASSUME BootInv, pc = "linux",
                        NEW p \in {0, KernelStart} \cup Palcode \cup KernelPages
                                  \cup TablePages \cup RamdiskHolds
                 PROVE  milo_memory_map[p] # FREE_PAGE
      BY DEF LinuxKeepsWhatItNeeds
    <2>1. p \in FixedPages \cup LoadedPages
      BY DEF FixedPages, LoadedPages
    <2>2. milo_memory_map[p] = ALLOCATED_PAGE
      BY <2>1 DEF BootInv, FixedInv, LateInv, LatePcs
    <2> QED BY <2>2 DEF ALLOCATED_PAGE, FREE_PAGE
  <1> QED BY <1>1, BootCorrect, PTL

(***************************************************************************)
(* The page tables add_VA builds are two pages, and neither is the image's,*)
(* the ramdisk's, one MILO runs from or one somebody holds a block in.     *)
(***************************************************************************)
THEOREM TablesLandOnFreePages ==
    ASSUME BootConditions
    PROVE  BootSpec => []TablesHitNothing
  <1>1. BootInv => TablesHitNothing
    <2> SUFFICES ASSUME BootInv PROVE TablesHitNothing
      OBVIOUS
    <2>1. CASE pc \in EarlyPcs
      <3>1. page_tables = <<>> /\ TablePages = {}
        BY <2>1 DEF BootInv, EarlyInv, TablePages
      <3> QED BY <3>1 DEF TablesHitNothing
    <2>2. CASE pc \in LatePcs
      <3>1. LateInv
        BY DEF BootInv
      <3>2. Len(page_tables) = 2 => page_tables[1] # page_tables[2]
        BY <2>2, <3>1 DEF LateInv
      <3>3. TablePages \cap (KernelPages \cup RamdiskHolds \cup Palcode \cup Stub \cup Loader
                             \cup {0, KernelStart} \cup Extent(MapAt, map_pages)) = {}
        BY <2>2, <3>1 DEF LateInv, FixedPages, MilosPages
      <3> QED BY <2>2, <3>1, <3>2, <3>3 DEF LateInv, TablesHitNothing
    <2> QED BY <2>1, <2>2 DEF BootInv
  <1> QED BY <1>1, BootCorrect, PTL

(***************************************************************************)
(* Neither the image nor the last block read for the ramdisk reaches the   *)
(* loader, which is still running, and the image ends below the ramdisk.   *)
(***************************************************************************)
THEOREM LoadsDoNotCollide ==
    ASSUME BootConditions
    PROVE  BootSpec => []LoadsStayApart
  <1>1. BootInv => LoadsStayApart
    <2> SUFFICES ASSUME BootInv PROVE LoadsStayApart
      OBVIOUS
    <2>1. kernel # NONE => /\ KernelPages \cap Loader = {}
                           /\ kernel.at + kernel.memsize <= KernelAt + MaxKernelSize
                           /\ kernel.at \in Nat /\ kernel.memsize \in Nat
      BY LoadedKernel DEF BootConditions, BootInv, KernelApart
    <2>2. kernel = NONE => KernelPages = {}
      BY DEF KernelPages
    <2>3. ramdisk # NONE => kernel # NONE
      BY DEF BootInv, EarlyInv, LateInv
    <2>4. ASSUME ramdisk # NONE
          PROVE  /\ ramdisk.where + ReadBytes(ramdisk.size) <= LoaderAt
                 /\ kernel.at + kernel.memsize <= ramdisk.where
      <3>1. PICK size \in Ramdisks : ramdisk = [where |-> Where(size), size |-> size]
        BY <2>4 DEF BootInv, RamdiskInv
      <3>2. /\ Where(size) \in Nat /\ KernelAt + MaxKernelSize <= Where(size)
            /\ Where(size) + ReadBytes(size) <= LoaderAt
        BY RamdiskInPlace DEF BootConditions
      <3>3. ramdisk.where = Where(size) /\ ramdisk.size = size
        BY <3>1
      <3>4. KernelAt + MaxKernelSize \in Nat
        BY Starts, BootAssumption, SizeAssumption
      <3>5. kernel.at + kernel.memsize <= ramdisk.where
        <4>1. ramdisk.where \in Nat /\ KernelAt + MaxKernelSize <= ramdisk.where
          BY <3>2, <3>3
        <4> QED BY <2>1, <2>3, <2>4, <3>4, <4>1
      <3> QED BY <3>2, <3>3, <3>5
    <2> QED BY <2>1, <2>2, <2>4 DEF LoadsStayApart
  <1> QED BY <1>1, BootCorrect, PTL

-----------------------------------------------------------------------------
(* The copy loop of load_image_from_device, which tests its limit after it *)
(* has written.                                                            *)

\* The sizes in boot.c and gzip.h: the bytes before the buffer and one block
\* fit in a page, and the buffers of boot_cmd and of the decompressor hold
\* together what the loop may write.
CopyFits ==
    /\ Slack + IobufSize <= PageSize
    /\ Slack + MaxKernelSize + IobufSize <= Gross(MaxKernelSize + Slack) + Gross(InbufSize)

\* A byte position, and addresses in its order.
Position(a) == PageSize * a.pfn + a.off

LEMMA PositionPlus ==
    ASSUME NEW a \in Addresses, NEW n \in Nat
    PROVE  Position(Plus(a, n)) = Position(a) + n /\ Position(a) \in Nat
  <1> DEFINE P == PageSize
             q == (a.off + n) \div P
             r == (a.off + n) % P
  <1>1. P \in Nat \ {0} /\ a.off \in Nat /\ a.pfn \in Nat /\ a.off + n \in Nat
    BY SizeAssumption DEF Addresses
  <1>2. q \in Nat /\ r \in Nat /\ a.off + n = P * q + r
    BY <1>1, DivType, DivEq
  <1>3. Plus(a, n).pfn = a.pfn + q /\ Plus(a, n).off = r
    BY DEF Plus
  <1> HIDE DEF P, q, r
  <1>4. P * (a.pfn + q) = P * a.pfn + P * q /\ P * a.pfn \in Nat /\ P * q \in Nat
    BY <1>1, <1>2
  <1>5. P * (a.pfn + q) + r = P * a.pfn + a.off + n
    BY <1>1, <1>2, <1>4
  <1>6. Position(Plus(a, n)) = P * (a.pfn + q) + r /\ Position(a) = P * a.pfn + a.off
    BY <1>3 DEF Position, P
  <1> QED BY <1>1, <1>4, <1>5, <1>6

LEMMA PositionOrder ==
    ASSUME NEW a \in Addresses, NEW b \in Addresses
    PROVE  AtOrBelow(a, b) <=> Position(a) <= Position(b)
  <1> DEFINE P == PageSize
  <1>1. /\ P \in Nat \ {0} /\ a.pfn \in Nat /\ b.pfn \in Nat
        /\ a.off \in 0 .. (P - 1) /\ b.off \in 0 .. (P - 1)
    BY SizeAssumption DEF Addresses
  <1>2. Position(a) = P * a.pfn + a.off /\ Position(b) = P * b.pfn + b.off
    BY DEF Position
  <1>3. P * a.pfn \in Nat /\ P * b.pfn \in Nat
    BY <1>1
  <1> HIDE DEF P
  <1>4. CASE a.pfn < b.pfn
    <2>1. P * a.pfn + P <= P * b.pfn
      BY <1>1, <1>4, MulMono
    <2> QED BY <1>1, <1>2, <1>3, <1>4, <2>1 DEF AtOrBelow
  <1>5. CASE b.pfn < a.pfn
    <2>1. P * b.pfn + P <= P * a.pfn
      BY <1>1, <1>5, MulMono
    <2> QED BY <1>1, <1>2, <1>3, <1>5, <2>1 DEF AtOrBelow
  <1>6. CASE a.pfn = b.pfn
    BY <1>1, <1>2, <1>3, <1>6 DEF AtOrBelow
  <1> QED BY <1>1, <1>4, <1>5, <1>6

\* Two steps forward against one.
LEMMA PlusTwice ==
    ASSUME NEW a \in Addresses, NEW m \in Nat, NEW n \in Nat, NEW f \in Nat, f <= m + n
    PROVE  AtOrBelow(Plus(a, f), Plus(Plus(a, m), n))
  <1>1. Plus(a, f) \in Addresses /\ Plus(a, m) \in Addresses /\ Plus(Plus(a, m), n) \in Addresses
    BY PlusType
  <1>2. /\ Position(Plus(a, f)) = Position(a) + f /\ Position(a) \in Nat
        /\ Position(Plus(a, m)) = Position(a) + m
        /\ Position(Plus(Plus(a, m), n)) = Position(Plus(a, m)) + n
    BY <1>1, PositionPlus
  <1>3. Position(Plus(a, f)) <= Position(Plus(Plus(a, m), n))
    BY <1>2
  <1> QED BY <1>1, <1>3, PositionOrder

\* A shorter way, and the order is one.
LEMMA PlusLess ==
    ASSUME NEW a \in Addresses, NEW m \in Nat, NEW n \in Nat, m <= n
    PROVE  /\ AtOrBelow(Plus(a, m), Plus(a, n))
           /\ PagesSpanned(a, Plus(a, m)) \subseteq PagesSpanned(a, Plus(a, n))
  <1>1. Plus(a, m) \in Addresses /\ Plus(a, n) \in Addresses
    BY PlusType
  <1>2. Position(Plus(a, m)) <= Position(Plus(a, n))
    BY PositionPlus
  <1>3. AtOrBelow(Plus(a, m), Plus(a, n))
    BY <1>1, <1>2, PositionOrder
  <1> DEFINE x == Plus(a, m)
             y == Plus(a, n)
  <1>4. x \in Addresses /\ y \in Addresses /\ AtOrBelow(x, y)
    BY <1>1, <1>3
  <1> HIDE DEF x, y
  <1>5. PagesSpanned(a, x) \subseteq PagesSpanned(a, y)
    BY <1>4, SizeAssumption DEF PagesSpanned, AtOrBelow, Addresses
  <1> QED BY <1>3, <1>5 DEF x, y

LEMMA OrderTransitive ==
    ASSUME NEW a \in Addresses, NEW b \in Addresses, NEW c \in Addresses,
           AtOrBelow(a, b), AtOrBelow(b, c)
    PROVE  AtOrBelow(a, c)
  BY SizeAssumption DEF AtOrBelow, Addresses

-----------------------------------------------------------------------------
\* Where a block that kmalloc does hand out comes from: the page the pointer
\* is in, that page and the next, or fresh ones; S are those it takes.
EndOf(start, size) == Plus(start, Gross(size))
InPage(start, S, size) ==
    /\ temp_memory_ptr # NULL /\ start = temp_memory_ptr
    /\ S = {} /\ EndOf(start, size).pfn = start.pfn
IntoNext(start, S, size) ==
    /\ temp_memory_ptr # NULL /\ start = temp_memory_ptr
    /\ S = (start.pfn + 1) .. (start.pfn + PagesFor(Gross(size)))
    /\ EndOf(start, size).pfn \in S
OnFresh(start, S, size) ==
    /\ start.off = 0 /\ S = start.pfn .. (start.pfn + PagesFor(Gross(size)) - 1)
    /\ EndOf(start, size).pfn \in S

Placement(start, S, size) ==
    /\ start \in Addresses /\ EndOf(start, size) \in Addresses
    /\ AtOrBelow(start, EndOf(start, size))
    /\ S \in SUBSET (0 .. lastpfn) /\ AllFree(milo_memory_map, S)
    /\ milo_memory_map' = MarkPages(milo_memory_map, S, TEMPORARY_PAGE)
    /\ Carve(start, size)
    /\ InPage(start, S, size) \/ IntoNext(start, S, size) \/ OnFresh(start, S, size)

LEMMA KmallocPlaces ==
    ASSUME FreeIsEmpty, AllocatorInv, NEW size \in Nat, Gross(size) % PageSize # 0,
           Kmalloc(size), ~halted'
    PROVE  \E start : \E S : Placement(start, S, size)
  <1>0. TypeOK /\ Gross(size) \in Nat \ {0} /\ PagesFor(Gross(size)) \in Nat
    BY GrossType DEF AllocatorInv
  <1>1. CASE CarveInPage(size)
    <2>1. /\ temp_memory_ptr # NULL /\ temp_memory_ptr \in Addresses
          /\ EndOf(temp_memory_ptr, size).pfn = temp_memory_ptr.pfn
          /\ Carve(temp_memory_ptr, size)
      BY <1>0, <1>1 DEF CarveInPage, RoomInPage, EndOf, TypeOK
    <2>2. milo_memory_map' = MarkPages(milo_memory_map, {}, TEMPORARY_PAGE)
      BY <1>0, <1>1 DEF CarveInPage, MarkPages, TypeOK, Maps
    <2>3. EndOf(temp_memory_ptr, size) \in Addresses
          /\ AtOrBelow(temp_memory_ptr, EndOf(temp_memory_ptr, size))
      BY <1>0, <2>1, SpanInPage, PlusType DEF EndOf
    <2>4. InPage(temp_memory_ptr, {}, size) /\ AllFree(milo_memory_map, {})
      BY <2>1 DEF InPage, AllFree
    <2> QED BY <2>1, <2>2, <2>3, <2>4 DEF Placement
  <1>2. CASE CarveAcrossPages(size) /\ Representable(size)
    <2> DEFINE S == PagesAfter(size)
               n == PagesFor(Gross(size))
    <2>1. /\ temp_memory_ptr # NULL /\ temp_memory_ptr \in Addresses
          /\ temp_memory_ptr.pfn \in Nat
          /\ EndOf(temp_memory_ptr, size).pfn # temp_memory_ptr.pfn
          /\ Carve(temp_memory_ptr, size) /\ AllFree(milo_memory_map, S)
          /\ milo_memory_map' = MarkPages(milo_memory_map, S, TEMPORARY_PAGE)
      BY <1>0, <1>2 DEF CarveAcrossPages, RoomAfterPage, RoomInPage, EndOf, TypeOK, Addresses
    <2>2. S = (temp_memory_ptr.pfn + 1) .. (temp_memory_ptr.pfn + n)
      BY <1>0, <2>1 DEF PagesAfter, Extent
    <2>3. /\ EndOf(temp_memory_ptr, size) \in Addresses
          /\ AtOrBelow(temp_memory_ptr, EndOf(temp_memory_ptr, size))
          /\ EndOf(temp_memory_ptr, size).pfn \in S
      BY <1>0, <2>1, <2>2, SpanAcross, PlusType DEF EndOf
    <2>4. S \in SUBSET (0 .. lastpfn)
      <3>1. \A p \in S : p \in Pfns /\ milo_memory_map[p] = FREE_PAGE
        BY <1>0, <1>2, <2>1, <2>2, MapAssumption DEF Representable, AllFree, Pfns
      <3> QED BY <3>1, <1>0 DEF AllocatorInv, TopRespected, TypeOK, Pfns
    <2>5. IntoNext(temp_memory_ptr, S, size)
      BY <2>1, <2>2, <2>3 DEF IntoNext
    <2> HIDE DEF S
    <2> QED BY <2>1, <2>3, <2>4, <2>5 DEF Placement
  <1>3. CASE CarveFresh(size)
    <2> DEFINE n == PagesFor(Gross(size))
    <2>1. PICK pfn \in Pfns :
              /\ IsFirstFit(pfn, milo_memory_map, lastpfn, n)
              /\ milo_memory_map' = MarkMany(milo_memory_map, pfn, n, TEMPORARY_PAGE)
              /\ Carve([pfn |-> pfn, off |-> 0], size)
      BY <1>3 DEF CarveFresh
    <2> DEFINE start == [pfn |-> pfn, off |-> 0]
               S == Extent(pfn, n)
    <2>2. start \in Addresses /\ pfn \in Nat /\ n \in Nat
      BY <1>0, SizeAssumption DEF Addresses, Pfns
    <2>3. /\ EndOf(start, size).pfn \in S /\ AtOrBelow(start, EndOf(start, size))
          /\ EndOf(start, size) \in Addresses
      BY <1>0, <2>2, SpanFresh, PlusType DEF EndOf
    <2>4. S \in SUBSET (0 .. lastpfn) /\ AllFree(milo_memory_map, S)
      BY <1>0, <2>1, <2>2 DEF IsFirstFit, Candidates, Fits, Extent, TypeOK, Pfns
    <2>5. milo_memory_map' = MarkPages(milo_memory_map, S, TEMPORARY_PAGE)
      BY <2>1 DEF MarkMany
    <2>6. OnFresh(start, S, size)
      BY <2>2, <2>3 DEF OnFresh, Extent
    <2>7. Carve(start, size)
      BY <2>1
    <2> HIDE DEF start, S
    <2> QED BY <2>2, <2>3, <2>4, <2>5, <2>6, <2>7 DEF Placement
  <1>4. ~CarveNothing(size)
    BY DEF CarveNothing, error
  <1> QED BY <1>1, <1>2, <1>3, <1>4 DEF Kmalloc, FreeIsEmpty

\* The block is a new one, and CHOOSE finds it.
NewBlock(start, size) == [at |-> start, end |-> EndOf(start, size), size |-> Rounded(size)]

LEMMA OldBlocksElsewhere ==
    ASSUME AllocatorInv, NEW size \in Nat, NEW start, NEW S, Placement(start, S, size),
           NEW b \in Held
    PROVE  \/ AtOrBelow(b.end, start)
           \/ /\ EndOf(start, size).pfn < b.at.pfn
              /\ \A p \in S : p < b.at.pfn
  <1>1. TypeOK /\ b \in Blocks
    BY HeldType DEF AllocatorInv
  <1>2. /\ start \in Addresses /\ start.pfn \in Nat /\ EndOf(start, size).pfn \in Nat
        /\ b.at.pfn \in Nat /\ b.end \in Addresses /\ lastpfn \in Nat
        /\ PagesFor(Gross(size)) \in Nat
    BY <1>1, GrossType, MapAssumption DEF Placement, Addresses, Blocks, TypeOK, Pfns
  <1>3. S \cap BlockPages(b) = {} /\ b.at.pfn \in BlockPages(b)
    BY FreePagesUnowned DEF Placement, AllocatorInv, BlocksWellFormed
  <1>4. temp_memory_ptr # NULL => AtOrBelow(b.end, temp_memory_ptr) \/ temp_memory_ptr.pfn < b.at.pfn
    BY DEF AllocatorInv, PointerOwned
  <1>5. CASE InPage(start, S, size)
    BY <1>4, <1>5 DEF InPage
  <1>6. CASE IntoNext(start, S, size)
    BY <1>2, <1>3, <1>4, <1>6 DEF IntoNext
  <1>7. CASE OnFresh(start, S, size)
    <2> DEFINE lo == start.pfn
               hi == start.pfn + PagesFor(Gross(size)) - 1
    <2>1. /\ S = lo .. hi /\ lo \in Nat /\ EndOf(start, size).pfn \in lo .. hi
          /\ hi \in Nat /\ lo <= hi
      BY <1>2, <1>7 DEF OnFresh
    <2> HIDE DEF lo, hi
    <2>2. (b.end.pfn < lo \/ (b.end.pfn = lo /\ b.end.off = 0)) \/ hi < b.at.pfn
      BY <2>1, FreeIntervalBetween DEF Placement
    <2>3. CASE hi < b.at.pfn
      BY <1>2, <2>1, <2>3
    <2>4. CASE b.end.pfn < lo \/ (b.end.pfn = lo /\ b.end.off = 0)
      BY <1>2, <1>7, <2>4 DEF AtOrBelow, OnFresh, lo
    <2> QED BY <2>2, <2>3, <2>4
  <1> QED BY <1>5, <1>6, <1>7 DEF Placement

LEMMA BlockIsNew ==
    ASSUME AllocatorInv, NEW size \in Nat, NEW start, NEW S, Placement(start, S, size)
    PROVE  /\ live' = live \cup {NewBlock(start, size)} /\ NewBlock(start, size) \notin live
           /\ (CHOOSE b \in live' : b \notin live) = NewBlock(start, size)
           /\ temp_memory_ptr' = EndOf(start, size)
           /\ UNCHANGED <<map_pages, lastpfn, handed, halted>>
  <1>1. /\ live' = live \cup {NewBlock(start, size)}
        /\ temp_memory_ptr' = EndOf(start, size)
        /\ UNCHANGED <<map_pages, lastpfn, handed, halted>>
    BY DEF Placement, Carve, NewBlock, EndOf
  <1>2. NewBlock(start, size) \notin live
    <2> SUFFICES ASSUME NewBlock(start, size) \in live PROVE FALSE
      OBVIOUS
    <2> DEFINE e == EndOf(start, size)
    <2>1. /\ AtOrBelow(e, start)
          \/ e.pfn < start.pfn
      <3>1. NewBlock(start, size) \in Held /\ NewBlock(start, size).at = start
            /\ NewBlock(start, size).end = e
        BY DEF Held, NewBlock
      <3> QED BY <3>1, OldBlocksElsewhere
    <2>2. start \in Addresses /\ e \in Addresses /\ Gross(size) \in Nat \ {0}
      BY GrossType DEF Placement
    <2>3. Position(e) = Position(start) + Gross(size) /\ Position(start) \in Nat
      BY <2>2, PositionPlus DEF EndOf
    <2> HIDE DEF e
    <2>4. AtOrBelow(e, start)
      BY <2>1 DEF AtOrBelow
    <2> QED BY <2>2, <2>3, <2>4, PositionOrder
  <1>3. (CHOOSE b \in live' : b \notin live) = NewBlock(start, size)
    BY <1>1, <1>2
  <1> QED BY <1>1, <1>2, <1>3

-----------------------------------------------------------------------------
\* What the copy may reach: up to Far.
CopySize == Slack + MaxKernelSize + IobufSize
FarFrom(start) == Plus(start, CopySize)

LEMMA CopySizes ==
    /\ MaxKernelSize + Slack \in Nat /\ Slack \in Nat /\ IobufSize \in Nat /\ InbufSize \in Nat
    /\ CopySize \in Nat /\ MaxKernelSize \in Nat /\ PageSize \in Nat \ {0} /\ WindowSize \in Nat
    /\ MaxKernelSize + Slack < Gross(MaxKernelSize + Slack) /\ Gross(MaxKernelSize + Slack) \in Nat
    /\ \E k \in Nat \ {0} : MaxKernelSize = PageSize * k
  <1>1. /\ {MaxKernelSize, Slack, InbufSize, WindowSize} \subseteq Nat
        /\ IobufSize \in 1 .. PageSize /\ PageSize \in Nat \ {0}
    BY BootAssumption, SizeAssumption
  <1>2. Cardinality(Kernel) \in Nat /\ MaxKernelSize = Cardinality(Kernel) * PageSize
        /\ Cardinality(Kernel) # 0
    <2>1. Cardinality(Kernel) \in Nat /\ MaxKernelSize = Cardinality(Kernel) * PageSize
          /\ KernelStart \in Kernel
      BY Starts
    <2>2. IsFiniteSet(Kernel)
      <3>1. IsFiniteSet(1 .. (MinPages - 1))
        BY LayoutAssumption, FS_Interval
      <3> QED BY <3>1, LayoutAssumption, FS_Subset
    <2> QED BY <2>1, <2>2, FS_EmptySet
  <1>3. MaxKernelSize + Slack < Gross(MaxKernelSize + Slack) /\ Gross(MaxKernelSize + Slack) \in Nat
    <2>1. MaxKernelSize + Slack \in Nat
      BY <1>1
    <2> DEFINE s == MaxKernelSize + Slack
    <2>2. s \in Nat /\ s % WordSize \in 0 .. (WordSize - 1) /\ WordSize \in Nat \ {0}
          /\ GuardBytes \in Nat /\ HeaderSize \in Nat
      BY <2>1, SizeAssumption, DivType DEF HeaderSize
    <2>3. Gross(s) = s + (WordSize - (s % WordSize)) + GuardBytes + HeaderSize
      BY DEF Gross, Rounded
    <2> HIDE DEF s
    <2>4. s < Gross(s) /\ Gross(s) \in Nat
      BY <2>2, <2>3
    <2> QED BY <2>4 DEF s
  <1>4. CopySize \in Nat
    BY <1>1 DEF CopySize
  <1>5. \E k \in Nat \ {0} : MaxKernelSize = PageSize * k
    <2>1. MaxKernelSize = PageSize * Cardinality(Kernel)
      BY <1>1, <1>2
    <2> QED BY <1>2, <2>1
  <1> QED BY <1>1, <1>3, <1>4, <1>5

\* The kernel's buffer is longer than a page; its pages, and the last one of
\* those kmalloc took for it, hold all the copy may reach.
LEMMA BufferPages ==
    ASSUME CopyFits, NEW start, NEW S, Placement(start, S, MaxKernelSize + Slack)
    PROVE  LET far == FarFrom(start)
           IN  /\ far \in Addresses
               /\ \/ /\ IntoNext(start, S, MaxKernelSize + Slack) /\ far.pfn \in S \cup {start.pfn}
                  \/ /\ OnFresh(start, S, MaxKernelSize + Slack)
                     /\ far.pfn \in S \/ (far.off = 0 /\ far.pfn - 1 \in S)
               /\ start.pfn <= far.pfn
               /\ start.pfn \in PagesSpanned(start, far)
  <1> DEFINE P == PageSize
             G == Gross(MaxKernelSize + Slack)
             n == PagesFor(G)
             d == (start.off + CopySize) \div P
             r == (start.off + CopySize) % P
             far == FarFrom(start)
  <1>1. /\ P \in Nat \ {0} /\ G \in Nat /\ MaxKernelSize \in Nat /\ MaxKernelSize < G
        /\ CopySize \in Nat /\ Slack + IobufSize \in Nat /\ Slack + IobufSize <= P
        /\ CopySize = MaxKernelSize + (Slack + IobufSize)
        /\ start \in Addresses /\ start.pfn \in Nat /\ start.off \in 0 .. (P - 1)
    BY CopySizes DEF CopyFits, Placement, Addresses, CopySize
  <1>2. PICK k \in Nat \ {0} : MaxKernelSize = P * k
    BY CopySizes
  <1>3. n \in Nat /\ k < n
    <2>1. n \in Nat /\ G <= P * n
      BY <1>1, CeilLeast DEF PagesFor
    <2>2. CASE n < k
      <3>1. P * n + P <= P * k
        BY <1>1, <2>1, <2>2, MulMono
      <3> HIDE DEF n, G, P
      <3>2. P * n \in Nat
        BY <1>1, <2>1
      <3> QED BY <1>1, <1>2, <2>1, <3>1, <3>2
    <2>3. n # k
      BY <1>1, <1>2, <2>1
    <2> QED BY <2>1, <2>2, <2>3
  <1>4. d \in Nat /\ r \in 0 .. (P - 1) /\ start.off + CopySize = P * d + r
    <2>1. start.off + CopySize \in Nat
      BY <1>1
    <2> QED BY <1>1, <2>1, DivType, DivEq
  <1>5. far.pfn = start.pfn + d /\ far.off = r /\ far \in Addresses
    BY <1>1, <1>4, PlusType DEF FarFrom, Plus
  <1>6. EndOf(start, MaxKernelSize + Slack).pfn # start.pfn
    <2> DEFINE e == (start.off + G) \div P
    <2>1. start.off + G \in Nat /\ P * 1 <= start.off + G
      <3>1. P * k = P + P * (k - 1) /\ P * (k - 1) \in Nat
        BY <1>1
      <3> HIDE DEF P, G
      <3> QED BY <1>1, <1>2, <3>1
    <2>2. e \in Nat /\ 1 <= e
      BY <1>1, <2>1, DivType, FloorGreatest
    <2>3. EndOf(start, MaxKernelSize + Slack).pfn = start.pfn + e
      BY DEF EndOf, Plus
    <2> HIDE DEF e
    <2> QED BY <1>1, <2>2, <2>3
  <1> HIDE DEF P, G, n, d, r, far
  <1>7. d <= k + 1
    <2>1. CASE k + 1 < d
      <3>1. P * (k + 1) + P <= P * d
        BY <1>1, <1>4, <2>1, MulMono
      <3>2. P * (k + 1) = P * k + P /\ P * k \in Nat /\ P * d \in Nat
        BY <1>1, <1>4
      <3> QED BY <1>1, <1>2, <1>4, <3>1, <3>2
    <2> QED BY <1>4, <2>1
  <1>8. start.off = 0 => d <= k \/ (d = k + 1 /\ r = 0)
    <2> SUFFICES ASSUME start.off = 0, d = k + 1 PROVE r = 0
      BY <1>4, <1>7
    <2>1. P * (k + 1) = P * k + P /\ P * k \in Nat
      BY <1>1
    <2> QED BY <1>1, <1>2, <1>4, <2>1
  <1>9. start.pfn <= far.pfn /\ start.pfn \in PagesSpanned(start, far)
    <2>1. 1 <= d
      <3>1. CASE d = 0
        <4>1. P * d = 0 /\ P * k = P + P * (k - 1) /\ P * (k - 1) \in Nat
          BY <1>1, <3>1
        <4> QED BY <1>1, <1>2, <1>4, <4>1
      <3> QED BY <1>4, <3>1
    <2> QED BY <1>1, <1>4, <1>5, <2>1 DEF PagesSpanned
  <1>10. CASE IntoNext(start, S, MaxKernelSize + Slack)
    <2>1. S = (start.pfn + 1) .. (start.pfn + n)
      BY <1>10 DEF IntoNext, n, G
    <2>2. far.pfn \in S \cup {start.pfn}
      <3>1. d = 0 \/ d \in 1 .. n
        BY <1>3, <1>4, <1>7
      <3>2. far.pfn = start.pfn + d /\ start.pfn \in Nat
        BY <1>1, <1>5
      <3> QED BY <1>3, <1>4, <2>1, <3>1, <3>2
    <2> QED BY <1>5, <1>9, <1>10, <2>2 DEF far
  <1>11. CASE OnFresh(start, S, MaxKernelSize + Slack)
    <2>1. S = start.pfn .. (start.pfn + n - 1) /\ start.off = 0
      BY <1>11 DEF OnFresh, n, G
    <2>2. far.pfn \in S \/ (far.off = 0 /\ far.pfn - 1 \in S)
      BY <1>1, <1>3, <1>4, <1>5, <1>8, <2>1
    <2> QED BY <1>5, <1>9, <1>11, <2>2 DEF far
  <1>12. ~InPage(start, S, MaxKernelSize + Slack)
    BY <1>6 DEF InPage
  <1> QED BY <1>10, <1>11, <1>12 DEF Placement

-----------------------------------------------------------------------------
\* The pages the copy may reach from a buffer at `at`, the blocks out of its
\* way, and kmalloc's pointer out of its way.
ReachOf(at) == PagesSpanned(at, FarFrom(at))
ClearOf(at, b) == AtOrBelow(FarFrom(at), b.at) \/ AtOrBelow(b.end, at)
Away(at, ptr) == AtOrBelow(FarFrom(at), ptr) \/ ptr.pfn < at.pfn

PointerTemporary ==
    pc \in EarlyPcs /\ temp_memory_ptr # NULL =>
        milo_memory_map[temp_memory_ptr.pfn] = TEMPORARY_PAGE

BufferPcs == {"inbuf", "window", "plain", "unzip", "unzipped", "copy", "header"}

(***************************************************************************)
(* While the kernel is read: the pages in reach of the copy are kmalloc's, *)
(* and no block but the decompressor's first buffer is or will be placed   *)
(* there.                                                                  *)
(***************************************************************************)
BufferInv ==
    buffer # NONE =>
        /\ pc \in BufferPcs /\ buffer \in live
        /\ buffer.at.pfn \in ReachOf(buffer.at)
        /\ \A p \in ReachOf(buffer.at) :
              /\ p \in 0 .. lastpfn /\ milo_memory_map[p] = TEMPORARY_PAGE
              /\ p \notin Reserved /\ \A e \in handed : p \notin ExtentPages(e)
        /\ buffer.end = Plus(buffer.at, Gross(MaxKernelSize + Slack))
        /\ written \in Nat
        /\ ~Zipped => written <= MaxKernelSize + IobufSize
        /\ ~Zipped /\ pc # "header" => written <= MaxKernelSize
        /\ pc = "inbuf" =>
              /\ \A b \in live \ {buffer} : ClearOf(buffer.at, b)
              /\ ~halted => /\ temp_memory_ptr # NULL
                            /\ temp_memory_ptr = Plus(buffer.at, Gross(MaxKernelSize + Slack))
        /\ pc # "inbuf" =>
              /\ \A b \in live \ {buffer, inbuf} : ClearOf(buffer.at, b)
              /\ ~halted => temp_memory_ptr # NULL /\ Away(buffer.at, temp_memory_ptr)

CopyInv == PointerTemporary /\ BufferInv

\* The buffer's own allocation.
LEMMA BufferPlaced ==
    ASSUME CopyFits, AllocatorInv, NEW start, NEW S, Placement(start, S, MaxKernelSize + Slack),
           temp_memory_ptr # NULL => milo_memory_map[temp_memory_ptr.pfn] = TEMPORARY_PAGE
    PROVE  /\ start.pfn \in ReachOf(start)
           /\ \A p \in ReachOf(start) :
                 /\ p \in 0 .. lastpfn /\ milo_memory_map'[p] = TEMPORARY_PAGE
                 /\ p \notin Reserved /\ \A e \in handed : p \notin ExtentPages(e)
           /\ \A b \in live : ClearOf(start, b)
  <1> DEFINE size == MaxKernelSize + Slack
             far == FarFrom(start)
             n == PagesFor(Gross(size))
  <1>1. /\ far \in Addresses
        /\ \/ IntoNext(start, S, size) /\ far.pfn \in S \cup {start.pfn}
           \/ OnFresh(start, S, size) /\ (far.pfn \in S \/ (far.off = 0 /\ far.pfn - 1 \in S))
        /\ start.pfn <= far.pfn /\ start.pfn \in PagesSpanned(start, far)
    BY BufferPages
  <1>2. /\ size \in Nat /\ n \in Nat /\ TypeOK
        /\ start \in Addresses /\ start.pfn \in Nat
        /\ far.pfn \in Nat /\ far.off \in Nat
        /\ S \in SUBSET (0 .. lastpfn) /\ AllFree(milo_memory_map, S)
        /\ milo_memory_map' = MarkPages(milo_memory_map, S, TEMPORARY_PAGE)
        /\ milo_memory_map \in Maps /\ lastpfn \in Nat /\ 0 .. lastpfn \subseteq Pfns
    <2>1. size \in Nat /\ TypeOK
      BY CopySizes DEF AllocatorInv
    <2>2. n \in Nat
      BY <2>1, GrossType
    <2>3. milo_memory_map \in Maps /\ lastpfn \in Nat /\ 0 .. lastpfn \subseteq Pfns
      BY <2>1, MapAssumption DEF TypeOK, Pfns
    <2> HIDE DEF size, far, n
    <2>4. start \in Addresses /\ start.pfn \in Nat /\ far.pfn \in Nat /\ far.off \in Nat
      BY <1>1 DEF Placement, Addresses
    <2> QED BY <2>1, <2>2, <2>3, <2>4 DEF Placement
  <1> HIDE DEF size, far, n
  <1>3. \A p \in PagesSpanned(start, far) :
            p \in S \/ (temp_memory_ptr # NULL /\ p = temp_memory_ptr.pfn)
    <2>1. CASE IntoNext(start, S, size) /\ far.pfn \in S \cup {start.pfn}
      <3>1. /\ S = (start.pfn + 1) .. (start.pfn + n)
            /\ temp_memory_ptr # NULL /\ start = temp_memory_ptr
        BY <2>1 DEF IntoNext, n
      <3>2. PagesSpanned(start, far) \subseteq start.pfn .. far.pfn
        BY <1>2 DEF PagesSpanned
      <3>3. start.pfn .. far.pfn \subseteq S \cup {start.pfn}
        BY <1>2, <2>1, <3>1
      <3> QED BY <3>1, <3>2, <3>3
    <2>2. CASE OnFresh(start, S, size) /\ (far.pfn \in S \/ (far.off = 0 /\ far.pfn - 1 \in S))
      <3>1. S = start.pfn .. (start.pfn + n - 1)
        BY <2>2 DEF OnFresh, n
      <3> QED BY <1>2, <2>2, <3>1 DEF PagesSpanned
    <2> QED BY <1>1, <2>1, <2>2
  <1>4. ASSUME NEW p \in PagesSpanned(start, far)
        PROVE  /\ p \in 0 .. lastpfn /\ milo_memory_map'[p] = TEMPORARY_PAGE
               /\ p \notin Reserved /\ \A e \in handed : p \notin ExtentPages(e)
    <2>1. CASE p \in S
      <3>1. S \cap Reserved = {} /\ \A e \in handed : S \cap ExtentPages(e) = {}
        BY <1>2, FreePagesUnowned
      <3>2. milo_memory_map'[p] = TEMPORARY_PAGE
        BY <1>2, <2>1 DEF MarkPages, Maps
      <3> QED BY <1>2, <2>1, <3>1, <3>2
    <2>2. CASE temp_memory_ptr # NULL /\ p = temp_memory_ptr.pfn
      <3>1. /\ p <= lastpfn /\ p \notin Reserved /\ \A e \in handed : p \notin ExtentPages(e)
            /\ milo_memory_map[p] # FREE_PAGE
        BY <2>2 DEF AllocatorInv, PointerOwned
      <3>2. p \in 0 .. lastpfn
        BY <1>2, <2>2, <3>1 DEF TypeOK, Addresses
      <3>3. milo_memory_map'[p] = milo_memory_map[p]
        BY <1>2, <3>1, <3>2, FreeMarkKeeps
      <3> QED BY <2>2, <3>1, <3>2, <3>3
    <2> QED BY <1>3, <2>1, <2>2
  <1>5. ASSUME NEW b \in live PROVE AtOrBelow(far, b.at) \/ AtOrBelow(b.end, start)
    <2>1. b \in Held /\ b.at \in Addresses
      BY <1>2 DEF Held, TypeOK, Blocks
    <2>2. \/ AtOrBelow(b.end, start)
          \/ EndOf(start, size).pfn < b.at.pfn /\ \A p \in S : p < b.at.pfn
      BY <1>2, <2>1, OldBlocksElsewhere DEF size
    <2>3. ASSUME EndOf(start, size).pfn < b.at.pfn, \A p \in S : p < b.at.pfn
          PROVE  AtOrBelow(far, b.at)
      <3>1. b.at.pfn \in Nat /\ b.at.off \in Nat
        BY <2>1 DEF Addresses
      <3>2. CASE far.pfn \in S
        BY <2>3, <3>2 DEF AtOrBelow
      <3>3. CASE IntoNext(start, S, size) /\ far.pfn = start.pfn
        <4>1. EndOf(start, size).pfn \in (start.pfn + 1) .. (start.pfn + n)
          BY <3>3 DEF IntoNext, n
        <4> QED BY <1>2, <2>3, <3>1, <3>3, <4>1 DEF AtOrBelow
      <3>4. CASE far.off = 0 /\ far.pfn - 1 \in S
        <4>1. far.pfn - 1 < b.at.pfn
          BY <2>3, <3>4
        <4> QED BY <1>2, <3>1, <3>4, <4>1 DEF AtOrBelow
      <3> QED BY <1>1, <3>2, <3>3, <3>4 DEF size
    <2> QED BY <2>2, <2>3
  <1>6. ReachOf(start) = PagesSpanned(start, far) /\ \A b : ClearOf(start, b) <=> AtOrBelow(far, b.at) \/ AtOrBelow(b.end, start)
    BY DEF ReachOf, ClearOf, far
  <1>7. start.pfn \in PagesSpanned(start, far)
    BY <1>1
  <1> QED BY <1>4, <1>5, <1>6, <1>7

\* A block that is asked for later lies out of the way, if the pointer does;
\* and leaves the pointer so.
LEMMA LaterPlaced ==
    ASSUME AllocatorInv, NEW size \in Nat, NEW start, NEW S, Placement(start, S, size),
           NEW at \in Addresses, at.pfn \in ReachOf(at),
           \A p \in ReachOf(at) : milo_memory_map[p] # FREE_PAGE
    PROVE  /\ OnFresh(start, S, size) \/ Away(at, start) =>
                 /\ AtOrBelow(FarFrom(at), start) \/ AtOrBelow(EndOf(start, size), at)
                 /\ Away(at, EndOf(start, size))
  <1> DEFINE far == FarFrom(at)
             end == EndOf(start, size)
             n == PagesFor(Gross(size))
  <1>1. /\ far \in Addresses /\ end \in Addresses /\ start \in Addresses
        /\ at.pfn \in Nat /\ far.pfn \in Nat /\ far.off \in Nat /\ start.pfn \in Nat
        /\ start.off \in Nat /\ end.pfn \in Nat /\ n \in Nat
        /\ AtOrBelow(start, end) /\ AllFree(milo_memory_map, S)
    <2>1. far \in Addresses
      BY CopySizes, PlusType DEF FarFrom
    <2>2. end \in Addresses /\ start \in Addresses
          /\ AtOrBelow(start, end) /\ AllFree(milo_memory_map, S)
      BY DEF Placement
    <2>3. n \in Nat
      BY GrossType
    <2> HIDE DEF far, end, n
    <2> QED BY <2>1, <2>2, <2>3 DEF Addresses
  <1>2. /\ \A p \in PagesSpanned(at, far) : p \notin S
        /\ at.pfn \in PagesSpanned(at, far)
    BY <1>1 DEF ReachOf, AllFree
  <1> HIDE DEF far, end, n
  <1>3. CASE AtOrBelow(far, start)
    <2>1. AtOrBelow(far, end)
      BY <1>1, <1>3, OrderTransitive
    <2> QED BY <1>3, <2>1 DEF Away, far, end
  <1>4. CASE end.pfn < at.pfn
    BY <1>4 DEF Away, AtOrBelow, end
  <1>5. ASSUME Away(at, start), ~AtOrBelow(far, start), ~OnFresh(start, S, size)
        PROVE  end.pfn < at.pfn
    <2>1. start.pfn < at.pfn
      BY <1>5 DEF Away, far
    <2>2. CASE InPage(start, S, size)
      BY <2>1, <2>2 DEF InPage, end
    <2>3. CASE IntoNext(start, S, size)
      <3>1. S = (start.pfn + 1) .. (start.pfn + n) /\ end.pfn \in S
        BY <2>3 DEF IntoNext, end, n
      <3>2. at.pfn \notin S
        BY <1>2
      <3> QED BY <1>1, <2>1, <3>1, <3>2
    <2> QED BY <1>5, <2>2, <2>3 DEF Placement
  <1>6. ASSUME OnFresh(start, S, size), ~AtOrBelow(far, start) PROVE end.pfn < at.pfn
    <2>1. S = start.pfn .. (start.pfn + n - 1) /\ end.pfn \in S /\ start.off = 0
      BY <1>6 DEF OnFresh, end, n
    <2>2. at.pfn \notin S /\ start.pfn \notin PagesSpanned(at, far)
      <3>1. start.pfn \in S
        BY <1>1, <2>1
      <3> QED BY <1>2, <3>1
    <2>3. start.pfn <= far.pfn /\ (start.pfn = far.pfn => far.off # 0)
      BY <1>1, <1>6, <2>1 DEF AtOrBelow
    <2>4. start.pfn < at.pfn
      BY <1>1, <2>2, <2>3 DEF PagesSpanned
    <2> QED BY <1>1, <2>1, <2>2, <2>4
  <1> QED BY <1>3, <1>4, <1>5, <1>6

\* The decompressor's first buffer follows the kernel's, and is long enough,
\* or lies elsewhere; either way the pointer is out of the way after it.
LEMMA InbufPlaced ==
    ASSUME CopyFits, AllocatorInv, NEW start, NEW S, Placement(start, S, InbufSize),
           NEW at \in Addresses, at.pfn \in ReachOf(at),
           \A p \in ReachOf(at) : milo_memory_map[p] # FREE_PAGE,
           temp_memory_ptr = Plus(at, Gross(MaxKernelSize + Slack))
    PROVE  Away(at, EndOf(start, InbufSize))
  <1>1. CASE OnFresh(start, S, InbufSize)
    BY <1>1, CopySizes, LaterPlaced
  <1>2. CASE start = temp_memory_ptr
    <2>1. EndOf(start, InbufSize) = Plus(Plus(at, Gross(MaxKernelSize + Slack)), Gross(InbufSize))
      BY <1>2 DEF EndOf
    <2>2. /\ Gross(MaxKernelSize + Slack) \in Nat /\ Gross(InbufSize) \in Nat /\ CopySize \in Nat
          /\ CopySize <= Gross(MaxKernelSize + Slack) + Gross(InbufSize)
      BY CopySizes, GrossType DEF CopyFits, CopySize
    <2>3. AtOrBelow(FarFrom(at), EndOf(start, InbufSize))
      BY <2>1, <2>2, PlusTwice DEF FarFrom
    <2> QED BY <2>3 DEF Away
  <1> QED BY <1>1, <1>2 DEF Placement, InPage, IntoNext

-----------------------------------------------------------------------------
\* kmalloc's pointer stays in a page of kmalloc's.
LEMMA PointerKept ==
    ASSUME BootInv, PointerTemporary, pc \in EarlyPcs, Keeps,
           temp_memory_ptr' = temp_memory_ptr
    PROVE  PointerTemporary'
  <1>1. AllocatorInv /\ TypeOK
    BY DEF BootInv, EarlyInv
  <1>2. temp_memory_ptr # NULL => /\ temp_memory_ptr.pfn \in 0 .. lastpfn
                                  /\ milo_memory_map[temp_memory_ptr.pfn] = TEMPORARY_PAGE
    BY <1>1, MapAssumption DEF AllocatorInv, PointerOwned, TypeOK, Addresses, PointerTemporary, Pfns
  <1>3. TEMPORARY_PAGE # FREE_PAGE
    BY DEF TEMPORARY_PAGE, FREE_PAGE
  <1> QED BY <1>2, <1>3 DEF Keeps, PointerTemporary

\* kmalloc halts the machine and does nothing, or places a block.
LEMMA KmallocOrError ==
    ASSUME NEW size, Kmalloc(size), halted'
    PROVE  error
  BY DEF Kmalloc, CanHold, SearchCache, CarveInPage, CarveAcrossPages, CarveFresh, CarveNothing, Carve

LEMMA PointerPlaced ==
    ASSUME BootConditions, BootInv, PointerTemporary, pc \in EarlyPcs,
           NEW size \in Nat, Gross(size) % PageSize # 0, Kmalloc(size)
    PROVE  PointerTemporary'
  <1>0. AllocatorInv /\ TypeOK /\ FreeIsEmpty
    BY DEF BootInv, EarlyInv, BootConditions
  <1>1. CASE halted'
    <2>1. temp_memory_ptr' = temp_memory_ptr
      BY <1>1, KmallocOrError DEF error
    <2> QED BY <1>0, <2>1, KmallocKeeps, PointerKept
  <1>2. CASE ~halted'
    <2>1. PICK start, S : Placement(start, S, size)
      BY <1>0, <1>2, KmallocPlaces
    <2> DEFINE end == EndOf(start, size)
    <2>2. /\ temp_memory_ptr' = end /\ milo_memory_map' = MarkPages(milo_memory_map, S, TEMPORARY_PAGE)
          /\ milo_memory_map \in Maps /\ S \in SUBSET (0 .. lastpfn) /\ 0 .. lastpfn \subseteq Pfns
      <3>1. temp_memory_ptr' = end
        BY <1>0, <2>1, BlockIsNew
      <3>2. milo_memory_map \in Maps /\ 0 .. lastpfn \subseteq Pfns
        BY <1>0, MapAssumption DEF TypeOK, Pfns
      <3> QED BY <2>1, <3>1, <3>2 DEF Placement
    <2>3. CASE end.pfn \in S
      BY <2>2, <2>3 DEF MarkPages, Maps, PointerTemporary
    <2>4. CASE InPage(start, S, size)
      <3>1. /\ temp_memory_ptr # NULL /\ end.pfn = temp_memory_ptr.pfn
            /\ milo_memory_map[temp_memory_ptr.pfn] = TEMPORARY_PAGE
            /\ temp_memory_ptr.pfn \in 0 .. lastpfn
        BY <1>0, <2>4, MapAssumption DEF InPage, PointerTemporary, AllocatorInv, PointerOwned, TypeOK, Addresses, Pfns
      <3>2. milo_memory_map'[end.pfn] = TEMPORARY_PAGE
        BY <2>2, <3>1 DEF MarkPages, Maps
      <3> QED BY <2>2, <3>2 DEF PointerTemporary
    <2> QED BY <2>1, <2>3, <2>4 DEF Placement, IntoNext, OnFresh
  <1> QED BY <1>1, <1>2

\* What is in reach stays kmalloc's.
LEMMA ReachKept ==
    ASSUME BufferInv, buffer # NONE, buffer' = buffer, Keeps,
           UNCHANGED <<lastpfn, map_pages, handed>>
    PROVE  /\ buffer.at.pfn \in ReachOf(buffer.at)
           /\ \A p \in ReachOf(buffer.at) :
                 /\ p \in 0 .. lastpfn' /\ milo_memory_map'[p] = TEMPORARY_PAGE
                 /\ p \notin Reserved' /\ \A e \in handed' : p \notin ExtentPages(e)
  <1>1. Reserved' = Reserved
    BY DEF Reserved, MapAt
  <1>2. TEMPORARY_PAGE # FREE_PAGE
    BY DEF TEMPORARY_PAGE, FREE_PAGE
  <1> QED BY <1>1, <1>2 DEF BufferInv, Keeps

\* A step of the loops, or of the decompressor once it has its buffers.
LEMMA ReadingStep ==
    ASSUME BufferInv, UNCHANGED <<milo_memory_map, map_pages, lastpfn, temp_memory_ptr, live,
                                  handed, buffer, inbuf>>,
           pc \in BufferPcs \ {"inbuf"}, pc' \in BufferPcs \ {"inbuf"}, halted => halted',
           buffer # NONE => /\ written' \in Nat
                            /\ ~Zipped' => written' <= MaxKernelSize + IobufSize
                            /\ ~Zipped' /\ pc' # "header" => written' <= MaxKernelSize
    PROVE  BufferInv'
  <1> SUFFICES ASSUME buffer # NONE PROVE BufferInv'
    BY DEF BufferInv
  <1>1. Keeps
    BY DEF Keeps
  <1>2. /\ buffer.at.pfn \in ReachOf(buffer.at)
        /\ \A p \in ReachOf(buffer.at) :
              /\ p \in 0 .. lastpfn' /\ milo_memory_map'[p] = TEMPORARY_PAGE
              /\ p \notin Reserved' /\ \A e \in handed' : p \notin ExtentPages(e)
    BY <1>1, ReachKept
  <1>3. /\ \A b \in live \ {buffer, inbuf} : ClearOf(buffer.at, b)
        /\ ~halted => temp_memory_ptr # NULL /\ Away(buffer.at, temp_memory_ptr)
        /\ buffer \in live
    BY DEF BufferInv
  <1> QED BY <1>2, <1>3 DEF BufferInv

\* kmalloc(MAX_KERNEL_SIZE + 512).
LEMMA AllocateBufferStep ==
    ASSUME BootConditions, CopyFits, BootInv, CopyInv, AllocateBuffer
    PROVE  BufferInv'
  <1> SUFFICES ASSUME buffer' # NONE PROVE BufferInv'
    BY DEF BufferInv
  <1>0. /\ pc = "prompt" /\ pc \in EarlyPcs /\ pc' = "inbuf" /\ written' = 0 /\ ~halted'
        /\ Kmalloc(MaxKernelSize + Slack) /\ buffer' = CHOOSE b \in live' : b \notin live
    BY DEF AllocateBuffer, At, Goto, EarlyPcs
  <1>1. /\ AllocatorInv /\ TypeOK /\ FreeIsEmpty
        /\ temp_memory_ptr # NULL => milo_memory_map[temp_memory_ptr.pfn] = TEMPORARY_PAGE
        /\ MaxKernelSize + Slack \in Nat /\ Gross(MaxKernelSize + Slack) % PageSize # 0
    BY <1>0, CopySizes DEF BootInv, EarlyInv, BootConditions, BootBlocksFit, CopyInv, PointerTemporary
  <1>2. PICK start, S : Placement(start, S, MaxKernelSize + Slack)
    BY <1>0, <1>1, KmallocPlaces
  <1> DEFINE new == NewBlock(start, MaxKernelSize + Slack)
  <1>3. /\ buffer' = new /\ live' = live \cup {new}
        /\ temp_memory_ptr' = EndOf(start, MaxKernelSize + Slack)
        /\ UNCHANGED <<map_pages, lastpfn, handed>>
    BY <1>0, <1>1, <1>2, BlockIsNew
  <1>4. /\ new.at = start /\ Reserved' = Reserved
        /\ new.end = Plus(start, Gross(MaxKernelSize + Slack))
    BY <1>3 DEF NewBlock, EndOf, Reserved, MapAt
  <1>5. /\ start.pfn \in ReachOf(start)
        /\ \A p \in ReachOf(start) :
              /\ p \in 0 .. lastpfn /\ milo_memory_map'[p] = TEMPORARY_PAGE
              /\ p \notin Reserved /\ \A e \in handed : p \notin ExtentPages(e)
        /\ \A b \in live : ClearOf(start, b)
    BY <1>1, <1>2, BufferPlaced
  <1>6. temp_memory_ptr' = Plus(start, Gross(MaxKernelSize + Slack)) /\ temp_memory_ptr' # NULL
    <2>1. EndOf(start, MaxKernelSize + Slack) \in Addresses
      BY <1>2 DEF Placement
    <2> QED BY <1>3, <2>1 DEF EndOf, NULL, Addresses
  <1>7. 0 \in Nat /\ 0 <= MaxKernelSize /\ 0 <= MaxKernelSize + IobufSize
    BY CopySizes
  <1> HIDE DEF new
  <1> QED BY <1>0, <1>3, <1>4, <1>5, <1>6, <1>7 DEF BufferInv, BufferPcs

\* The other allocations, of which the first may lie in reach.
LEMMA AllocateStep ==
    ASSUME BootConditions, CopyFits, BootInv, CopyInv, AllocateInbuf \/ AllocateWindow \/ AllocateIobuf
    PROVE  BufferInv'
  <1> SUFFICES ASSUME buffer # NONE PROVE BufferInv'
    BY DEF BufferInv, AllocateInbuf, AllocateWindow, AllocateIobuf
  <1>0. /\ pc \in {"inbuf", "window", "plain"} /\ pc \in EarlyPcs /\ ~halted
        /\ pc' \in {"window", "plain", "unzip", "copy"} /\ ~Zipped
        /\ buffer' = buffer /\ written' = written
        /\ pc # "inbuf" => inbuf' = inbuf
        /\ pc = "inbuf" => inbuf' = IF halted' THEN NONE ELSE CHOOSE b \in live' : b \notin live
    BY DEF AllocateInbuf, AllocateWindow, AllocateIobuf, At, Goto, EarlyPcs, Zipped
  <1>1. PICK size \in {InbufSize, WindowSize, IobufSize + Slack} :
            Kmalloc(size) /\ (pc = "inbuf" => size = InbufSize)
    BY DEF AllocateInbuf, AllocateWindow, AllocateIobuf, At
  <1>2. /\ AllocatorInv /\ TypeOK /\ FreeIsEmpty
        /\ size \in Nat /\ Gross(size) % PageSize # 0
    BY <1>0, CopySizes DEF BootInv, EarlyInv, BootConditions, BootBlocksFit
  <1>3. Keeps
    BY <1>1, <1>2, KmallocKeeps
  <1>4. /\ buffer \in live /\ buffer.at \in Addresses
        /\ \A p \in ReachOf(buffer.at) : milo_memory_map[p] # FREE_PAGE
        /\ buffer.at.pfn \in ReachOf(buffer.at)
        /\ written \in Nat /\ written <= MaxKernelSize /\ written <= MaxKernelSize + IobufSize
        /\ buffer.end = Plus(buffer.at, Gross(MaxKernelSize + Slack))
        /\ pc = "inbuf" => /\ \A b \in live \ {buffer} : ClearOf(buffer.at, b)
                           /\ temp_memory_ptr = Plus(buffer.at, Gross(MaxKernelSize + Slack))
        /\ pc # "inbuf" => /\ \A b \in live \ {buffer, inbuf} : ClearOf(buffer.at, b)
                           /\ Away(buffer.at, temp_memory_ptr)
    BY <1>0, <1>2 DEF CopyInv, BufferInv, TypeOK, Blocks, TEMPORARY_PAGE, FREE_PAGE
  <1>5. CASE halted'
    <2>1. UNCHANGED <<milo_memory_map, map_pages, lastpfn, live, handed>>
      BY <1>1, <1>5, KmallocOrError DEF error
    <2>2. /\ buffer.at.pfn \in ReachOf(buffer.at)
          /\ \A p \in ReachOf(buffer.at) :
                /\ p \in 0 .. lastpfn' /\ milo_memory_map'[p] = TEMPORARY_PAGE
                /\ p \notin Reserved' /\ \A e \in handed' : p \notin ExtentPages(e)
      BY <1>0, <1>3, <2>1, ReachKept DEF CopyInv
    <2>3. \A b \in live' \ {buffer', inbuf'} : ClearOf(buffer.at, b)
      BY <1>0, <1>4, <2>1
    <2> QED BY <1>0, <1>4, <1>5, <2>1, <2>2, <2>3 DEF BufferInv, BufferPcs
  <1>6. CASE ~halted'
    <2>1. PICK start, S : Placement(start, S, size)
      BY <1>1, <1>2, <1>6, KmallocPlaces
    <2> DEFINE new == NewBlock(start, size)
    <2>2. /\ live' = live \cup {new} /\ (CHOOSE b \in live' : b \notin live) = new
          /\ temp_memory_ptr' = EndOf(start, size)
          /\ UNCHANGED <<map_pages, lastpfn, handed>>
      BY <1>2, <2>1, BlockIsNew
    <2>3. /\ buffer.at.pfn \in ReachOf(buffer.at)
          /\ \A p \in ReachOf(buffer.at) :
                /\ p \in 0 .. lastpfn' /\ milo_memory_map'[p] = TEMPORARY_PAGE
                /\ p \notin Reserved' /\ \A e \in handed' : p \notin ExtentPages(e)
      BY <1>0, <1>3, <2>2, ReachKept DEF CopyInv
    <2>4. OnFresh(start, S, size) \/ Away(buffer.at, start) =>
              /\ AtOrBelow(FarFrom(buffer.at), start) \/ AtOrBelow(EndOf(start, size), buffer.at)
              /\ Away(buffer.at, EndOf(start, size))
      BY <1>2, <1>4, <2>1, LaterPlaced
    <2>5. Away(buffer.at, temp_memory_ptr')
      <3>1. CASE pc = "inbuf"
        BY <1>1, <1>2, <1>4, <2>1, <2>2, <3>1, InbufPlaced
      <3>2. CASE pc # "inbuf"
        BY <1>4, <2>1, <2>2, <2>4, <3>2 DEF Placement, InPage, IntoNext
      <3> QED BY <3>1, <3>2
    <2>6. pc # "inbuf" => ClearOf(buffer.at, new)
      <3> SUFFICES ASSUME pc # "inbuf" PROVE ClearOf(buffer.at, new)
        OBVIOUS
      <3>1. OnFresh(start, S, size) \/ start = temp_memory_ptr
        BY <2>1 DEF Placement, InPage, IntoNext
      <3>2. AtOrBelow(FarFrom(buffer.at), start) \/ AtOrBelow(EndOf(start, size), buffer.at)
        BY <1>4, <2>4, <3>1
      <3>3. new.at = start /\ new.end = EndOf(start, size)
        BY DEF NewBlock
      <3> QED BY <3>2, <3>3 DEF ClearOf
    <2>7. temp_memory_ptr' # NULL
      <3>1. EndOf(start, size) \in Addresses
        BY <2>1 DEF Placement
      <3> QED BY <2>2, <3>1 DEF NULL, Addresses
    <2> HIDE DEF new
    <2>8. \A b \in live' \ {buffer', inbuf'} : ClearOf(buffer.at, b)
      BY <1>0, <1>4, <1>6, <2>2, <2>6
    <2> QED BY <1>0, <1>4, <2>2, <2>3, <2>5, <2>7, <2>8 DEF BufferInv, BufferPcs
  <1> QED BY <1>5, <1>6

\* A boot command's steps keep the pointer in a page of kmalloc's.
LEMMA PointerStep ==
    ASSUME BootConditions, BootInv, PointerTemporary, BootNext
    PROVE  PointerTemporary'
  <1> SUFFICES ASSUME pc' \in EarlyPcs PROVE PointerTemporary'
    BY DEF PointerTemporary
  <1>1. ASSUME pc \in EarlyPcs, UNCHANGED <<milo_memory_map, temp_memory_ptr>>
        PROVE  PointerTemporary'
    BY <1>1 DEF PointerTemporary
  <1>2. CASE \/ OpenFails \/ FlushWindow \/ Unzip \/ CopyBlock \/ CopyEnds
             \/ BadHeader \/ GoodHeader
    <2>1. pc \in EarlyPcs
      BY <1>2 DEF OpenFails, FlushWindow, Unzip, CopyBlock, CopyEnds, BadHeader, GoodHeader,
                  Loaded, At, EarlyPcs
    <2>2. UNCHANGED <<milo_memory_map, temp_memory_ptr>>
      BY <1>2 DEF OpenFails, FlushWindow, Unzip, CopyBlock, CopyEnds, BadHeader, GoodHeader,
                  vars, error
    <2> QED BY <1>1, <2>1, <2>2
  <1>3. CASE Command
    <2>1. pc \in EarlyPcs /\ TypeOK
      BY <1>3 DEF Command, At, EarlyPcs, BootInv
    <2>2. ASSUME NEW size \in Sizes, Kmalloc(size) PROVE PointerTemporary'
      <3>1. size \in Nat /\ Gross(size) % PageSize # 0
        BY <2>2, SizeAssumption DEF BootConditions, NoExactFit
      <3> QED BY <2>1, <2>2, <3>1, PointerPlaced
    <2>3. CASE \/ \E count \in PageCounts : GetFreePages(count)
               \/ \E top \in ResetTops : ResetMem(top)
      <3>1. Keeps
        BY <2>1, <2>3, PagesKeep
      <3>2. temp_memory_ptr' = temp_memory_ptr
        BY <2>3 DEF GetFreePages, ResetMem, Hand, error
      <3> QED BY <2>1, <3>1, <3>2, PointerKept
    <2> QED BY <1>3, <2>2, <2>3 DEF Command
  <1>4. CASE AllocateBuffer \/ AllocateInbuf \/ AllocateWindow \/ AllocateIobuf
    <2>1. pc \in EarlyPcs
      BY <1>4 DEF AllocateBuffer, AllocateInbuf, AllocateWindow, AllocateIobuf, At, EarlyPcs
    <2>2. PICK size \in {MaxKernelSize + Slack, InbufSize, WindowSize, IobufSize + Slack} :
              Kmalloc(size)
      BY <1>4 DEF AllocateBuffer, AllocateInbuf, AllocateWindow, AllocateIobuf
    <2>3. size \in Nat /\ Gross(size) % PageSize # 0
      BY CopySizes DEF BootConditions, BootBlocksFit
    <2> QED BY <2>1, <2>2, <2>3, PointerPlaced
  <1>5. CASE MarkKernel \/ LoadRamdisk \/ NoRamdisk \/ AddVA \/ BuildMemMap
    BY <1>5 DEF MarkKernel, LoadRamdisk, NoRamdisk, AddVA, BuildMemMap, Goto, EarlyPcs
  <1> QED BY <1>2, <1>3, <1>4, <1>5 DEF BootNext

\* And they keep what the copy relies on.
LEMMA BufferStep ==
    ASSUME BootConditions, CopyFits, BootInv, CopyInv, BootNext
    PROVE  BufferInv'
  <1>1. CASE AllocateBuffer
    BY <1>1, AllocateBufferStep
  <1>2. CASE AllocateInbuf \/ AllocateWindow \/ AllocateIobuf
    BY <1>2, AllocateStep
  <1>3. CASE FlushWindow \/ Unzip
    <2>1. /\ UNCHANGED <<milo_memory_map, map_pages, lastpfn, temp_memory_ptr, live,
                         handed, buffer, inbuf>>
          /\ pc = "unzip" /\ pc' \in {"unzip", "unzipped"} /\ (halted => halted')
      BY <1>3 DEF FlushWindow, Unzip, vars, error, At, Goto
    <2>2. pc \in BufferPcs \ {"inbuf"} /\ pc' \in BufferPcs \ {"inbuf"} /\ Zipped'
      BY <2>1 DEF BufferPcs, Zipped
    <2>3. buffer # NONE => written' \in Nat
      BY <1>3, BootAssumption DEF FlushWindow, Unzip, CopyInv, BufferInv
    <2> QED BY <2>1, <2>2, <2>3, ReadingStep DEF CopyInv
  <1>6. CASE CopyBlock \/ CopyEnds
    <2>1. /\ UNCHANGED <<milo_memory_map, map_pages, lastpfn, temp_memory_ptr, live,
                         handed, buffer, inbuf>>
          /\ pc = "copy" /\ pc \in BufferPcs \ {"inbuf"}
          /\ pc' \in BufferPcs \ {"inbuf"} /\ (halted => halted')
      BY <1>6 DEF CopyBlock, CopyEnds, vars, At, Goto, BufferPcs
    <2>2. ASSUME buffer # NONE
          PROVE  /\ written' \in Nat /\ written' <= MaxKernelSize + IobufSize
                 /\ pc' # "header" => written' <= MaxKernelSize
      <3>1. /\ written \in Nat /\ written <= MaxKernelSize
            /\ MaxKernelSize \in Nat /\ IobufSize \in Nat
        BY <2>1, <2>2, CopySizes DEF CopyInv, BufferInv, Zipped
      <3>2. CASE CopyEnds
        BY <3>1, <3>2 DEF CopyEnds
      <3>3. CASE CopyBlock
        BY <3>1, <3>3 DEF CopyBlock, StopCopy, Goto
      <3> QED BY <1>6, <3>2, <3>3
    <2> QED BY <2>1, <2>2, ReadingStep DEF CopyInv
  <1>4. CASE BadHeader \/ GoodHeader
    BY <1>4 DEF BadHeader, GoodHeader, BufferInv
  <1>5. CASE Command \/ OpenFails \/ MarkKernel \/ LoadRamdisk \/ NoRamdisk \/ AddVA \/ BuildMemMap
    <2>1. pc \notin BufferPcs /\ buffer' = buffer
      BY <1>5 DEF Command, OpenFails, MarkKernel, LoadRamdisk, NoRamdisk, AddVA, BuildMemMap,
                  At, BufferPcs, bootvars
    <2> QED BY <2>1 DEF CopyInv, BufferInv
  <1> QED BY <1>1, <1>2, <1>3, <1>4, <1>5, <1>6 DEF BootNext

LEMMA NextCopy ==
    ASSUME BootConditions, CopyFits
    PROVE  BootInv /\ CopyInv /\ [BootNext]_allvars => CopyInv'
  <1> SUFFICES ASSUME BootInv, CopyInv, [BootNext]_allvars PROVE CopyInv'
    OBVIOUS
  <1>1. CASE BootNext
    BY <1>1, PointerStep, BufferStep DEF CopyInv
  <1>2. CASE UNCHANGED allvars
    BY <1>2 DEF allvars, vars, bootvars, CopyInv, PointerTemporary, BufferInv, Zipped,
               Reserved, MapAt
  <1> QED BY <1>1, <1>2

LEMMA InitCopy ==
    BootInit => CopyInv
  BY DEF BootInit, Init, init_mem, CopyInv, PointerTemporary, BufferInv

(***************************************************************************)
(* The copy loop tests its limit after each block: it may write up to a    *)
(* block behind the kernel's buffer.  With CopyFits, which the sizes in    *)
(* boot.c and gzip.h satisfy, what it reaches there is still kmalloc's,    *)
(* and holds no block but the decompressor's first buffer.  Decompression  *)
(* tests nothing: up to MAX_KERNEL_SIZE it stays in the kernel's buffer.   *)
(***************************************************************************)
THEOREM CopyStaysInItsPages ==
    ASSUME BootConditions, CopyFits
    PROVE  BootSpec => []CopyHitsNothing
  <1>1. BootInit => BootInv
    BY InitBoot DEF BootConditions
  <1>2. BootInv /\ [BootNext]_allvars => BootInv'
    BY NextBoot
  <1>3. BootInv /\ CopyInv /\ [BootNext]_allvars => CopyInv'
    BY NextCopy
  <1>4. BootInv /\ CopyInv => CopyHitsNothing
    <2> SUFFICES ASSUME BootInv, CopyInv, buffer # NONE, Zipped => written <= MaxKernelSize
                 PROVE  CopyHitsNothing
      BY DEF CopyHitsNothing
    <2> DEFINE end == Plus(buffer.at, Slack + written)
               far == FarFrom(buffer.at)
               pages == PagesSpanned(buffer.at, end)
               spent == IF Zipped THEN {} ELSE {inbuf}
    <2>1. buffer.at \in Addresses /\ written \in Nat /\ \A b \in live : b \in Blocks
      BY DEF BootInv, TypeOK, CopyInv, BufferInv, Blocks
    <2>2. Slack + written \in Nat /\ Slack + written <= CopySize
      <3>1. written <= MaxKernelSize + IobufSize
        BY <2>1, CopySizes DEF CopyInv, BufferInv
      <3> QED BY <2>1, <3>1, CopySizes DEF CopySize
    <2>3. AtOrBelow(end, far) /\ end \in Addresses /\ far \in Addresses
      BY <2>1, <2>2, PlusLess, PlusType, CopySizes DEF FarFrom
    <2>4. pages \subseteq ReachOf(buffer.at)
      BY <2>1, <2>2, PlusLess, CopySizes DEF ReachOf, FarFrom
    <2>5. \A b \in live \ {buffer, inbuf} : AtOrBelow(end, b.at) \/ AtOrBelow(b.end, buffer.at)
      <3> SUFFICES ASSUME NEW b \in live \ {buffer, inbuf}
                   PROVE  AtOrBelow(end, b.at) \/ AtOrBelow(b.end, buffer.at)
        OBVIOUS
      <3>1. AtOrBelow(far, b.at) \/ AtOrBelow(b.end, buffer.at)
        BY DEF CopyInv, BufferInv, ClearOf
      <3>2. b.at \in Addresses
        BY <2>1 DEF Blocks
      <3> QED BY <2>3, <3>1, <3>2, OrderTransitive
    <2>6. \A p \in pages : /\ milo_memory_map[p] = TEMPORARY_PAGE /\ p \notin Reserved
                           /\ \A e \in handed : p \notin ExtentPages(e)
      BY <2>4 DEF CopyInv, BufferInv
    <2>7. ASSUME Zipped, NEW b \in live \ {buffer}
          PROVE  AtOrBelow(end, b.at) \/ AtOrBelow(b.end, buffer.at)
      <3>1. Apart(buffer, b)
        <4>1. pc \in EarlyPcs
          BY <2>7 DEF Zipped, EarlyPcs
        <4> QED BY <2>7, <4>1 DEF BootInv, EarlyInv, AllocatorInv, BlocksApart, CopyInv, BufferInv
      <3>2. AtOrBelow(end, buffer.end)
        <4>1. /\ Slack + written <= Gross(MaxKernelSize + Slack)
              /\ Gross(MaxKernelSize + Slack) \in Nat
          BY <2>1, <2>7, CopySizes
        <4> QED BY <2>1, <2>2, <4>1, PlusLess DEF CopyInv, BufferInv
      <3>3. b.at \in Addresses /\ buffer.end \in Addresses
        BY <2>1, <2>7, PlusType, CopySizes DEF Blocks, CopyInv, BufferInv
      <3> QED BY <2>3, <3>1, <3>2, <3>3, OrderTransitive DEF Apart
    <2> HIDE DEF far
    <2>8. /\ pages \cap Reserved = {}
          /\ \A e \in handed : ExtentPages(e) \cap pages = {}
      BY <2>6, Zenon
    <2>9. \A b \in live \ ({buffer} \cup spent) :
              AtOrBelow(end, b.at) \/ AtOrBelow(b.end, buffer.at)
      BY <2>5, <2>7
    <2> QED BY <2>6, <2>8, <2>9, Zenon DEF CopyHitsNothing
  <1> QED BY <1>1, <1>2, <1>3, <1>4, InitCopy, PTL DEF BootSpec
===============================================================================
