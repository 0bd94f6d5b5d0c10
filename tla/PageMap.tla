------------------------------- MODULE PageMap -------------------------------
(***************************************************************************)
(* The page map of MILO (memory.c): one byte per physical page frame,      *)
(* milo_memory_map[pfn], saying whether the page is free, reserved for     *)
(* good, or in use only until Linux takes over.  This module holds the map *)
(* arithmetic shared by the allocator, the boot flow and the HWRPB builder.*)
(***************************************************************************)
EXTENDS Naturals

CONSTANTS
    MapCap,        \* entries of the map a run of the model can touch
    SuperShift     \* log2 of the largest translation-buffer superpage (9)

ASSUME MapAssumption == MapCap \in Nat \ {0} /\ SuperShift \in Nat

\* A fact of arithmetic, stated because the provers know little of powers.
ASSUME PowersPositive == \A i \in 0 .. SuperShift : 2 ^ i \in Nat \ {0}

FREE_PAGE == 0
ALLOCATED_PAGE == 2
TEMPORARY_PAGE == 4
PageTypes == {FREE_PAGE, ALLOCATED_PAGE, TEMPORARY_PAGE}

Pfns == 0 .. (MapCap - 1)
Maps == [Pfns -> PageTypes]

\* The pages of an extent of count pages that starts at pfn.
Extent(pfn, count) == pfn .. (pfn + count - 1)

\* mark_many_pfn: a plain store, whatever was there before.
MarkPages(map, pages, type) == [p \in Pfns |-> IF p \in pages THEN type ELSE map[p]]
MarkMany(map, pfn, count, type) == MarkPages(map, Extent(pfn, count), type)

AllFree(map, pages) == \A p \in pages : map[p] = FREE_PAGE

-----------------------------------------------------------------------------
(***************************************************************************)
(* allocate_many_pfn, stated by what its search returns: the lowest start  *)
(* page at which `count` free pages begin, among the starts its stepping   *)
(* can stop at.  Module PageScan models the loop itself and shows that it  *)
(* returns this page.                                                      *)
(***************************************************************************)
SuperPage == 2 ^ SuperShift

\* count_remainder: above a superpage only the remainder matters.
Remainder(count) == count % SuperPage

\* The smallest power of two that holds count pages, 512 at most.
IsBlockSize(b, count) ==
    /\ b \in {2 ^ i : i \in 0 .. SuperShift}
    /\ count <= b \/ b = SuperPage
    /\ \A i \in 0 .. SuperShift : 2 ^ i < b => count > 2 ^ i

BlockSize(count) == CHOOSE b \in 1 .. SuperPage : IsBlockSize(b, count)

\* Starts at which the search looks: block aligned, or ending block aligned.
AlignedStart(pfn, count) ==
    \/ pfn % BlockSize(count) = 0
    \/ (pfn + Remainder(count)) % BlockSize(count) = 0

\* Mutant: looks only at the first page of the window.
Fits_FirstPage(map, last, pfn, count) ==
    /\ pfn + count <= last + 1
    /\ map[pfn] = FREE_PAGE

Fits(map, last, pfn, count) ==
    /\ pfn + count <= last + 1
    /\ AllFree(map, Extent(pfn, count))

\* The starts allocate_many_pfn could return for this map.
Candidates(map, last, count) ==
    {pfn \in 0 .. last : AlignedStart(pfn, count) /\ Fits(map, last, pfn, count)}

IsFirstFit(pfn, map, last, count) ==
    /\ pfn \in Candidates(map, last, count)
    /\ \A q \in Candidates(map, last, count) : pfn <= q

\* allocate_pfn: the lowest free page.
IsFirstFree(pfn, map, last) ==
    /\ pfn \in 0 .. last
    /\ map[pfn] = FREE_PAGE
    /\ \A q \in 0 .. last : map[q] = FREE_PAGE => pfn <= q

==============================================================================
