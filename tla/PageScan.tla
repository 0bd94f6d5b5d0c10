------------------------------- MODULE PageScan -------------------------------
(***************************************************************************)
(* The search loop of allocate_many_pfn (memory.c), one iteration a step.  *)
(* After a window of `count` pages fails at its first used page, the loop  *)
(* does not try the next page: it jumps to the next start that is aligned  *)
(* to the block size, or whose end is.  NothingSkipped says the jumps      *)
(* never pass over a start the loop should have taken.                     *)
(***************************************************************************)
EXTENDS PageMap

CONSTANTS LastPfns,  \* values of lastpfn to search under
          Counts     \* page counts asked for

ASSUME ScanAssumption ==
    /\ LastPfns \subseteq Pfns
    /\ Counts \subseteq Nat \ {0}

VARIABLES milo_memory_map,
          lastpfn,
          count,    \* argument: number of contiguous pages
          start,    \* `pfn`: the start the loop looks at
          outcome   \* "scan", "found" (return pfn) or "error" (no memory)

scanvars == <<milo_memory_map, lastpfn, count, start, outcome>>

ScanInit ==
    /\ lastpfn \in LastPfns
    /\ milo_memory_map \in [Pfns -> {FREE_PAGE, ALLOCATED_PAGE}]
    /\ \A p \in Pfns : p > lastpfn => milo_memory_map[p] = ALLOCATED_PAGE
    /\ count \in Counts
    /\ start = 0
    /\ outcome = "scan"

\* The loop condition of the while.
InRange == start <= lastpfn /\ start + count <= lastpfn + 1

\* The first page of the window at start that is not free.
IsBlocker(p) ==
    /\ p \in Extent(start, count)
    /\ milo_memory_map[p] # FREE_PAGE
    /\ AllFree(milo_memory_map, start .. (p - 1))

\* Round up to the next block_size boundary (pfn_start_aligned).
StartAligned(q) == ((q + BlockSize(count) - 1) \div BlockSize(count)) * BlockSize(count)

\* Mutant: start alignment only.
NextStart_StartOnly(q) == StartAligned(q)

\* Back down by the pages needed (mod 512) when that is not too small.
NextStart(q) ==
    IF StartAligned(q) < q + Remainder(count)
    THEN StartAligned(q)
    ELSE StartAligned(q) - Remainder(count)

\* This window has a used page: move just beyond it, to the next start.
Skip ==
    /\ outcome = "scan"
    /\ InRange
    /\ \E p \in Pfns : IsBlocker(p) /\ start' = NextStart(p + 1)
    /\ UNCHANGED <<milo_memory_map, lastpfn, count, outcome>>

\* memset(&milo_memory_map[pfn], type, count); return pfn
Found ==
    /\ outcome = "scan"
    /\ InRange
    /\ AllFree(milo_memory_map, Extent(start, count))
    /\ outcome' = "found"
    /\ milo_memory_map' = MarkMany(milo_memory_map, start, count, TEMPORARY_PAGE)
    /\ UNCHANGED <<lastpfn, count, start>>

\* error("Not enough memory")
OutOfMemory ==
    /\ outcome = "scan"
    /\ ~InRange
    /\ outcome' = "error"
    /\ UNCHANGED <<milo_memory_map, lastpfn, count, start>>

ScanNext == Skip \/ Found \/ OutOfMemory

ScanSpec == ScanInit /\ [][ScanNext]_scanvars

-----------------------------------------------------------------------------
(***************************************************************************)
(* The loop stays on aligned starts and has not passed over a candidate.   *)
(* This is the loop invariant of allocate_many_pfn; with the exit          *)
(* conditions it says that the loop returns the first fit.                 *)
(***************************************************************************)
NothingSkipped ==
    outcome \in {"scan", "error"} =>
        /\ AlignedStart(start, count)
        /\ \A q \in Candidates(milo_memory_map, lastpfn, count) : start <= q

=============================================================================
