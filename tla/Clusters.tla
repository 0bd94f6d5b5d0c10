------------------------------- MODULE Clusters -------------------------------
(***************************************************************************)
(* build_HWRPB_mem_map (hwrpb.c): what Linux is told about memory.  A first*)
(* loop frees the TEMPORARY pages of the map, a second one turns the map   *)
(* into the list of memory clusters in the HWRPB, one page a step.  Linux  *)
(* uses every page of a cluster whose usage is 0.                          *)
(***************************************************************************)
EXTENDS PageMap, Sequences

CONSTANT Lasts      \* values of lastpfn

ASSUME LastsAssumption == Lasts \subseteq Pfns

VARIABLES
    map,        \* milo_memory_map
    last,       \* lastpfn
    pfn,        \* loop counter
    cluster,    \* memdesc->cluster[0 .. numclusters - 1]
    state,      \* "freeing", "building" or "done"
    before      \* history: the map when the function was called

vars == <<map, last, pfn, cluster, state, before>>

ClusterRecords == [start_pfn : Nat, numpages : Nat, usage : PageTypes]

TypeOK ==
    /\ map \in Maps /\ before \in Maps
    /\ last \in Lasts
    /\ pfn \in 0 .. (last + 1)
    /\ cluster \in Seq(ClusterRecords)
    /\ state \in {"freeing", "building", "done"}

Init ==
    /\ last \in Lasts
    /\ before \in Maps
    /\ map = before
    /\ pfn = 0
    /\ cluster = <<>>
    /\ state = "freeing"

\* Mutant: frees the wrong kind of page.
Released_Allocated(type) == IF type = ALLOCATED_PAGE THEN FREE_PAGE ELSE type

\* "mark as free any pages currently marked as TEMPORARY_PAGE".
Released(type) == IF type = TEMPORARY_PAGE THEN FREE_PAGE ELSE type

FreeTemporary ==
    /\ state = "freeing"
    /\ pfn < last + 1
    /\ map' = [map EXCEPT ![pfn] = Released(@)]
    /\ pfn' = pfn + 1
    /\ UNCHANGED <<last, cluster, state, before>>

NewCluster(p) == [start_pfn |-> p, numpages |-> 1, usage |-> map[p]]

\* The first cluster holds page 0.
FirstCluster ==
    /\ state = "freeing"
    /\ pfn = last + 1
    /\ cluster' = <<NewCluster(0)>>
    /\ pfn' = 1
    /\ state' = "building"
    /\ UNCHANGED <<map, last, before>>

Current == cluster[Len(cluster)]

SameUsage == map[pfn] = Current.usage

\* Mutant: counts the page twice.
Extended_Twice == [cluster EXCEPT ![Len(cluster)].numpages = @ + 2]
Extended == [cluster EXCEPT ![Len(cluster)].numpages = @ + 1]

ExtendCluster ==
    /\ state = "building"
    /\ pfn < last + 1
    /\ SameUsage
    /\ cluster' = Extended
    /\ pfn' = pfn + 1
    /\ UNCHANGED <<map, last, state, before>>

StartCluster ==
    /\ state = "building"
    /\ pfn < last + 1
    /\ ~SameUsage
    /\ cluster' = Append(cluster, NewCluster(pfn))
    /\ pfn' = pfn + 1
    /\ UNCHANGED <<map, last, state, before>>

Return ==
    /\ state = "building"
    /\ pfn = last + 1
    /\ state' = "done"
    /\ UNCHANGED <<map, last, pfn, cluster, before>>

Next == FreeTemporary \/ FirstCluster \/ ExtendCluster \/ StartCluster \/ Return

Spec == Init /\ [][Next]_vars

-----------------------------------------------------------------------------
ClusterPages(c) == Extent(c.start_pfn, c.numpages)
EndPfn(c) == c.start_pfn + c.numpages

\* Pages already described: all below the loop counter.
Described == IF state = "freeing" THEN 0 ELSE pfn

\* One after the other, from page 0 to the loop counter.
Contiguous ==
    Described > 0 =>
        /\ Len(cluster) > 0
        /\ cluster[1].start_pfn = 0
        /\ \A i \in 1 .. (Len(cluster) - 1) : cluster[i + 1].start_pfn = EndPfn(cluster[i])
        /\ EndPfn(Current) = Described
        /\ \A p \in 0 .. (Described - 1) : \E i \in 1 .. Len(cluster) : p \in ClusterPages(cluster[i])

(***************************************************************************)
(* The clusters say of every page what MILO's map said when the boot       *)
(* command asked for them, with TEMPORARY read as free: a page that was    *)
(* ALLOCATED is never in a free cluster, a page that was not is never lost *)
(* to Linux, and no page is described twice.                               *)
(***************************************************************************)
ClustersTellTheMap ==
    /\ \A i \in 1 .. Len(cluster) : \A p \in ClusterPages(cluster[i]) :
          p <= last /\ cluster[i].usage = Released(before[p])
    /\ \A i, j \in 1 .. Len(cluster) :
          i < j => EndPfn(cluster[i]) <= cluster[j].start_pfn
    /\ state = "done" =>
          \A p \in 0 .. last : \E i \in 1 .. Len(cluster) : p \in ClusterPages(cluster[i])

(***************************************************************************)
(* Neighbouring clusters differ: the list is as short as it can be, which  *)
(* matters because it shares the HWRPB's page and its length is unchecked. *)
(***************************************************************************)
ClustersMaximal ==
    \A i \in 1 .. (Len(cluster) - 1) : cluster[i].usage # cluster[i + 1].usage

\* What the two loops have done so far: the inductive part.
LoopInv ==
    /\ \A p \in 0 .. last :
          map[p] = IF state = "freeing" /\ p >= pfn THEN before[p] ELSE Released(before[p])
    /\ state = "freeing" => cluster = <<>>
    /\ state = "building" => pfn >= 1
    /\ state = "done" => pfn = last + 1

ClusterInv == TypeOK /\ LoopInv /\ Contiguous /\ ClustersTellTheMap /\ ClustersMaximal
==============================================================================
