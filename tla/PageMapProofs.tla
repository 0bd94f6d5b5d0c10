---------------------------- MODULE PageMapProofs ----------------------------
(***************************************************************************)
(* Proofs about the two loops over MILO's page map, for every map and      *)
(* every memory size: allocate_many_pfn's search (PageScan) finds the      *)
(* first fit, and the list of memory clusters (Clusters) tells Linux       *)
(* exactly what the map says.                                              *)
(***************************************************************************)
EXTENDS Clusters, PageScan, WellFoundedInduction, TLAPS

-----------------------------------------------------------------------------
(* The search loop of allocate_many_pfn. *)

\* A non-empty set of naturals has a least member.
LEMMA LeastPower ==
    ASSUME NEW S \in SUBSET Nat, S # {}
    PROVE  \E m \in S : \A x \in S : m <= x
<1>1. \E m \in S : \A x \in S : ~(<<x, m>> \in OpToRel(<, Nat))
  BY NatLessThanWellFounded, WFMin, Zenon
<1>2. ASSUME NEW m \in Nat, NEW x \in Nat, ~(<<x, m>> \in OpToRel(<, Nat))
      PROVE  m <= x
  BY <1>2 DEF OpToRel
<1> QED BY <1>1, <1>2

\* Quotient and remainder.
LEMMA DivType ==
    ASSUME NEW P \in Nat \ {0}, NEW x \in Nat
    PROVE  x \div P \in Nat /\ x % P \in 0 .. (P - 1) /\ x % P <= x
BY SMT

LEMMA DivEq ==
    ASSUME NEW P \in Nat \ {0}, NEW x \in Nat
    PROVE  x = P * (x \div P) + (x % P)
BY SMT

\* The next multiple is a whole step further.
LEMMA MulMono ==
    ASSUME NEW P \in Nat \ {0}, NEW a \in Nat, NEW b \in Nat, a < b
    PROVE  P * a + P <= P * b
BY SMT

\* A multiple leaves no remainder.
LEMMA MulMod ==
    ASSUME NEW P \in Nat \ {0}, NEW a \in Nat
    PROVE  P * a \in Nat /\ (P * a) % P = 0
BY SMT

\* Some power of two is the block size, and count_remainder is not above it.
LEMMA BlockSizeFits ==
    ASSUME NEW n \in Nat \ {0}
    PROVE  /\ BlockSize(n) \in Nat \ {0}
           /\ Remainder(n) \in 0 .. BlockSize(n)
<1>1. SuperPage \in Nat \ {0}
  BY MapAssumption, PowersPositive DEF SuperPage
<1> DEFINE Powers == {2 ^ i : i \in 0 .. SuperShift}
           Enough == {b \in Powers : n <= b \/ b = SuperPage}
<1>2. SuperPage \in Powers
  BY MapAssumption DEF SuperPage
<1>3. Powers \subseteq Nat \ {0}
  BY PowersPositive
<1>4. Enough \in SUBSET Nat /\ SuperPage \in Enough
  BY <1>2, <1>3
<1>5. PICK m \in Enough : \A x \in Enough : m <= x
  <2> HIDE DEF Enough
  <2> QED BY <1>4, LeastPower
<1>6. m \in 1 .. SuperPage
  BY <1>1, <1>3, <1>4, <1>5
<1>7. \A i \in 0 .. SuperShift : 2 ^ i < m => n > 2 ^ i
  <2> SUFFICES ASSUME NEW i \in 0 .. SuperShift, 2 ^ i < m PROVE n > 2 ^ i
    OBVIOUS
  <2>1. 2 ^ i \in Powers /\ 2 ^ i \in Nat
    BY <1>3
  <2>2. 2 ^ i \notin Enough
    BY <1>5, <1>6, <2>1
  <2> QED BY <2>1, <2>2
<1>8. IsBlockSize(m, n)
  BY <1>5, <1>7 DEF IsBlockSize
<1>9. BlockSize(n) \in 1 .. SuperPage /\ IsBlockSize(BlockSize(n), n)
  BY <1>6, <1>8 DEF BlockSize
<1>10. Remainder(n) \in 0 .. (SuperPage - 1) /\ Remainder(n) <= n
  BY <1>1, DivType DEF Remainder
<1> QED
  BY <1>1, <1>9, <1>10 DEF IsBlockSize

\* The next multiple of b: q rounded up.
LEMMA RoundedUp ==
    ASSUME NEW q \in Nat, NEW b \in Nat \ {0}
    PROVE  LET s == ((q + b - 1) \div b) * b
           IN  /\ s \in Nat /\ s % b = 0
               /\ q <= s /\ s < q + b
               /\ \A x \in Nat : x % b = 0 /\ q <= x => s <= x
               /\ \A x \in Nat : x % b = 0 /\ s < x => s + b <= x
<1> DEFINE k == (q + b - 1) \div b
           r == (q + b - 1) % b
<1>1. /\ k \in Nat /\ r \in 0 .. (b - 1)
      /\ q + b - 1 = b * k + r
  <2>1. q + b - 1 \in Nat
    OBVIOUS
  <2> QED BY <2>1, DivType, DivEq
<1> HIDE DEF k, r
<1>2. b * k \in Nat /\ (b * k) % b = 0
  BY <1>1, MulMod
<1>3. q <= b * k /\ b * k < q + b
  BY <1>1, <1>2
<1>4. ASSUME NEW x \in Nat, x % b = 0
      PROVE  \E j \in Nat : x = b * j
  BY <1>4, DivType, DivEq
<1>5. ASSUME NEW x \in Nat, x % b = 0, q <= x
      PROVE  b * k <= x
  <2>1. PICK j \in Nat : x = b * j
    BY <1>4, <1>5
  <2>2. CASE j < k
    <3>1. b * j + b <= b * k
      BY <1>1, <2>2, MulMono
    <3> QED BY <1>2, <1>3, <1>5, <2>1, <3>1
  <2>3. CASE k < j
    <3>1. b * k + b <= b * j
      BY <1>1, <2>3, MulMono
    <3> QED BY <1>2, <1>5, <2>1, <3>1
  <2>4. CASE j = k
    BY <1>2, <2>1, <2>4
  <2> QED BY <1>1, <2>2, <2>3, <2>4
<1>6. ASSUME NEW x \in Nat, x % b = 0, b * k < x
      PROVE  b * k + b <= x
  <2>1. PICK j \in Nat : x = b * j
    BY <1>4, <1>6
  <2>2. CASE j < k
    <3>1. b * j + b <= b * k
      BY <1>1, <2>2, MulMono
    <3> QED BY <1>2, <1>6, <2>1, <3>1
  <2>3. j # k
    BY <1>2, <1>6, <2>1
  <2>4. CASE k < j
    <3>1. b * k + b <= b * j
      BY <1>1, <2>4, MulMono
    <3> QED BY <2>1, <3>1
  <2> QED BY <1>1, <2>2, <2>3, <2>4
<1>7. ((q + b - 1) \div b) * b = b * k
  <2>1. k * b = b * k
    BY <1>1
  <2> QED BY <2>1 DEF k
<1> QED
  BY <1>2, <1>3, <1>5, <1>6, <1>7

\* The jump goes to an aligned start and passes over none.
LEMMA NextStartExact ==
    ASSUME NEW n \in Nat \ {0}, n = count, NEW q \in Nat
    PROVE  /\ NextStart(q) \in Nat
           /\ q <= NextStart(q)
           /\ AlignedStart(NextStart(q), n)
           /\ \A x \in Nat : q <= x /\ AlignedStart(x, n) => NextStart(q) <= x
<1> DEFINE b == BlockSize(n)
           r == Remainder(n)
           s == StartAligned(q)
<1>1. b \in Nat \ {0} /\ r \in 0 .. b
  BY BlockSizeFits
<1> HIDE DEF b, r, s
<1>2. s = ((q + b - 1) \div b) * b
  BY DEF b, s, StartAligned
<1>3. /\ s \in Nat /\ s % b = 0
      /\ q <= s /\ s < q + b
      /\ \A x \in Nat : x % b = 0 /\ q <= x => s <= x
      /\ \A x \in Nat : x % b = 0 /\ s < x => s + b <= x
  BY <1>1, <1>2, RoundedUp
<1>4. NextStart(q) = IF s < q + r THEN s ELSE s - r
  BY DEF NextStart, s, r
<1>5. \A x \in Nat : AlignedStart(x, n) <=> x % b = 0 \/ (x + r) % b = 0
  BY DEF AlignedStart, b, r
<1>6. ASSUME NEW x \in Nat, q <= x, AlignedStart(x, n)
      PROVE  NextStart(q) <= x
  <2>1. CASE x % b = 0
    <3>1. s <= x
      BY <1>3, <1>6, <2>1
    <3> QED BY <1>1, <1>3, <1>4, <3>1
  <2>2. CASE (x + r) % b = 0
    <3>1. x + r \in Nat /\ q <= x + r
      BY <1>1, <1>6
    <3>2. s <= x + r
      BY <1>3, <2>2, <3>1
    <3>3. CASE s < q + r
      <4>1. s < x + r
        BY <1>1, <1>3, <1>6, <3>3
      <4>2. s + b <= x + r
        BY <1>3, <2>2, <3>1, <4>1
      <4> QED BY <1>1, <1>3, <1>4, <3>3, <4>2
    <3>4. CASE ~(s < q + r)
      BY <1>1, <1>3, <1>4, <3>2, <3>4
    <3> QED BY <3>3, <3>4
  <2> QED BY <1>5, <1>6, <2>1, <2>2
<1>7. NextStart(q) \in Nat /\ q <= NextStart(q)
  BY <1>1, <1>3, <1>4
<1>8. AlignedStart(NextStart(q), n)
  <2>1. CASE s < q + r
    BY <1>3, <1>4, <1>5, <1>7, <2>1
  <2>2. CASE ~(s < q + r)
    <3>1. NextStart(q) + r = s
      BY <1>1, <1>3, <1>4, <2>2
    <3> QED BY <1>3, <1>5, <1>7, <3>1
  <2> QED BY <2>1, <2>2
<1> QED
  BY <1>6, <1>7, <1>8

-----------------------------------------------------------------------------
(* The loop invariant and what the loop returns. *)

SearchInv ==
    /\ count \in Nat \ {0} /\ lastpfn \in Nat /\ start \in Nat
    /\ NothingSkipped

\* allocate_many_pfn returns the first fit, or there is none.
ReturnsFirstFit ==
    /\ outcome' = "found" => IsFirstFit(start, milo_memory_map, lastpfn, count)
    /\ outcome' = "error" => Candidates(milo_memory_map, lastpfn, count) = {}

\* A window that fits where the loop looks is the first fit.
LEMMA FirstFit ==
    ASSUME SearchInv, outcome = "scan", InRange,
           AllFree(milo_memory_map, Extent(start, count))
    PROVE  IsFirstFit(start, milo_memory_map, lastpfn, count)
<1>1. start \in 0 .. lastpfn /\ AlignedStart(start, count)
  BY DEF SearchInv, NothingSkipped, InRange
<1>2. Fits(milo_memory_map, lastpfn, start, count)
  BY DEF Fits, InRange
<1> QED
  BY <1>1, <1>2 DEF IsFirstFit, Candidates, SearchInv, NothingSkipped

\* What a step has to show for the loop invariant to go on.
LEMMA SearchPrimed ==
    ASSUME milo_memory_map' = milo_memory_map, lastpfn' = lastpfn, count' = count,
           AlignedStart(start', count),
           \A q \in Candidates(milo_memory_map, lastpfn, count) : start' <= q
    PROVE  NothingSkipped'
  BY DEF NothingSkipped, AlignedStart, Remainder, BlockSize, IsBlockSize, SuperPage,
         Candidates, Fits, AllFree, Extent, FREE_PAGE

\* The loop starts at page 0, which every alignment allows.
LEMMA InitSearch == ScanInit => SearchInv
<1> SUFFICES ASSUME ScanInit PROVE SearchInv
  OBVIOUS
<1>1. count \in Nat \ {0} /\ lastpfn \in Nat /\ start = 0
  BY ScanAssumption, MapAssumption DEF ScanInit, Pfns
<1>2. BlockSize(count) \in Nat \ {0}
  BY <1>1, BlockSizeFits
<1>3. 0 % BlockSize(count) = 0
  BY <1>2, DivType
<1>4. AlignedStart(start, count)
  BY <1>1, <1>3 DEF AlignedStart
<1>5. \A q \in Candidates(milo_memory_map, lastpfn, count) : start <= q
  BY <1>1 DEF Candidates
<1> QED
  BY <1>1, <1>4, <1>5 DEF SearchInv, NothingSkipped

\* No candidate holds the used page, so each one is beyond it.
LEMMA SkipStep ==
    ASSUME SearchInv, Skip
    PROVE  SearchInv'
<1>1. PICK p \in Pfns : IsBlocker(p) /\ start' = NextStart(p + 1)
  BY DEF Skip
<1>2. p \in Nat
  BY MapAssumption DEF Pfns
<1>3. count \in Nat \ {0} /\ lastpfn \in Nat /\ start \in Nat /\ outcome = "scan"
  BY DEF SearchInv, Skip
<1>4. /\ start <= p /\ p <= start + count - 1 /\ milo_memory_map[p] # FREE_PAGE
  BY <1>1, <1>2, <1>3 DEF IsBlocker, Extent, FREE_PAGE
<1>5. ASSUME NEW q \in Candidates(milo_memory_map, lastpfn, count)
      PROVE  q \in Nat /\ AlignedStart(q, count) /\ p + 1 <= q
  <2>1. /\ q \in Nat /\ AlignedStart(q, count)
        /\ AllFree(milo_memory_map, Extent(q, count))
    BY <1>3, <1>5 DEF Candidates, Fits
  <2>2. start <= q
    BY <1>3, <1>5 DEF SearchInv, NothingSkipped
  <2>3. p \notin Extent(q, count)
    BY <1>4, <2>1 DEF AllFree
  <2> QED
    BY <1>2, <1>3, <1>4, <2>1, <2>2, <2>3 DEF Extent
<1>6. /\ start' \in Nat /\ AlignedStart(start', count)
      /\ \A q \in Candidates(milo_memory_map, lastpfn, count) : start' <= q
  <2>1. p + 1 \in Nat
    BY <1>2
  <2> QED BY <1>1, <1>3, <1>5, <2>1, NextStartExact
<1>7. /\ milo_memory_map' = milo_memory_map /\ lastpfn' = lastpfn /\ count' = count /\ outcome' = outcome
  BY DEF Skip
<1>8. NothingSkipped'
  BY <1>6, <1>7, SearchPrimed
<1> QED
  BY <1>3, <1>6, <1>7, <1>8 DEF SearchInv

\* The invariant is kept, and each return is the right one.
LEMMA NextSearch ==
    ASSUME SearchInv, [ScanNext]_scanvars
    PROVE  SearchInv' /\ (outcome' = outcome \/ ReturnsFirstFit)
<1>0. count \in Nat \ {0} /\ lastpfn \in Nat /\ start \in Nat
  BY DEF SearchInv
<1>1. CASE Skip
  BY <1>1, SkipStep DEF Skip
<1>2. CASE Found
  <2>1. IsFirstFit(start, milo_memory_map, lastpfn, count)
    BY <1>2, FirstFit DEF Found, Extent
  <2>2. /\ outcome' = "found" /\ start' = start /\ lastpfn' = lastpfn /\ count' = count
    BY <1>2 DEF Found
  <2>3. NothingSkipped'
    BY <2>2 DEF NothingSkipped
  <2> QED BY <1>0, <2>1, <2>2, <2>3 DEF SearchInv, ReturnsFirstFit
<1>3. CASE OutOfMemory
  <2>1. /\ outcome = "scan" /\ ~InRange /\ outcome' = "error"
        /\ UNCHANGED <<milo_memory_map, lastpfn, count, start>>
    BY <1>3 DEF OutOfMemory
  <2>2. ASSUME NEW q \in Candidates(milo_memory_map, lastpfn, count) PROVE FALSE
    <3>1. q \in Nat /\ q <= lastpfn /\ q + count <= lastpfn + 1
      BY <1>0, <2>2 DEF Candidates, Fits
    <3>2. start <= q
      BY <2>1, <2>2 DEF SearchInv, NothingSkipped
    <3> QED BY <1>0, <2>1, <3>1, <3>2 DEF InRange
  <2>3. AlignedStart(start, count)
    BY <2>1 DEF SearchInv, NothingSkipped
  <2>4. NothingSkipped'
    BY <2>1, <2>2, <2>3, SearchPrimed
  <2> QED BY <1>0, <2>1, <2>2, <2>4 DEF SearchInv, ReturnsFirstFit
<1>4. CASE UNCHANGED scanvars
  <2>1. UNCHANGED <<milo_memory_map, lastpfn, count, start, outcome>>
    BY <1>4 DEF scanvars
  <2>2. CASE outcome \notin {"scan", "error"}
    <3>1. NothingSkipped'
      BY <2>1, <2>2 DEF NothingSkipped
    <3> QED BY <1>0, <2>1, <3>1 DEF SearchInv
  <2>3. CASE outcome \in {"scan", "error"}
    <3>1. /\ AlignedStart(start, count)
          /\ \A q \in Candidates(milo_memory_map, lastpfn, count) : start <= q
      BY <2>3 DEF SearchInv, NothingSkipped
    <3>2. AlignedStart(start', count)
      BY <2>1, <3>1
    <3>3. NothingSkipped'
      BY <2>1, <3>1, <3>2, SearchPrimed
    <3> QED BY <1>0, <2>1, <3>3 DEF SearchInv
  <2> QED BY <2>1, <2>2, <2>3
<1> QED BY <1>1, <1>2, <1>3, <1>4 DEF ScanNext

\* The jumps of allocate_many_pfn pass over no start it should have taken.
THEOREM SearchSkipsNothing == ScanSpec => []NothingSkipped
<1>1. SearchInv /\ [ScanNext]_scanvars => SearchInv'
  BY NextSearch
<1>2. SearchInv => NothingSkipped
  BY DEF SearchInv
<1> QED
  BY InitSearch, <1>1, <1>2, PTL DEF ScanSpec

\* The loop returns the page that module Memory's allocator takes, the first
\* fit, and runs out of memory only when nothing fits.
THEOREM SearchFindsFirstFit ==
    ScanSpec => [][outcome' # outcome => ReturnsFirstFit]_scanvars
<1>1. SearchInv /\ [ScanNext]_scanvars =>
          SearchInv' /\ [outcome' # outcome => ReturnsFirstFit]_scanvars
  BY NextSearch
<1> QED
  BY InitSearch, <1>1, PTL DEF ScanSpec

-----------------------------------------------------------------------------
(* The loops of build_HWRPB_mem_map. *)

USE DEF PageTypes, FREE_PAGE, ALLOCATED_PAGE, TEMPORARY_PAGE

\* The list grows by one record, or its last record by one page.
LEMMA ExtendedShape ==
    ASSUME TypeOK, Len(cluster) > 0
    PROVE  /\ Extended \in Seq(ClusterRecords)
           /\ Len(Extended) = Len(cluster)
           /\ \A i \in 1 .. (Len(cluster) - 1) : Extended[i] = cluster[i]
           /\ Extended[Len(cluster)].start_pfn = Current.start_pfn
           /\ Extended[Len(cluster)].usage = Current.usage
           /\ Extended[Len(cluster)].numpages = Current.numpages + 1
<1>1. /\ cluster \in Seq(ClusterRecords)
      /\ Len(cluster) \in 1 .. Len(cluster)
  BY DEF TypeOK
<1>2. Current \in ClusterRecords
  BY <1>1 DEF Current
<1>3. Current.numpages + 1 \in Nat
  BY <1>2 DEF ClusterRecords
<1>4. Extended = [cluster EXCEPT ![Len(cluster)] = [Current EXCEPT !.numpages = Current.numpages + 1]]
  BY <1>1 DEF Extended, Current
<1>5. [Current EXCEPT !.numpages = Current.numpages + 1] \in ClusterRecords
  BY <1>2, <1>3 DEF ClusterRecords
<1>6. /\ [Current EXCEPT !.numpages = Current.numpages + 1].start_pfn = Current.start_pfn
      /\ [Current EXCEPT !.numpages = Current.numpages + 1].usage = Current.usage
      /\ [Current EXCEPT !.numpages = Current.numpages + 1].numpages = Current.numpages + 1
  BY <1>2 DEF ClusterRecords
<1> QED
  BY <1>1, <1>4, <1>5, <1>6

\* What the map says of a page once its turn has come.
LEMMA ReleasedType == \A t \in PageTypes : Released(t) \in PageTypes
BY DEF Released

\* Invariants of the initial state and of each loop, then the theorem.
LEMMA InitInv == Init => ClusterInv
<1> SUFFICES ASSUME Init PROVE ClusterInv
  OBVIOUS
<1>0. last \in Nat
  BY LastsAssumption, MapAssumption DEF Init, Pfns
<1>1. TypeOK
  BY <1>0 DEF Init, TypeOK
<1>2. LoopInv
  BY <1>0 DEF Init, LoopInv
<1>3. Contiguous /\ ClustersTellTheMap /\ ClustersMaximal
  BY DEF Init, Contiguous, Described, ClustersTellTheMap, ClustersMaximal
<1> QED
  BY <1>1, <1>2, <1>3 DEF ClusterInv

LEMMA FreeTemporaryStep == ClusterInv /\ FreeTemporary => ClusterInv'
<1> SUFFICES ASSUME ClusterInv, FreeTemporary PROVE ClusterInv'
  OBVIOUS
<1> USE DEF ClusterInv, FreeTemporary
<1>0. last \in Nat /\ pfn \in Nat /\ pfn \in Pfns /\ 0 .. last \subseteq Pfns
  BY LastsAssumption, MapAssumption DEF TypeOK, Pfns
<1>1. TypeOK'
  BY <1>0, ReleasedType DEF TypeOK, Maps
<1>2. LoopInv'
  BY <1>0 DEF LoopInv, TypeOK, Maps, Released
<1>3. Contiguous' /\ ClustersTellTheMap' /\ ClustersMaximal'
  BY DEF LoopInv, Contiguous, Described, ClustersTellTheMap, ClustersMaximal
<1> QED
  BY <1>1, <1>2, <1>3

LEMMA FirstClusterStep == ClusterInv /\ FirstCluster => ClusterInv'
<1> SUFFICES ASSUME ClusterInv, FirstCluster PROVE ClusterInv'
  OBVIOUS
<1> USE DEF ClusterInv, FirstCluster
<1>0. last \in Nat /\ 0 \in 0 .. last /\ 0 .. last \subseteq Pfns
  BY LastsAssumption, MapAssumption DEF TypeOK, Pfns
<1>1. NewCluster(0) \in ClusterRecords /\ map[0] = Released(before[0])
  BY <1>0 DEF TypeOK, Maps, NewCluster, ClusterRecords, LoopInv
<1>2. /\ Len(cluster') = 1 /\ cluster'[1] = NewCluster(0)
      /\ cluster' \in Seq(ClusterRecords)
  BY <1>1
<1>3. TypeOK'
  BY <1>0, <1>2 DEF TypeOK
<1>4. LoopInv'
  BY <1>0 DEF LoopInv, TypeOK
<1>5. Contiguous' /\ ClustersMaximal'
  BY <1>2 DEF Contiguous, Described, ClustersMaximal, NewCluster, EndPfn, Current,
              ClusterPages, Extent
<1>6. ClustersTellTheMap'
  BY <1>0, <1>1, <1>2 DEF ClustersTellTheMap, NewCluster, ClusterPages, Extent, EndPfn
<1> QED
  BY <1>3, <1>4, <1>5, <1>6

LEMMA ExtendClusterStep == ClusterInv /\ ExtendCluster => ClusterInv'
<1> SUFFICES ASSUME ClusterInv, ExtendCluster PROVE ClusterInv'
  OBVIOUS
<1> DEFINE n == Len(cluster)
<1>0. /\ last \in Nat /\ pfn \in 1 .. last /\ 0 .. last \subseteq Pfns
      /\ Described = pfn /\ n > 0 /\ n \in Nat
  BY LastsAssumption, MapAssumption
     DEF ClusterInv, ExtendCluster, LoopInv, Contiguous, Described, TypeOK, Pfns
<1>1. /\ cluster' \in Seq(ClusterRecords) /\ Len(cluster') = n
      /\ \A i \in 1 .. (n - 1) : cluster'[i] = cluster[i]
      /\ cluster'[n].start_pfn = cluster[n].start_pfn
      /\ cluster'[n].usage = cluster[n].usage
      /\ cluster'[n].numpages = cluster[n].numpages + 1
  BY <1>0, ExtendedShape DEF ClusterInv, ExtendCluster, Current
<1>2. \A i \in 1 .. n : cluster[i] \in ClusterRecords /\ cluster'[i] \in ClusterRecords
  BY <1>0, <1>1 DEF ClusterInv, TypeOK
<1>3. /\ map' = map /\ last' = last /\ state' = state /\ before' = before
      /\ state = "building" /\ pfn' = pfn + 1
  BY DEF ExtendCluster
<1>4. TypeOK'
  BY <1>0, <1>1, <1>3 DEF TypeOK, ClusterInv
<1>5. LoopInv'
  BY <1>0, <1>3 DEF LoopInv, ClusterInv
<1>6. Contiguous'
  <2>0. EndPfn(cluster[n]) = pfn
    BY <1>0 DEF ClusterInv, Contiguous, Current
  <2>1. EndPfn(cluster'[n]) = pfn + 1
    <3>1. cluster[n].start_pfn \in Nat /\ cluster[n].numpages \in Nat
      BY <1>0, <1>2 DEF ClusterRecords
    <3> QED BY <3>1, <2>0, <1>0, <1>1 DEF EndPfn
  <2>2. \A i \in 1 .. (n - 1) : cluster'[i + 1].start_pfn = EndPfn(cluster'[i])
    <3> TAKE i \in 1 .. (n - 1)
    <3>1. cluster'[i + 1].start_pfn = cluster[i + 1].start_pfn
      <4>1. CASE i + 1 = n
        BY <4>1, <1>1
      <4>2. CASE i + 1 # n
        BY <4>2, <1>1, <1>0
      <4> QED BY <4>1, <4>2
    <3> QED
      BY <3>1, <1>0, <1>1 DEF ClusterInv, Contiguous, EndPfn
  <2>3. cluster'[1].start_pfn = 0
    <3>1. CASE n = 1
      BY <3>1, <1>0, <1>1 DEF ClusterInv, Contiguous
    <3>2. CASE n # 1
      BY <3>2, <1>0, <1>1 DEF ClusterInv, Contiguous
    <3> QED BY <3>1, <3>2
  <2>4. \A p \in 0 .. pfn : \E i \in 1 .. n : p \in ClusterPages(cluster'[i])
    <3> TAKE p \in 0 .. pfn
    <3>1. CASE p = pfn
      <4>1. p \in ClusterPages(cluster'[n])
        BY <3>1, <2>1, <1>0, <1>1, <1>2 DEF ClusterPages, Extent, EndPfn, ClusterRecords
      <4> QED BY <4>1, <1>0
    <3>2. CASE p # pfn
      <4>1. PICK i \in 1 .. n : p \in ClusterPages(cluster[i])
        BY <3>2, <1>0 DEF ClusterInv, Contiguous
      <4>2. p \in ClusterPages(cluster'[i])
        <5>1. CASE i = n
          BY <5>1, <4>1, <1>0, <1>1, <1>2 DEF ClusterPages, Extent, ClusterRecords
        <5>2. CASE i # n
          BY <5>2, <4>1, <1>0, <1>1
        <5> QED BY <5>1, <5>2
      <4> QED BY <4>2
    <3> QED BY <3>1, <3>2
  <2> HIDE DEF n
  <2> QED
    BY <2>1, <2>2, <2>3, <2>4, <1>0, <1>1, <1>3 DEF Contiguous, Described, Current
<1>7. ClustersTellTheMap'
  <2>1. EndPfn(cluster[n]) = pfn /\ map[pfn] = cluster[n].usage
    BY <1>0 DEF ClusterInv, Contiguous, Current, ExtendCluster, SameUsage
  <2>2. map[pfn] = Released(before[pfn])
    BY <1>0, <1>3 DEF ClusterInv, LoopInv
  <2>3. \A i \in 1 .. n : \A p \in ClusterPages(cluster'[i]) :
            p <= last /\ cluster'[i].usage = Released(before[p])
    <3> SUFFICES ASSUME NEW i \in 1 .. n, NEW p \in ClusterPages(cluster'[i])
                 PROVE  p <= last /\ cluster'[i].usage = Released(before[p])
      OBVIOUS
    <3>1. CASE i < n
      BY <3>1, <1>0, <1>1 DEF ClusterInv, ClustersTellTheMap
    <3>2. CASE i = n
      <4>0. cluster[n].start_pfn \in Nat /\ cluster[n].numpages \in Nat
        BY <1>0, <1>2 DEF ClusterRecords
      <4>1. p \in ClusterPages(cluster[n]) \/ p = pfn
        BY <3>2, <4>0, <1>0, <1>1, <2>1 DEF ClusterPages, Extent, EndPfn
      <4>2. CASE p = pfn
        BY <4>2, <3>2, <1>0, <1>1, <2>1, <2>2
      <4>3. CASE p \in ClusterPages(cluster[n])
        <5>1. p <= last /\ cluster[n].usage = Released(before[p])
          BY <4>3, <1>0 DEF ClusterInv, ClustersTellTheMap
        <5> QED BY <5>1, <3>2, <1>1
      <4> QED BY <4>1, <4>2, <4>3
    <3> QED BY <3>1, <3>2, <1>0
  <2>4. \A i, j \in 1 .. n : i < j => EndPfn(cluster'[i]) <= cluster'[j].start_pfn
    <3> SUFFICES ASSUME NEW i \in 1 .. n, NEW j \in 1 .. n, i < j
                 PROVE  EndPfn(cluster'[i]) <= cluster'[j].start_pfn
      OBVIOUS
    <3>1. cluster'[i] = cluster[i] /\ cluster'[j].start_pfn = cluster[j].start_pfn
      <4>1. CASE j = n
        BY <4>1, <1>0, <1>1
      <4>2. CASE j # n
        BY <4>2, <1>0, <1>1
      <4> QED BY <4>1, <4>2
    <3> QED BY <3>1 DEF ClusterInv, ClustersTellTheMap
  <2> QED
    BY <2>3, <2>4, <1>1, <1>3 DEF ClustersTellTheMap
<1>8. ClustersMaximal'
  <2> SUFFICES ASSUME NEW i \in 1 .. (n - 1)
               PROVE  cluster'[i].usage # cluster'[i + 1].usage
    BY <1>1 DEF ClustersMaximal
  <2>1. cluster'[i + 1].usage = cluster[i + 1].usage
    <3>1. CASE i + 1 = n
      BY <3>1, <1>1
    <3>2. CASE i + 1 # n
      BY <3>2, <1>0, <1>1
    <3> QED BY <3>1, <3>2
  <2> QED
    BY <2>1, <1>0, <1>1 DEF ClusterInv, ClustersMaximal
<1> QED
  BY <1>4, <1>5, <1>6, <1>7, <1>8 DEF ClusterInv

LEMMA StartClusterStep == ClusterInv /\ StartCluster => ClusterInv'
<1> SUFFICES ASSUME ClusterInv, StartCluster PROVE ClusterInv'
  OBVIOUS
<1> DEFINE n == Len(cluster)
<1> DEFINE new == NewCluster(pfn)
<1>0. /\ last \in Nat /\ pfn \in 1 .. last /\ 0 .. last \subseteq Pfns
      /\ Described = pfn /\ n > 0 /\ n \in Nat /\ cluster \in Seq(ClusterRecords)
  BY LastsAssumption, MapAssumption
     DEF ClusterInv, StartCluster, LoopInv, Contiguous, Described, TypeOK, Pfns
<1>1. /\ new \in ClusterRecords /\ new.start_pfn = pfn /\ new.numpages = 1
      /\ new.usage = map[pfn] /\ map[pfn] = Released(before[pfn])
  BY <1>0 DEF ClusterInv, TypeOK, LoopInv, Maps, NewCluster, ClusterRecords, StartCluster
<1>2. /\ cluster' \in Seq(ClusterRecords) /\ Len(cluster') = n + 1
      /\ \A i \in 1 .. n : cluster'[i] = cluster[i]
      /\ cluster'[n + 1] = new
  BY <1>0, <1>1 DEF StartCluster
<1>3. /\ map' = map /\ last' = last /\ state' = state /\ before' = before
      /\ state = "building" /\ pfn' = pfn + 1
  BY DEF StartCluster
<1>4. TypeOK'
  BY <1>0, <1>2, <1>3 DEF TypeOK, ClusterInv
<1>5. LoopInv'
  BY <1>0, <1>3 DEF LoopInv, ClusterInv
<1>6. EndPfn(cluster[n]) = pfn /\ cluster[n].usage # map[pfn]
  BY <1>0 DEF ClusterInv, Contiguous, Current, StartCluster, SameUsage
<1>7. Contiguous'
  <2>1. \A i \in 1 .. n : cluster'[i + 1].start_pfn = EndPfn(cluster'[i])
    <3> TAKE i \in 1 .. n
    <3>1. CASE i = n
      BY <3>1, <1>0, <1>1, <1>2, <1>6
    <3>2. CASE i # n
      <4>1. i \in 1 .. (n - 1) /\ i + 1 \in 1 .. n
        BY <3>2, <1>0
      <4>2. cluster[i + 1].start_pfn = EndPfn(cluster[i])
        BY <4>1, <1>0 DEF ClusterInv, Contiguous
      <4>3. cluster'[i] = cluster[i] /\ cluster'[i + 1] = cluster[i + 1]
        BY <4>1, <1>2
      <4>4. cluster'[i + 1].start_pfn = EndPfn(cluster[i])
        BY <4>2, <4>3
      <4> HIDE DEF n
      <4>5. EndPfn(cluster'[i]) = EndPfn(cluster[i])
        BY <4>3 DEF EndPfn
      <4> QED BY <4>4, <4>5
    <3> QED BY <3>1, <3>2
  <2>2. EndPfn(cluster'[n + 1]) = pfn + 1
    BY <1>0, <1>1, <1>2 DEF EndPfn
  <2>3. cluster'[1].start_pfn = 0
    BY <1>0, <1>2 DEF ClusterInv, Contiguous
  <2>4. \A p \in 0 .. pfn : \E i \in 1 .. (n + 1) : p \in ClusterPages(cluster'[i])
    <3> TAKE p \in 0 .. pfn
    <3>1. CASE p = pfn
      <4>1. p \in ClusterPages(cluster'[n + 1])
        BY <3>1, <1>0, <1>1, <1>2 DEF ClusterPages, Extent
      <4> QED BY <4>1, <1>0
    <3>2. CASE p # pfn
      <4>1. PICK i \in 1 .. n : p \in ClusterPages(cluster[i])
        BY <3>2, <1>0 DEF ClusterInv, Contiguous
      <4> QED BY <4>1, <1>0, <1>2
    <3> QED BY <3>1, <3>2
  <2> QED
    BY <2>1, <2>2, <2>3, <2>4, <1>0, <1>2, <1>3 DEF Contiguous, Described, Current
<1>8. ClustersTellTheMap'
  <2>1. \A i \in 1 .. (n + 1) : \A p \in ClusterPages(cluster'[i]) :
            p <= last /\ cluster'[i].usage = Released(before[p])
    <3> SUFFICES ASSUME NEW i \in 1 .. (n + 1), NEW p \in ClusterPages(cluster'[i])
                 PROVE  p <= last /\ cluster'[i].usage = Released(before[p])
      OBVIOUS
    <3>1. CASE i = n + 1
      BY <3>1, <1>0, <1>1, <1>2 DEF ClusterPages, Extent
    <3>2. CASE i # n + 1
      BY <3>2, <1>0, <1>2 DEF ClusterInv, ClustersTellTheMap
    <3> QED BY <3>1, <3>2
  <2>2. \A i \in 1 .. n : EndPfn(cluster[i]) <= pfn
    <3> TAKE i \in 1 .. n
    <3>1. CASE i = n
      BY <3>1, <1>6, <1>0
    <3>2. CASE i # n
      <4>1. /\ cluster[i] \in ClusterRecords /\ cluster[n] \in ClusterRecords
            /\ EndPfn(cluster[i]) <= cluster[n].start_pfn
        BY <3>2, <1>0 DEF ClusterInv, ClustersTellTheMap
      <4> QED BY <4>1, <1>6, <1>0 DEF EndPfn, ClusterRecords
    <3> QED BY <3>1, <3>2
  <2>3. \A i, j \in 1 .. (n + 1) : i < j => EndPfn(cluster'[i]) <= cluster'[j].start_pfn
    <3> SUFFICES ASSUME NEW i \in 1 .. (n + 1), NEW j \in 1 .. (n + 1), i < j
                 PROVE  EndPfn(cluster'[i]) <= cluster'[j].start_pfn
      OBVIOUS
    <3>1. CASE j = n + 1
      BY <3>1, <2>2, <1>0, <1>1, <1>2
    <3>2. CASE j # n + 1
      BY <3>2, <1>0, <1>2 DEF ClusterInv, ClustersTellTheMap
    <3> QED BY <3>1, <3>2
  <2> QED
    BY <2>1, <2>3, <1>2, <1>3 DEF ClustersTellTheMap
<1>9. ClustersMaximal'
  <2> SUFFICES ASSUME NEW i \in 1 .. n
               PROVE  cluster'[i].usage # cluster'[i + 1].usage
    BY <1>0, <1>2 DEF ClustersMaximal
  <2>1. CASE i = n
    BY <2>1, <1>0, <1>1, <1>2, <1>6
  <2>2. CASE i # n
    BY <2>2, <1>0, <1>2 DEF ClusterInv, ClustersMaximal
  <2> QED BY <2>1, <2>2
<1> QED
  BY <1>4, <1>5, <1>7, <1>8, <1>9 DEF ClusterInv

LEMMA ReturnStep == ClusterInv /\ Return => ClusterInv'
<1> SUFFICES ASSUME ClusterInv, Return PROVE ClusterInv'
  OBVIOUS
<1>0. last \in Nat /\ pfn = last + 1 /\ state = "building"
  BY LastsAssumption, MapAssumption DEF ClusterInv, TypeOK, Return, Pfns
<1>1. TypeOK'
  BY DEF ClusterInv, TypeOK, Return
<1>2. LoopInv'
  BY <1>0 DEF ClusterInv, LoopInv, Return
<1>3. Contiguous'
  BY <1>0 DEF ClusterInv, Contiguous, Described, Current, Return
<1>4. \A p \in 0 .. last : \E i \in 1 .. Len(cluster) : p \in ClusterPages(cluster[i])
  BY <1>0 DEF ClusterInv, Contiguous, Described
<1>5. ClustersTellTheMap'
  BY <1>4 DEF ClusterInv, ClustersTellTheMap, Return
<1>6. ClustersMaximal'
  BY DEF ClusterInv, ClustersMaximal, Return
<1> QED
  BY <1>1, <1>2, <1>3, <1>5, <1>6 DEF ClusterInv

(***************************************************************************)
(* build_HWRPB_mem_map describes each page once, as MILO's map had it.     *)
(***************************************************************************)
THEOREM ClustersCorrect == Spec => []ClusterInv
<1>1. ClusterInv /\ [Next]_vars => ClusterInv'
  <2> SUFFICES ASSUME ClusterInv, [Next]_vars PROVE ClusterInv'
    OBVIOUS
  <2>1. CASE UNCHANGED vars
    BY <2>1 DEF vars, ClusterInv, TypeOK, LoopInv, Contiguous, Described, Current,
                ClustersTellTheMap, ClustersMaximal
  <2> QED
    BY <2>1, FreeTemporaryStep, FirstClusterStep, ExtendClusterStep, StartClusterStep,
       ReturnStep DEF Next
<1> QED
  BY <1>1, InitInv, PTL DEF Spec
==============================================================================
