------------------------------ MODULE MCMemory ------------------------------
(***************************************************************************)
(* Small instances of Memory.  A page is 16 bytes, a word 2; the first     *)
(* memory has 8 pages: 0 HWRPB, 1 free, 2 PALcode, 3 kernel, 4 free,       *)
(* 5 loader, 6 stub, 7 the map.                                            *)
(***************************************************************************)
EXTENDS Memory

MC_Palcode == {2}
MC_Kernel == {3}
MC_Loader == {5}
MC_Stub == {6}
MC_Used == [p \in Pfns |-> ALLOCATED_PAGE]
MC_JunkUsed == {MC_Used}
=============================================================================
