----------------------------- MODULE MCHandover -----------------------------
(***************************************************************************)
(* A page is 16 bytes.  Pages: 0 HWRPB, 1 free, 2 PALcode, 3 stub, 4-6     *)
(* kernel, 7-9 free, 10 loader, 11 free, 12-13 the map, and the memory     *)
(* above 16 MB from page 14.                                               *)
(***************************************************************************)
EXTENDS Handover

MC_Palcode == {2}
MC_Stub == {3}
MC_Kernel == {4, 5, 6}
MC_Loader == {10}
MC_Used == [p \in Pfns |-> ALLOCATED_PAGE]
MC_JunkUsed == {MC_Used}

\* An image that starts at its entry point, one that fills the area with a
\* prefix before the entry point, and a small one.
MC_Images == {[entry |-> 16, vaddr |-> 16, memsz |-> 20],
              [entry |-> 20, vaddr |-> 0, memsz |-> 36],
              [entry |-> 16, vaddr |-> 16, memsz |-> 7]}
=============================================================================
