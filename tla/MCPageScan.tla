----------------------------- MODULE MCPageScan -----------------------------
(* Every free/used pattern of a small map, every count up to beyond two    *)
(* superpages of four pages.                                               *)
EXTENDS PageScan

MC_LastPfns == {6, 8}
MC_Counts == {1, 2, 3, 4, 5, 7}
=============================================================================
