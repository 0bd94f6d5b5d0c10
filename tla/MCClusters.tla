------------------------------ MODULE MCClusters ------------------------------
(* Every map of six pages, with all of them, three or one below lastpfn.   *)
EXTENDS Clusters

MC_Lasts == {0, 2, 5}
===============================================================================
