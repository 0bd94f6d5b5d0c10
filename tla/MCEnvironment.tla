---------------------------- MODULE MCEnvironment -----------------------------
(* Two variables whose names begin alike (as BOOT_DEV and BOOT_FILE do),   *)
(* two values, and as many chunks as variables.                            *)
EXTENDS Environment, TLC

CONSTANTS a, b, v1, v2

MC_Vars == {a, b}
MC_Values == {v1, v2}
MC_Initial(v) == "same"
MC_Symmetry == Permutations(MC_Vars) \cup Permutations(MC_Values)
===============================================================================
