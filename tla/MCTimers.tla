------------------------------- MODULE MCTimers -------------------------------
(* Three timers on the list, one that only mod_timer uses, one task, and a *)
(* wheel small enough for the clock to reach its second vector.            *)
EXTENDS Timers

CONSTANTS t1, t2, t3, m1, k1

MC_AddTimers == {t1, t2, t3}
MC_ModTimers == {m1}
MC_Tasks == {k1}
MC_Delays == {0, 1, 2}
MC_HandlerDelays == {1, 2}
===============================================================================
