-------------------------------- MODULE MCFlash -------------------------------
(* Six blocks: the debug monitor in one, then NT, the SRM console, an    *)
(* older MILO, NT and MILO, or nothing, with an environment or without.    *)
EXTENDS Flash

MC_Image == [id |-> MILO, size |-> 2]

Placed(id, first, size) ==
    [b \in Blocks |-> IF b \in first .. (first + size - 1)
                      THEN Part(id, b - first, size) ELSE Erased]

Over(f, g) == [b \in Blocks |-> IF f[b] # Erased THEN f[b] ELSE g[b]]

Images ==
    { Placed(WNT, 1, 2), Placed(MILO, 1, 2), Placed(3, 1, 2),
      Over(Placed(WNT, 1, 2), Placed(MILO, 3, 2)),
      [b \in Blocks |-> Erased] }

Firmware == { Over(Placed(DBM, 0, 1), f) : f \in Images }

MC_Layouts ==
    Firmware \cup
    { [f EXCEPT ![3] = Env] : f \in { g \in Firmware : g[3] = Erased } }
===============================================================================
