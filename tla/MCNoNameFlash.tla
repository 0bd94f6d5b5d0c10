---------------------------- MODULE MCNoNameFlash -----------------------------
(* Chips of three bytes of two bits, blank, cleared, holding something else  *)
(* or holding the image already.                                           *)
EXTENDS NoNameFlash

MC_Image == [p \in Places |->
    CASE p = <<2, 0>> -> {0}
      [] p = <<2, 1>> -> {}
      [] p = <<3, 0>> -> {0, 1}
      [] OTHER -> {1}]

MC_Contents ==
    { [p \in Places |-> Bits], [p \in Places |-> {}], MC_Image,
      [p \in Places |-> IF p[1] = 2 THEN {} ELSE {1}],
      [p \in Places |-> IF p[2] = 0 THEN {0} ELSE Bits] }
===============================================================================
