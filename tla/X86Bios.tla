------------------------------- MODULE X86Bios ------------------------------
(***************************************************************************)
(* The system BIOS calls that the emulator answers itself (x86_bios.c).    *)
(* Every vector starts at BIOS_SEG:0; interrupt 0x10 has the one video     *)
(* function that switches access to the frame buffer, interrupt 0x1a the   *)
(* PCI BIOS, and any other is reported and ignored.  What the PCI code     *)
(* outside this repository answers is the constant Pci.                    *)
(***************************************************************************)
EXTENDS X86Prims

CONSTANT Pci     \* [ah, bus, devfn, data]: status, slot found, value read

ASSUME PciAssumption ==
    Pci \in [ah : 0..255, bus : 0..255, devfn : 0..255, data : Nat]

BIOS_SEG == 65520

undefined_intr(m) == m

int10(m) ==
    IF Get(m, AH) = 18 /\ Get(m, BL) = 50 /\ Get(m, AL) \in {0, 1}
    THEN LET misc == sys_in(m, Byte, 972)
         IN  sys_out(m, Byte, 962, IF Get(m, AL) = 0 THEN misc | 2
                                   ELSE misc - 2 * ((misc \div 2) % 2))
    ELSE m

\* The status in AH decides the carry flag the caller tests.
PciStatus(m) == SetFlags(Put(m, AH, Pci.ah), {F_CF}, When(Pci.ah # 0, F_CF))
int1a(m) ==
    LET ax == Get(m, AX)
    IN  CASE ax = 45313 ->                                       \* 0xb101
               [SetFlags(m, {F_CF}, {}) EXCEPT
                   !.r["A"] = 1, !.r["D"] = Low(Long, 541672272),
                   !.r["B"] = 528, !.r["C"] = 256 * ((@ \div 256) % 256)]
          [] ax \in {45314, 45315} ->                            \* find
               PciStatus(IF Pci.ah = 0 THEN Put(Put(m, BH, Pci.bus), BL, Pci.devfn)
                         ELSE m)
          [] ax \in {45320, 45321, 45322} ->                     \* read
               PciStatus(Put(m, CASE ax = 45320 -> CL [] ax = 45321 -> CX
                                  [] ax = 45322 -> ECX, Pci.data))
          [] ax \in {45323, 45324, 45325} -> PciStatus(m)        \* write
          [] OTHER -> m

BiosCall(m, n) == CASE n = 16 -> int10(m) [] n = 26 -> int1a(m)
                    [] OTHER -> undefined_intr(m)

\* Every vector becomes BIOS_SEG:0.
x86_bios_init(m) ==
    [m EXCEPT !.mem = [a \in 0..1023 |-> IF a % 4 = 2 THEN BIOS_SEG % 256
                                         ELSE IF a % 4 = 3 THEN BIOS_SEG \div 256
                                         ELSE 0] @@ @]
=============================================================================
