------------------------------ MODULE NoNameFlash -----------------------------
(***************************************************************************)
(* Programming the flash memory of the NoName board (flash/noname.c).  The *)
(* memory is a pair of chips, 2 and 3, that are programmed as one.  A chip *)
(* is written byte by byte, and a write only clears bits; an erase pulse   *)
(* sets every bit of the chip.  A chip erased while some of its bytes were *)
(* not zero is over-erased and worn out, so flash_program clears the chips *)
(* (flash_prep), erases them (flash_erase), writes the image               *)
(* (flash_update) and reads it back (flash_verify).  Chips take commands   *)
(* only under the programming voltage, which the keyboard controller       *)
(* switches.  Bytes may need several pulses, and may be broken.            *)
(***************************************************************************)
EXTENDS Integers, FiniteSets

CONSTANTS
    FLASH_SIZE,     \* bytes of a chip, FLASH_SIZE_256K
    Bits,           \* bits of a byte
    SignBit,        \* the one that makes a char negative
    Image,          \* what prepare_flash_image leaves in memory, per chip
    Contents,       \* what the chips may hold to begin with
    WriteRetries,   \* 25
    EraseRetries,   \* 3000
    MaxWeak,        \* bound: pulses that do not take on a sound byte
    MaxBroken,      \* bound: bytes that are broken
    MaxRefused      \* bound: failures of the keyboard controller

ROM_PORT == 2
Chips == {ROM_PORT, ROM_PORT + 1}
Locations == 0 .. (FLASH_SIZE - 1)
Places == Chips \X Locations
Bytes == SUBSET Bits
Memories == [Places -> Bytes]

ASSUME NoNameAssumption ==
    /\ FLASH_SIZE \in Nat \ {0} /\ SignBit \in Bits
    /\ Image \in Memories /\ Contents \subseteq Memories
    /\ {WriteRetries, EraseRetries, MaxWeak, MaxBroken, MaxRefused} \subseteq Nat
    /\ EraseRetries > 0

VARIABLES
    cells,          \* the chips' bytes
    high, low,      \* places that can no longer be written, or erased
    known,          \* chips with an id the program knows
    vpp,            \* the programming voltage is on
    mode,           \* what the last command to a chip makes a read return
    weak, refused,  \* pulses and controller failures left
    pc,             \* where noname_program is
    part, i,        \* chip and location of the current loop
    count,          \* plscnt or retry
    found,          \* an id was recognised
    bootadr,        \* the prepared image
    reported        \* the errors printed

device == <<high, low, known>>
vars == <<cells, device, vpp, mode, weak, refused, pc, part, i, count, found, bootadr, reported>>

Modes == {"read", "id", "reset", "verify", "erase"}
NoImage == [p \in Places |-> {}]

TypeOK ==
    /\ cells \in Memories /\ bootadr \in Memories
    /\ high \subseteq Places /\ low \subseteq Places
    /\ known \subseteq Chips
    /\ vpp \in BOOLEAN /\ found \in BOOLEAN
    /\ mode \in [Chips -> Modes]
    /\ weak \in 0 .. MaxWeak /\ refused \in 0 .. MaxRefused
    /\ pc \in {"menu", "id", "prepare", "start", "prep", "erase", "update", "verify", "done"}
    /\ part \in Chips /\ i \in Locations
    /\ count \in Nat
    /\ reported \subseteq {"vpp", "prep", "erase", "write", "verify"}

-----------------------------------------------------------------------------
(* The chips (external).                                                   *)

\* Bytes a read may return: the byte itself only in the modes that read.
flash_read(m, c, p) == IF m[p[1]] \in {"read", "verify"} THEN {c[p]} ELSE Bytes

\* What a write of d leaves in byte p, and whether it used up a weak pulse.
WritePulses(p, d) ==
    IF ~vpp \/ p \in high THEN {<<cells, 0>>}
    ELSE {<<[cells EXCEPT ![p] = @ \cap d], 0>>}
         \cup (IF weak > 0 /\ ~(cells[p] \subseteq d) THEN {<<cells, 1>>} ELSE {})

\* What an erase pulse leaves in chip c: it takes on every sound byte, or
\* some of those that are not yet erased need another.
ErasePulses(c) ==
    LET pending == { p \in Places \ low : p[1] = c /\ cells[p] # Bits }
        After(s) == [p \in Places |-> IF p \in s THEN Bits ELSE cells[p]]
    IN  {<<After(pending), 0>>}
        \cup (IF weak > 0 THEN { <<After(s), 1>> : s \in (SUBSET pending) \ {pending} } ELSE {})

\* Without the voltage a chip forgets its command and can only be read.
ReadOnly == [c \in Chips |-> "read"]
-----------------------------------------------------------------------------
(* The voltage, and the end of a loop.                                     *)

\* activate_vpp: whether the controller passes its self-test and answers.
activate_vpp(ok) ==
    /\ ok \/ refused > 0
    /\ refused' = IF ok THEN refused ELSE refused - 1

\* deactivate_vpp.
deactivate_vpp == vpp' = FALSE /\ mode' = ReadOnly

\* flash_reset of both chips, which every pass over them begins with, and
\* the first location of the pass.
Pass(step, first) ==
    /\ pc' = step /\ part' = ROM_PORT /\ i' = first /\ count' = 0
    /\ mode' = [c \in Chips |-> "reset"]

\* The next location of a pass that goes from `first' to `last' in each chip.
NextLocation(first, last) ==
    /\ count' = 0 /\ UNCHANGED pc
    /\ IF i # last
       THEN i' = (IF first < last THEN i + 1 ELSE i - 1) /\ UNCHANGED part
       ELSE i' = first /\ part' = part + 1

PassEnds(last) == part = ROM_PORT + 1 /\ i = last

\* Mutant: keeps trying, as flash_prep does.
GivesUp_Never == FALSE

\* A write was tried WriteRetries + 2 times; further tries are not counted.
GivesUp == count > WriteRetries
OneMore == IF count > WriteRetries THEN count ELSE count + 1

Bottom == 0
Top == FLASH_SIZE - 1
Here == <<part, i>>

\* What comparing the chips with a memory may find, with chips in modes m.
Same(m, memory) ==
    { r \in BOOLEAN :
        IF r THEN \A p \in Places : memory[p] \in flash_read(m, cells, p)
        ELSE \E p \in Places : flash_read(m, cells, p) # {memory[p]} }

\* Mutant: looks at the first chip only.
verify_FirstChip(m, value) ==
    IF SignBit \in value THEN {FALSE}
    ELSE {\A p \in {ROM_PORT} \X Locations : cells[p] = value}

\* verify: the value is a signed char, so a negative one is extended and no
\* byte read is equal to it.
verify(m, value) ==
    IF SignBit \in value THEN {FALSE} ELSE Same(m, [p \in Places |-> value])

-----------------------------------------------------------------------------
Init ==
    /\ cells \in Contents
    /\ high \in SUBSET Places /\ low \in SUBSET Places
    /\ Cardinality(high) + Cardinality(low) <= MaxBroken
    /\ known \in SUBSET Chips
    /\ vpp = FALSE /\ mode = ReadOnly
    /\ weak = MaxWeak /\ refused = MaxRefused
    /\ pc = "menu" /\ part = ROM_PORT /\ i = 0 /\ count = 0
    /\ found = FALSE /\ bootadr = NoImage /\ reported = {}

\* The program command; the user may still say no.
noname_program ==
    /\ pc = "menu"
    /\ pc' = "id" /\ part' = ROM_PORT /\ found' = FALSE
    /\ UNCHANGED <<cells, device, vpp, mode, weak, refused, i, count, bootadr, reported>>

\* get_flash_id of one chip; what the last chip says decides.  The model
\* lets an unknown chip in the first socket take the same commands.
get_flash_id ==
    /\ pc = "id"
    /\ \E ok \in BOOLEAN : activate_vpp(ok) /\ found' = (ok /\ part \in known)
    /\ deactivate_vpp
    /\ \/ part = ROM_PORT /\ part' = part + 1 /\ UNCHANGED pc
       \/ /\ part # ROM_PORT /\ UNCHANGED part
          /\ pc' = IF found' THEN "prepare" ELSE "menu"
    /\ UNCHANGED <<cells, device, weak, i, count, bootadr, reported>>

prepare_flash_image ==
    /\ pc = "prepare"
    /\ bootadr' = Image /\ pc' = "start"
    /\ UNCHANGED <<cells, device, vpp, mode, weak, refused, part, i, count, found, reported>>

\* flash_program up to its first pass.  Only chip ROM_PORT is told to read.
flash_program ==
    /\ pc = "start"
    /\ \E ok \in BOOLEAN :
        /\ activate_vpp(ok)
        /\ \/ /\ ~ok
              /\ pc' = "done" /\ reported' = reported \cup {"vpp"}
              /\ UNCHANGED <<vpp, mode, part, i, count>>
           \/ /\ ok
              /\ vpp' = TRUE /\ UNCHANGED reported
              /\ LET m == [mode EXCEPT ![ROM_PORT] = "read"]
                 IN  \E blank \in verify(m, Bits), zero \in verify(m, {}) :
                       LET step == IF blank THEN "update" ELSE IF zero THEN "erase" ELSE "prep"
                       IN  Pass(step, IF step = "prep" THEN Top ELSE Bottom)
    /\ UNCHANGED <<cells, device, weak, found, bootadr>>

\* One attempt of flash_prep to clear a location, from the top down.  It
\* complains after WriteRetries but never gives up.
flash_prep ==
    /\ pc = "prep"
    /\ \E w \in WritePulses(Here, {}) :
        /\ cells' = w[1] /\ weak' = weak - w[2]
        /\ LET m == [mode EXCEPT ![part] = "verify"]
           IN  \E data \in flash_read(m, w[1], Here) :
                \/ /\ data # {}
                   /\ mode' = m /\ count' = OneMore
                   /\ reported' = IF count = WriteRetries THEN reported \cup {"prep"} ELSE reported
                   /\ UNCHANGED <<pc, part, i>>
                \/ /\ data = {} /\ ~PassEnds(Bottom)
                   /\ mode' = m /\ NextLocation(Top, Bottom) /\ UNCHANGED reported
                \/ /\ data = {} /\ PassEnds(Bottom)
                   /\ Pass("erase", Bottom) /\ UNCHANGED reported
    /\ UNCHANGED <<device, vpp, refused, found, bootadr>>

\* One look of flash_erase at a location, and an erase pulse if it is not
\* erased yet.  Giving up leaves the voltage on.
flash_erase ==
    /\ pc = "erase"
    /\ LET m == [mode EXCEPT ![part] = "verify"]
       IN  \E data \in flash_read(m, cells, Here) :
            \/ /\ data # Bits
               /\ \E e \in ErasePulses(part) : cells' = e[1] /\ weak' = weak - e[2]
               /\ mode' = [m EXCEPT ![part] = "erase"] /\ count' = count + 1
               /\ IF count + 1 = EraseRetries
                  THEN pc' = "done" /\ reported' = reported \cup {"erase"}
                  ELSE UNCHANGED <<pc, reported>>
               /\ UNCHANGED <<part, i>>
            \/ /\ data = Bits /\ ~PassEnds(Top)
               /\ mode' = m /\ NextLocation(Bottom, Top) /\ UNCHANGED <<cells, weak, reported>>
            \/ /\ data = Bits /\ PassEnds(Top)
               /\ Pass("update", Bottom) /\ UNCHANGED <<cells, weak, reported>>
    /\ UNCHANGED <<device, vpp, refused, found, bootadr>>

\* One attempt of flash_update to write a location; after WriteRetries + 2
\* it says so and goes on to the next.
flash_update ==
    /\ pc = "update"
    /\ \E w \in WritePulses(Here, bootadr[Here]) :
        /\ cells' = w[1] /\ weak' = weak - w[2]
        /\ LET m == [mode EXCEPT ![part] = "verify"]
           IN  \E data \in flash_read(m, w[1], Here) :
                LET right == data = bootadr[Here]
                    over == right \/ GivesUp
                IN  /\ reported' = IF over /\ ~right THEN reported \cup {"write"} ELSE reported
                    /\ \/ /\ ~over /\ mode' = m /\ count' = OneMore
                          /\ UNCHANGED <<pc, part, i>>
                       \/ over /\ ~PassEnds(Top) /\ mode' = m /\ NextLocation(Bottom, Top)
                       \/ over /\ PassEnds(Top) /\ Pass("verify", Bottom)
    /\ UNCHANGED <<device, vpp, refused, found, bootadr>>

\* Mutant: the second chip is reset but not told to read.
VerifyModes_One == [c \in Chips |-> IF c = ROM_PORT THEN "read" ELSE "reset"]

\* flash_verify reads everything back after telling both chips to read, and
\* prints what differs; then the voltage goes off.
VerifyModes == [c \in Chips |-> "read"]
flash_verify ==
    /\ pc = "verify"
    /\ \E same \in Same(VerifyModes, bootadr) :
        reported' = IF same THEN reported ELSE reported \cup {"verify"}
    /\ deactivate_vpp
    /\ pc' = "done"
    /\ UNCHANGED <<cells, device, weak, refused, part, i, count, found, bootadr>>

\* noname_program ends in an endless loop, for the user to reset.
Halted == pc = "done" /\ UNCHANGED vars

Work ==
    \/ get_flash_id \/ prepare_flash_image \/ flash_program
    \/ flash_prep \/ flash_erase \/ flash_update \/ flash_verify

Next == noname_program \/ Work \/ Halted

\* The program is one thread that nothing interrupts.
Spec == Init /\ [][Next]_vars /\ WF_vars(Work)

-----------------------------------------------------------------------------
\* An erase pulse never raises a byte that was not cleared before: neither
\* chip is over-erased, whatever it held and whichever pulses did not take
\* (noname.c's reason for flash_prep).
ErasesOnlyCleared ==
    [][\A p \in Places : ~(cells'[p] \subseteq cells[p]) => cells[p] = {}]_vars

\* When the program stops, either the chips hold the image or it has said
\* that they do not; flash_verify complains of nothing that is right.
FlashHoldsImage ==
    pc = "done" =>
        /\ cells = bootadr \/ reported # {}
        /\ "verify" \in reported => cells # bootadr

\* Programming ends, unless a byte that is not zero can no longer be
\* written: flash_prep then tries for ever.
ProgrammingEnds ==
    pc = "start" ~> pc = "done" \/ (pc = "prep" /\ Here \in high /\ cells[Here] # {})
==============================================================================
