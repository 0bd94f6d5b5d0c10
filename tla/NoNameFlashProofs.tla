--------------------------- MODULE NoNameFlashProofs --------------------------
(***************************************************************************)
(* Proofs about NoNameFlash, for chips of any size, any image, contents,   *)
(* broken bytes and pulses that do not take: no byte is over-erased, and   *)
(* the program does not stop in silence with a wrong image.                *)
(***************************************************************************)
EXTENDS NoNameFlash, TLAPS

-----------------------------------------------------------------------------
(* The inductive invariant. *)

\* Until flash_program both chips can be read.
ModeInv == pc \in {"menu", "id", "prepare", "start"} => mode = ReadOnly

\* flash_prep has cleared what it has passed, from the top of each chip.
ClearedInv ==
    pc = "prep" =>
        \A p \in Places :
            p[1] < part \/ (p[1] = part /\ p[2] > i) => cells[p] = {}

\* While the chips are erased every byte is still cleared or already erased.
ErasedInv == pc = "erase" => \A p \in Places : cells[p] = {} \/ cells[p] = Bits

\* What the program has said when it stops.
ReportInv ==
    /\ "verify" \in reported => pc = "done" /\ cells # bootadr
    /\ pc = "done" => cells = bootadr \/ reported # {}

NoNameInv == TypeOK /\ ModeInv /\ ClearedInv /\ ErasedInv /\ ReportInv

-----------------------------------------------------------------------------
(* The operators. *)

LEMMA PlacesKnown ==
    /\ Chips = {2, 3} /\ ROM_PORT = 2 /\ ROM_PORT \in Chips
    /\ FLASH_SIZE \in Nat \ {0} /\ Bottom = 0 /\ Top = FLASH_SIZE - 1
    /\ Bottom \in Locations /\ Top \in Locations /\ Locations \subseteq Nat
    /\ \A l \in Locations : 0 <= l /\ l <= Top
    /\ {} \in Bytes /\ Bits \in Bytes
  BY NoNameAssumption DEF Chips, ROM_PORT, Bottom, Top, Locations, Bytes

LEMMA PlaceParts ==
    \A p \in Places :
        /\ p = <<p[1], p[2]>> /\ p[1] \in {2, 3} /\ p[1] \in Nat
        /\ p[2] \in Locations /\ p[2] \in Nat /\ 0 <= p[2] /\ p[2] <= Top
  <1> SUFFICES ASSUME NEW c \in Chips, NEW l \in Locations, NEW p, p = <<c, l>>
               PROVE  /\ p = <<p[1], p[2]>> /\ p[1] \in {2, 3} /\ p[1] \in Nat
                      /\ p[2] \in Locations /\ p[2] \in Nat /\ 0 <= p[2] /\ p[2] <= Top
    BY DEF Places
  <1>1. p[1] = c /\ p[2] = l
    OBVIOUS
  <1>2. c \in {2, 3} /\ l \in Nat /\ 0 <= l /\ l <= Top
    BY PlacesKnown
  <1> QED BY <1>1, <1>2

\* A read in a mode that reads returns the byte.
LEMMA ReadExact ==
    ASSUME NEW m, NEW c, NEW p, m[p[1]] \in {"read", "verify"}
    PROVE  flash_read(m, c, p) = {c[p]}
  BY DEF flash_read

\* A write changes one byte, and only clears bits of it.
LEMMA WriteEffect ==
    ASSUME NEW p \in Places, NEW d \in Bytes, NEW w \in WritePulses(p, d),
           cells \in Memories, weak \in Nat
    PROVE  /\ w[1] \in Memories /\ w[2] \in {0, 1} /\ weak - w[2] \in 0 .. weak
           /\ \A q \in Places : w[1][q] \subseteq cells[q] /\ (q # p => w[1][q] = cells[q])
  <1>1. CASE w = <<cells, 0>>
    BY <1>1
  <1>2. CASE w = <<cells, 1>> /\ weak > 0
    BY <1>2
  <1>3. CASE w = <<[cells EXCEPT ![p] = @ \cap d], 0>>
    <2>1. \A q \in Places : cells[q] \in Bytes
      BY DEF Memories
    <2>2. cells[p] \cap d \in Bytes
      BY <2>1 DEF Bytes
    <2>3. w[1] \in Memories
      BY <1>3, <2>2 DEF Memories
    <2>4. \A q \in Places : w[1][q] = IF q = p THEN cells[p] \cap d ELSE cells[q]
      BY <1>3 DEF Memories
    <2> QED BY <1>3, <2>3, <2>4
  <1> QED BY <1>1, <1>2, <1>3 DEF WritePulses

\* An erase pulse erases some bytes of a chip that were not.
LEMMA EraseEffect ==
    ASSUME NEW c \in Chips, NEW e \in ErasePulses(c), cells \in Memories, weak \in Nat
    PROVE  /\ e[1] \in Memories /\ e[2] \in {0, 1} /\ weak - e[2] \in 0 .. weak
           /\ \A q \in Places : e[1][q] = cells[q] \/ (e[1][q] = Bits /\ cells[q] # Bits)
  <1> DEFINE pending == { p \in Places \ low : p[1] = c /\ cells[p] # Bits }
             After(s) == [p \in Places |-> IF p \in s THEN Bits ELSE cells[p]]
  <1>1. PICK s \in SUBSET pending : e[1] = After(s) /\ (e[2] = 0 \/ (e[2] = 1 /\ weak > 0))
    <2>1. CASE e = <<After(pending), 0>>
      BY <2>1
    <2>2. CASE weak > 0 /\ e \in { <<After(s), 1>> : s \in (SUBSET pending) \ {pending} }
      BY <2>2
    <2> QED BY <2>1, <2>2 DEF ErasePulses
  <1>2. \A q \in Places : q \in s => cells[q] # Bits
    BY <1>1
  <1>3. \A q \in Places : After(s)[q] = IF q \in s THEN Bits ELSE cells[q]
    OBVIOUS
  <1>4. After(s) \in Memories
    BY PlacesKnown DEF Memories
  <1> HIDE DEF pending, After
  <1>5. \A q \in Places : e[1][q] = cells[q] \/ (e[1][q] = Bits /\ cells[q] # Bits)
    BY <1>1, <1>2, <1>3
  <1>6. e[1] \in Memories /\ e[2] \in {0, 1} /\ weak - e[2] \in 0 .. weak
    BY <1>1, <1>4
  <1> QED BY <1>5, <1>6

\* A comparison in modes that read tells whether the chips hold a memory.
LEMMA SameExact ==
    ASSUME NEW m, \A c \in Chips : m[c] \in {"read", "verify"}, NEW memory, NEW r \in Same(m, memory)
    PROVE  IF r THEN \A p \in Places : cells[p] = memory[p]
                ELSE \E p \in Places : cells[p] # memory[p]
  <1>1. \A p \in Places : flash_read(m, cells, p) = {cells[p]}
    <2> SUFFICES ASSUME NEW p \in Places PROVE flash_read(m, cells, p) = {cells[p]}
      OBVIOUS
    <2>1. p[1] \in Chips
      BY DEF Places
    <2> QED BY <2>1, ReadExact
  <1>2. r \in BOOLEAN /\ IF r THEN \A p \in Places : memory[p] \in flash_read(m, cells, p)
                              ELSE \E p \in Places : flash_read(m, cells, p) # {memory[p]}
    BY DEF Same
  <1> QED BY <1>1, <1>2

\* No byte can be compared with one whose sign bit is set.
LEMMA NeverBlank == \A m : verify(m, Bits) = {FALSE}
  BY NoNameAssumption DEF verify

-----------------------------------------------------------------------------
(* The first and the next location of a pass. *)

LEMMA PassTypes ==
    ASSUME NEW step, NEW first \in Locations, Pass(step, first)
    PROVE  /\ pc' = step /\ part' \in Chips /\ part' = ROM_PORT /\ i' \in Locations /\ i' = first
           /\ count' \in Nat /\ mode' \in [Chips -> Modes]
  BY PlacesKnown DEF Pass, Modes

LEMMA NextTypes ==
    ASSUME TypeOK, NEW first \in {Bottom, Top}, NEW last \in {Bottom, Top}, first # last \/ Top = 0,
           ~PassEnds(last), NextLocation(first, last)
    PROVE  /\ pc' = pc /\ part' \in Chips /\ i' \in Locations /\ count' \in Nat
  <1>1. part \in {2, 3} /\ i \in Nat /\ 0 <= i /\ i <= Top /\ Top \in Nat /\ Top = FLASH_SIZE - 1
        /\ FLASH_SIZE \in Nat /\ Bottom = 0 /\ ROM_PORT = 2 /\ Chips = {2, 3}
    BY PlacesKnown DEF TypeOK
  <1>2. count' = 0 /\ pc' = pc
    BY DEF NextLocation
  <1>3. CASE i = last
    <2>1. i' = first /\ part' = part + 1 /\ part # ROM_PORT + 1
      BY <1>3 DEF NextLocation, PassEnds
    <2> QED BY <1>1, <1>2, <2>1, PlacesKnown
  <1>4. CASE i # last
    <2>1. part' = part /\ i' = (IF first < last THEN i + 1 ELSE i - 1)
      BY <1>4 DEF NextLocation
    <2>2. i' \in 0 .. Top
      BY <1>1, <1>4, <2>1
    <2>3. Locations = 0 .. Top
      BY <1>1 DEF Locations
    <2> QED BY <1>1, <1>2, <2>1, <2>2, <2>3
  <1> QED BY <1>3, <1>4

-----------------------------------------------------------------------------
(* One lemma per action: it preserves NoNameInv, and raises no byte that   *)
(* was not cleared.                                                        *)

OnlyCleared == \A p \in Places : ~(cells'[p] \subseteq cells[p]) => cells[p] = {}

LEMMA SameCells == cells' = cells => OnlyCleared
  BY DEF OnlyCleared

LEMMA InitNoName == Init => NoNameInv
  <1> SUFFICES ASSUME Init PROVE NoNameInv
    OBVIOUS
  <1>1. NoImage \in Memories
    BY PlacesKnown DEF NoImage, Memories
  <1>2. ReadOnly \in [Chips -> Modes]
    BY DEF ReadOnly, Modes
  <1>3. TypeOK
    <2>1. cells \in Memories
      BY NoNameAssumption DEF Init
    <2>2. /\ high \subseteq Places /\ low \subseteq Places /\ known \subseteq Chips
          /\ pc = "menu" /\ part = ROM_PORT /\ i = 0 /\ count = 0 /\ vpp = FALSE /\ found = FALSE
          /\ weak = MaxWeak /\ refused = MaxRefused /\ reported = {}
          /\ mode = ReadOnly /\ bootadr = NoImage
      BY DEF Init
    <2>3. MaxWeak \in Nat /\ MaxRefused \in Nat
      BY NoNameAssumption
    <2>4. weak \in 0 .. MaxWeak /\ refused \in 0 .. MaxRefused /\ count \in Nat
      BY <2>2, <2>3
    <2>5. part \in Chips /\ i \in Locations
      BY <2>2, PlacesKnown
    <2> HIDE DEF NoImage, ReadOnly
    <2> QED BY <1>1, <1>2, <2>1, <2>2, <2>4, <2>5 DEF TypeOK
  <1> QED BY <1>3 DEF Init, NoNameInv, ModeInv, ClearedInv, ErasedInv, ReportInv

\* Up to the first pass.
LEMMA BeginStep ==
    ASSUME NoNameInv, noname_program \/ get_flash_id \/ prepare_flash_image
    PROVE  NoNameInv' /\ OnlyCleared
  <1>1. CASE noname_program
    <2>1. TypeOK'
      BY <1>1, PlacesKnown DEF noname_program, NoNameInv, TypeOK, device
    <2> QED BY <1>1, <2>1, SameCells
            DEF noname_program, NoNameInv, ModeInv, ClearedInv, ErasedInv, ReportInv, ReadOnly
  <1>2. CASE get_flash_id
    <2>1. ReadOnly \in [Chips -> Modes]
      BY DEF ReadOnly, Modes
    <2>2. PICK ok \in BOOLEAN : activate_vpp(ok) /\ found' = (ok /\ part \in known)
      BY <1>2 DEF get_flash_id
    <2>3. refused' \in 0 .. MaxRefused
      BY <2>2, NoNameAssumption DEF activate_vpp, NoNameInv, TypeOK
    <2>4. part' \in Chips /\ pc' \in {"id", "prepare", "menu"}
      BY <1>2, PlacesKnown DEF get_flash_id, NoNameInv, TypeOK
    <2>5. /\ vpp' = FALSE /\ mode' = ReadOnly /\ found' \in BOOLEAN
          /\ UNCHANGED <<cells, device, weak, i, count, bootadr, reported>>
      BY <1>2, <2>2 DEF get_flash_id, deactivate_vpp
    <2>6. TypeOK'
      BY <2>1, <2>3, <2>4, <2>5 DEF NoNameInv, TypeOK, device
    <2>7. pc = "id"
      BY <1>2 DEF get_flash_id
    <2> QED BY <2>4, <2>5, <2>6, <2>7, SameCells
            DEF NoNameInv, ModeInv, ClearedInv, ErasedInv, ReportInv, ReadOnly
  <1>3. CASE prepare_flash_image
    <2>1. TypeOK'
      BY <1>3, NoNameAssumption DEF prepare_flash_image, NoNameInv, TypeOK, device
    <2> QED BY <1>3, <2>1, SameCells
            DEF prepare_flash_image, NoNameInv, ModeInv, ClearedInv, ErasedInv, ReportInv, ReadOnly
  <1> QED BY <1>1, <1>2, <1>3

\* flash_program erases at once only what it has found cleared.
LEMMA ProgramStep == NoNameInv /\ flash_program => NoNameInv' /\ OnlyCleared
  <1> SUFFICES ASSUME NoNameInv, flash_program PROVE NoNameInv' /\ OnlyCleared
    OBVIOUS
  <1>1. PICK ok \in BOOLEAN :
        /\ activate_vpp(ok)
        /\ \/ /\ ~ok
              /\ pc' = "done" /\ reported' = reported \cup {"vpp"}
              /\ UNCHANGED <<vpp, mode, part, i, count>>
           \/ /\ ok
              /\ vpp' = TRUE /\ UNCHANGED reported
              /\ LET m == [mode EXCEPT ![ROM_PORT] = "read"]
                 IN  \E blank \in verify(m, Bits), zero \in verify(m, {}) :
                       LET step == IF blank THEN "update" ELSE IF zero THEN "erase" ELSE "prep"
                       IN  Pass(step, IF step = "prep" THEN Top ELSE Bottom)
    BY DEF flash_program
  <1>2. /\ pc = "start" /\ mode = ReadOnly /\ "verify" \notin reported
        /\ UNCHANGED <<cells, device, weak, found, bootadr>>
    BY DEF flash_program, NoNameInv, ModeInv, ReportInv
  <1>3. refused' \in 0 .. MaxRefused
    BY <1>1, NoNameAssumption DEF activate_vpp, NoNameInv, TypeOK
  <1>4. CASE ~ok
    <2>1. TypeOK'
      BY <1>1, <1>2, <1>3, <1>4 DEF NoNameInv, TypeOK, device
    <2> QED BY <1>1, <1>2, <1>4, <2>1, SameCells
            DEF NoNameInv, ModeInv, ClearedInv, ErasedInv, ReportInv
  <1>5. CASE ok
    <2> DEFINE m == [mode EXCEPT ![ROM_PORT] = "read"]
    <2>1. \A c \in Chips : m[c] \in {"read", "verify"}
      BY <1>2 DEF ReadOnly
    <2>2. PICK zero \in verify(m, {}) :
             LET step == IF zero THEN "erase" ELSE "prep"
             IN  Pass(step, IF step = "prep" THEN Top ELSE Bottom)
      BY <1>1, <1>5, NeverBlank
    <2>3. zero \in Same(m, [p \in Places |-> {}])
      BY <2>2 DEF verify
    <2>4. zero \in BOOLEAN /\ (zero => \A p \in Places : cells[p] = {})
      <3>1. zero \in BOOLEAN
        BY <2>3 DEF Same
      <3> DEFINE none == [p \in Places |-> {}]
      <3>2. \A p \in Places : none[p] = {}
        OBVIOUS
      <3>3. zero \in Same(m, none)
        BY <2>3
      <3> HIDE DEF none, m
      <3>4. IF zero THEN \A p \in Places : cells[p] = none[p]
                    ELSE \E p \in Places : cells[p] # none[p]
        <4>1. \A c \in Chips : m[c] \in {"read", "verify"}
          BY <2>1
        <4> QED BY <3>3, <4>1, SameExact
      <3> QED BY <3>1, <3>2, <3>4
    <2> HIDE DEF m
    <2>5. PICK step \in {"erase", "prep"}, first \in Locations :
             /\ Pass(step, first)
             /\ \/ zero /\ step = "erase"
                \/ step = "prep" /\ first = Top
      <3>1. CASE zero
        <4>1. Pass("erase", Bottom)
          BY <2>2, <3>1
        <4> QED BY <3>1, <4>1, PlacesKnown
      <3>2. CASE ~zero
        <4>1. Pass("prep", Top)
          BY <2>2, <3>2
        <4> QED BY <4>1, PlacesKnown
      <3> QED BY <3>1, <3>2
    <2>6. /\ pc' = step /\ part' \in Chips /\ part' = ROM_PORT /\ i' \in Locations /\ i' = first
          /\ count' \in Nat /\ mode' \in [Chips -> Modes]
      BY <2>5, PassTypes
    <2>7. vpp' = TRUE /\ reported' = reported
      BY <1>1, <1>5
    <2>8. TypeOK'
      BY <1>2, <1>3, <2>5, <2>6, <2>7 DEF NoNameInv, TypeOK, device
    <2>9. ClearedInv'
      <3> SUFFICES ASSUME pc' = "prep", NEW p \in Places, p[1] < part' \/ (p[1] = part' /\ p[2] > i')
                   PROVE  FALSE
        BY DEF ClearedInv, Places, Locations, Chips, ROM_PORT
      <3>1. p[1] \in {2, 3} /\ p[2] \in Locations
        BY PlacesKnown DEF Places
      <3>2. p[2] \in Nat /\ p[2] <= Top /\ Top \in Nat /\ ROM_PORT = 2
        BY <3>1, PlacesKnown
      <3>3. part' = 2 /\ i' = Top
        BY <2>5, <2>6, <3>2
      <3> QED BY <3>1, <3>2, <3>3
    <2>10. ErasedInv'
      BY <1>2, <2>4, <2>5, <2>6 DEF ErasedInv, Places, Locations, Chips, ROM_PORT
    <2>11. ModeInv' /\ ReportInv'
      BY <1>2, <2>5, <2>6, <2>7 DEF ModeInv, ReportInv
    <2> QED BY <1>2, <2>8, <2>9, <2>10, <2>11, SameCells DEF NoNameInv
  <1> QED BY <1>4, <1>5

\* A byte that flash_prep has passed is cleared, and stays so.
LEMMA PrepStep == NoNameInv /\ flash_prep => NoNameInv' /\ OnlyCleared
  <1> SUFFICES ASSUME NoNameInv, flash_prep PROVE NoNameInv' /\ OnlyCleared
    OBVIOUS
  <1> DEFINE m == [mode EXCEPT ![part] = "verify"]
  <1>1. PICK w \in WritePulses(Here, {}) :
        /\ cells' = w[1] /\ weak' = weak - w[2]
        /\ \E data \in flash_read(m, w[1], Here) :
                \/ /\ data # {}
                   /\ mode' = m /\ count' = OneMore
                   /\ reported' = IF count = WriteRetries THEN reported \cup {"prep"} ELSE reported
                   /\ UNCHANGED <<pc, part, i>>
                \/ /\ data = {} /\ ~PassEnds(Bottom)
                   /\ mode' = m /\ NextLocation(Top, Bottom) /\ UNCHANGED reported
                \/ /\ data = {} /\ PassEnds(Bottom)
                   /\ Pass("erase", Bottom) /\ UNCHANGED reported
    BY DEF flash_prep
  <1>2. pc = "prep" /\ UNCHANGED <<device, vpp, refused, found, bootadr>> /\ "verify" \notin reported
    BY DEF flash_prep, NoNameInv, ReportInv
  <1>3. /\ TypeOK /\ cells \in Memories /\ weak \in 0 .. MaxWeak /\ MaxWeak \in Nat
        /\ Here \in Places /\ part \in Chips /\ i \in Locations /\ mode \in [Chips -> Modes]
    BY NoNameAssumption DEF NoNameInv, TypeOK, Here, Places
  <1>4. /\ w[1] \in Memories /\ weak - w[2] \in 0 .. weak
        /\ \A q \in Places : w[1][q] \subseteq cells[q] /\ (q # Here => w[1][q] = cells[q])
    BY <1>3, PlacesKnown, WriteEffect
  <1>5. flash_read(m, w[1], Here) = {w[1][Here]}
    <2>1. m[Here[1]] \in {"read", "verify"}
      BY <1>3 DEF Here
    <2> HIDE DEF m
    <2> QED BY <2>1, ReadExact
  <1>6. m \in [Chips -> Modes]
    BY <1>3 DEF Modes
  <1>7. cells' \in Memories /\ weak' \in 0 .. MaxWeak /\ \A q \in Places : cells'[q] \subseteq cells[q]
    BY <1>1, <1>3, <1>4
  <1>8. OnlyCleared
    BY <1>7 DEF OnlyCleared
  <1>9. \A p \in Places : p[1] < part \/ (p[1] = part /\ p[2] > i) => cells'[p] = {}
    BY <1>2, <1>7 DEF NoNameInv, ClearedInv
  <1> HIDE DEF m
  <1>10. \/ /\ mode' = m /\ count' = OneMore
            /\ reported' = IF count = WriteRetries THEN reported \cup {"prep"} ELSE reported
            /\ UNCHANGED <<pc, part, i>>
         \/ /\ cells'[Here] = {} /\ ~PassEnds(Bottom)
            /\ mode' = m /\ NextLocation(Top, Bottom) /\ UNCHANGED reported
         \/ /\ cells'[Here] = {} /\ PassEnds(Bottom)
            /\ Pass("erase", Bottom) /\ UNCHANGED reported
    BY <1>1, <1>5
  <1>11. CASE /\ mode' = m /\ count' = OneMore
              /\ reported' = IF count = WriteRetries THEN reported \cup {"prep"} ELSE reported
              /\ UNCHANGED <<pc, part, i>>
    <2>1. count' \in Nat
      BY <1>3, <1>11 DEF OneMore, TypeOK
    <2>2. TypeOK'
      BY <1>2, <1>3, <1>6, <1>7, <1>11, <2>1 DEF TypeOK, device
    <2>3. ClearedInv'
      BY <1>9, <1>11 DEF ClearedInv, Places, Locations, Chips, ROM_PORT
    <2>4. ModeInv' /\ ErasedInv' /\ ReportInv'
      BY <1>2, <1>11 DEF ModeInv, ErasedInv, ReportInv
    <2> QED BY <1>8, <2>2, <2>3, <2>4 DEF NoNameInv
  <1>12. CASE /\ cells'[Here] = {} /\ ~PassEnds(Bottom)
              /\ mode' = m /\ NextLocation(Top, Bottom) /\ UNCHANGED reported
    <2>1. Top # Bottom \/ Top = 0
      BY PlacesKnown
    <2>2. pc' = pc /\ part' \in Chips /\ i' \in Locations /\ count' \in Nat
      BY <1>3, <1>12, <2>1, NextTypes
    <2>3. TypeOK'
      BY <1>2, <1>3, <1>6, <1>7, <1>12, <2>2 DEF TypeOK, device
    <2>4. ASSUME NEW p \in Places, p[1] < part' \/ (p[1] = part' /\ p[2] > i')
          PROVE  cells'[p] = {}
      <3>1. /\ p = <<p[1], p[2]>> /\ p[1] \in Nat /\ p[2] \in Nat /\ p[2] <= Top /\ 0 <= p[2]
            /\ Top \in Nat /\ part \in Nat /\ i \in Nat /\ Bottom = 0
        BY <1>3, PlacesKnown, PlaceParts
      <3>2. CASE p = Here
        BY <1>12, <3>2
      <3>3. CASE p # Here
        <4>1. p[1] # part \/ p[2] # i
          BY <3>1, <3>3 DEF Here
        <4>2. IF i # Bottom THEN i' = i - 1 /\ part' = part ELSE i' = Top /\ part' = part + 1
          BY <1>12, <3>1 DEF NextLocation
        <4>3. p[1] < part \/ (p[1] = part /\ p[2] > i)
          BY <2>4, <3>1, <4>1, <4>2
        <4> QED BY <1>9, <4>3
      <3> QED BY <3>2, <3>3
    <2>5. ClearedInv'
      BY <2>4 DEF ClearedInv, Places, Locations, Chips, ROM_PORT
    <2>6. ModeInv' /\ ErasedInv' /\ ReportInv'
      BY <1>2, <1>12, <2>2 DEF ModeInv, ErasedInv, ReportInv
    <2> QED BY <1>8, <2>3, <2>5, <2>6 DEF NoNameInv
  <1>13. CASE /\ cells'[Here] = {} /\ PassEnds(Bottom)
              /\ Pass("erase", Bottom) /\ UNCHANGED reported
    <2>1. pc' = "erase" /\ part' \in Chips /\ i' \in Locations /\ count' \in Nat
          /\ mode' \in [Chips -> Modes]
      BY <1>13, PlacesKnown, PassTypes
    <2>2. TypeOK'
      BY <1>2, <1>3, <1>7, <1>13, <2>1 DEF TypeOK, device
    <2>3. ASSUME NEW p \in Places PROVE cells'[p] = {}
      <3>1. /\ p = <<p[1], p[2]>> /\ p[1] \in {2, 3} /\ p[2] \in Nat /\ 0 <= p[2]
            /\ part = 3 /\ i = 0
        BY <1>13, PlacesKnown, PlaceParts DEF PassEnds
      <3>2. p = Here \/ p[1] < part \/ (p[1] = part /\ p[2] > i)
        BY <3>1 DEF Here
      <3> QED BY <1>9, <1>13, <3>2
    <2>4. ErasedInv'
      BY <2>3 DEF ErasedInv, Places, Locations, Chips, ROM_PORT
    <2>5. ModeInv' /\ ClearedInv' /\ ReportInv'
      BY <1>2, <1>13, <2>1 DEF ModeInv, ClearedInv, ReportInv
    <2> QED BY <1>8, <2>2, <2>4, <2>5 DEF NoNameInv
  <1> QED BY <1>10, <1>11, <1>12, <1>13

\* An erase pulse raises only bytes that flash_prep has cleared.
LEMMA EraseStep == NoNameInv /\ flash_erase => NoNameInv' /\ OnlyCleared
  <1> SUFFICES ASSUME NoNameInv, flash_erase PROVE NoNameInv' /\ OnlyCleared
    OBVIOUS
  <1> DEFINE m == [mode EXCEPT ![part] = "verify"]
  <1>1. \/ /\ \E e \in ErasePulses(part) : cells' = e[1] /\ weak' = weak - e[2]
           /\ mode' = [m EXCEPT ![part] = "erase"] /\ count' = count + 1
           /\ IF count + 1 = EraseRetries
              THEN pc' = "done" /\ reported' = reported \cup {"erase"}
              ELSE UNCHANGED <<pc, reported>>
           /\ UNCHANGED <<part, i>>
        \/ /\ ~PassEnds(Top)
           /\ mode' = m /\ NextLocation(Bottom, Top) /\ UNCHANGED <<cells, weak, reported>>
        \/ Pass("update", Bottom) /\ UNCHANGED <<cells, weak, reported>>
    BY DEF flash_erase
  <1>2. pc = "erase" /\ UNCHANGED <<device, vpp, refused, found, bootadr>> /\ "verify" \notin reported
    BY DEF flash_erase, NoNameInv, ReportInv
  <1>3. /\ TypeOK /\ cells \in Memories /\ weak \in 0 .. MaxWeak /\ MaxWeak \in Nat
        /\ part \in Chips /\ i \in Locations /\ mode \in [Chips -> Modes] /\ count \in Nat
        /\ \A p \in Places : cells[p] = {} \/ cells[p] = Bits
    BY <1>2, NoNameAssumption DEF NoNameInv, TypeOK, ErasedInv
  <1>4. m \in [Chips -> Modes] /\ [m EXCEPT ![part] = "erase"] \in [Chips -> Modes]
    BY <1>3 DEF Modes
  <1> HIDE DEF m
  <1>5. CASE /\ \E e \in ErasePulses(part) : cells' = e[1] /\ weak' = weak - e[2]
             /\ mode' = [m EXCEPT ![part] = "erase"] /\ count' = count + 1
             /\ IF count + 1 = EraseRetries
                THEN pc' = "done" /\ reported' = reported \cup {"erase"}
                ELSE UNCHANGED <<pc, reported>>
             /\ UNCHANGED <<part, i>>
    <2>1. PICK e \in ErasePulses(part) : cells' = e[1] /\ weak' = weak - e[2]
      BY <1>5
    <2>2. /\ e[1] \in Memories /\ weak - e[2] \in 0 .. weak
          /\ \A q \in Places : e[1][q] = cells[q] \/ (e[1][q] = Bits /\ cells[q] # Bits)
      BY <1>3, EraseEffect
    <2>3. cells' \in Memories /\ weak' \in 0 .. MaxWeak
      BY <1>3, <2>1, <2>2
    <2>4. \A q \in Places : cells'[q] = cells[q] \/ (cells'[q] = Bits /\ cells[q] = {})
      BY <1>3, <2>1, <2>2
    <2>5. OnlyCleared
      BY <2>4 DEF OnlyCleared
    <2>6. \/ pc' = "done" /\ reported' = reported \cup {"erase"}
          \/ pc' = pc /\ reported' = reported
      BY <1>5
    <2>7. TypeOK'
      <3>1. /\ pc' \in {"erase", "done"} /\ reported' \subseteq {"vpp", "prep", "erase", "write", "verify"}
        BY <1>2, <1>3, <2>6 DEF TypeOK
      <3>2. mode' \in [Chips -> Modes] /\ count' \in Nat /\ part' = part /\ i' = i
        BY <1>3, <1>4, <1>5
      <3> QED BY <1>2, <1>3, <2>3, <3>1, <3>2 DEF TypeOK, device
    <2>8. \A p \in Places : cells'[p] = {} \/ cells'[p] = Bits
      BY <1>3, <2>4
    <2>9. ErasedInv'
      BY <2>8 DEF ErasedInv, Places, Locations, Chips, ROM_PORT
    <2>10. ModeInv' /\ ClearedInv' /\ ReportInv'
      BY <1>2, <2>6 DEF ModeInv, ClearedInv, ReportInv
    <2> QED BY <2>5, <2>7, <2>9, <2>10 DEF NoNameInv
  <1>6. CASE /\ ~PassEnds(Top)
             /\ mode' = m /\ NextLocation(Bottom, Top) /\ UNCHANGED <<cells, weak, reported>>
    <2>1. Top # Bottom \/ Top = 0
      BY PlacesKnown
    <2>2. pc' = pc /\ part' \in Chips /\ i' \in Locations /\ count' \in Nat
      BY <1>3, <1>6, <2>1, NextTypes
    <2>3. TypeOK'
      BY <1>2, <1>3, <1>4, <1>6, <2>2 DEF TypeOK, device
    <2>4. ErasedInv'
      BY <1>3, <1>6 DEF ErasedInv, Places, Locations, Chips, ROM_PORT
    <2>5. ModeInv' /\ ClearedInv' /\ ReportInv'
      BY <1>2, <1>6, <2>2 DEF ModeInv, ClearedInv, ReportInv
    <2> QED BY <1>6, <2>3, <2>4, <2>5, SameCells DEF NoNameInv
  <1>7. CASE Pass("update", Bottom) /\ UNCHANGED <<cells, weak, reported>>
    <2>1. pc' = "update" /\ part' \in Chips /\ i' \in Locations /\ count' \in Nat
          /\ mode' \in [Chips -> Modes]
      BY <1>7, PlacesKnown, PassTypes
    <2>2. TypeOK'
      BY <1>2, <1>3, <1>7, <2>1 DEF TypeOK, device
    <2>3. ModeInv' /\ ClearedInv' /\ ErasedInv' /\ ReportInv'
      BY <1>2, <1>7, <2>1 DEF ModeInv, ClearedInv, ErasedInv, ReportInv
    <2> QED BY <1>7, <2>2, <2>3, SameCells DEF NoNameInv
  <1> QED BY <1>1, <1>5, <1>6, <1>7

\* A write of the image only clears bits.
LEMMA UpdateStep == NoNameInv /\ flash_update => NoNameInv' /\ OnlyCleared
  <1> SUFFICES ASSUME NoNameInv, flash_update PROVE NoNameInv' /\ OnlyCleared
    OBVIOUS
  <1> DEFINE m == [mode EXCEPT ![part] = "verify"]
  <1>1. PICK w \in WritePulses(Here, bootadr[Here]) :
        /\ cells' = w[1] /\ weak' = weak - w[2]
        /\ reported' \in {reported, reported \cup {"write"}}
        /\ \/ mode' = m /\ count' = OneMore /\ UNCHANGED <<pc, part, i>>
           \/ ~PassEnds(Top) /\ mode' = m /\ NextLocation(Bottom, Top)
           \/ Pass("verify", Bottom)
    <2>1. PICK w \in WritePulses(Here, bootadr[Here]) :
            /\ cells' = w[1] /\ weak' = weak - w[2]
            /\ \E data \in flash_read(m, w[1], Here) :
                LET right == data = bootadr[Here]
                    over == right \/ GivesUp
                IN  /\ reported' = IF over /\ ~right THEN reported \cup {"write"} ELSE reported
                    /\ \/ /\ ~over /\ mode' = m /\ count' = OneMore
                          /\ UNCHANGED <<pc, part, i>>
                       \/ over /\ ~PassEnds(Top) /\ mode' = m /\ NextLocation(Bottom, Top)
                       \/ over /\ PassEnds(Top) /\ Pass("verify", Bottom)
      BY DEF flash_update
    <2> QED BY <2>1
  <1>2. pc = "update" /\ UNCHANGED <<device, vpp, refused, found, bootadr>> /\ "verify" \notin reported
    BY DEF flash_update, NoNameInv, ReportInv
  <1>3. /\ TypeOK /\ cells \in Memories /\ weak \in 0 .. MaxWeak /\ MaxWeak \in Nat
        /\ Here \in Places /\ part \in Chips /\ i \in Locations /\ mode \in [Chips -> Modes]
        /\ count \in Nat
    BY NoNameAssumption DEF NoNameInv, TypeOK, Here, Places
  <1>4. bootadr[Here] \in Bytes
    BY <1>3 DEF TypeOK, Memories
  <1>5. /\ w[1] \in Memories /\ weak - w[2] \in 0 .. weak
        /\ \A q \in Places : w[1][q] \subseteq cells[q]
    BY <1>3, <1>4, WriteEffect
  <1>6. cells' \in Memories /\ weak' \in 0 .. MaxWeak /\ OnlyCleared
    BY <1>1, <1>3, <1>5 DEF OnlyCleared
  <1>7. m \in [Chips -> Modes]
    BY <1>3 DEF Modes
  <1> HIDE DEF m
  <1>8. /\ pc' \in {"update", "verify"} /\ part' \in Chips /\ i' \in Locations /\ count' \in Nat
        /\ mode' \in [Chips -> Modes]
    <2>1. CASE mode' = m /\ count' = OneMore /\ UNCHANGED <<pc, part, i>>
      BY <1>2, <1>3, <1>7, <2>1 DEF OneMore
    <2>2. CASE ~PassEnds(Top) /\ mode' = m /\ NextLocation(Bottom, Top)
      <3>1. Top # Bottom \/ Top = 0
        BY PlacesKnown
      <3> QED BY <1>2, <1>3, <1>7, <2>2, <3>1, NextTypes
    <2>3. CASE Pass("verify", Bottom)
      BY <2>3, PlacesKnown, PassTypes
    <2> QED BY <1>1, <2>1, <2>2, <2>3
  <1>9. TypeOK'
    BY <1>1, <1>2, <1>3, <1>6, <1>8 DEF TypeOK, device
  <1>10. ModeInv' /\ ClearedInv' /\ ErasedInv' /\ ReportInv'
    BY <1>1, <1>2, <1>8 DEF ModeInv, ClearedInv, ErasedInv, ReportInv
  <1> QED BY <1>6, <1>9, <1>10 DEF NoNameInv

\* flash_verify tells the truth, because both chips have been told to read.
LEMMA VerifyStep == NoNameInv /\ flash_verify => NoNameInv' /\ OnlyCleared
  <1> SUFFICES ASSUME NoNameInv, flash_verify PROVE NoNameInv' /\ OnlyCleared
    OBVIOUS
  <1>1. PICK same \in Same(VerifyModes, bootadr) :
           reported' = IF same THEN reported ELSE reported \cup {"verify"}
    BY DEF flash_verify
  <1>2. /\ pc = "verify" /\ pc' = "done" /\ vpp' = FALSE /\ mode' = ReadOnly
        /\ UNCHANGED <<cells, device, weak, refused, part, i, count, found, bootadr>>
        /\ "verify" \notin reported
    BY DEF flash_verify, deactivate_vpp, NoNameInv, ReportInv
  <1>3. IF same THEN \A p \in Places : cells[p] = bootadr[p]
                ELSE \E p \in Places : cells[p] # bootadr[p]
    <2>1. \A c \in Chips : VerifyModes[c] \in {"read", "verify"}
      BY DEF VerifyModes
    <2>2. ASSUME NEW memory, memory = bootadr
          PROVE  IF same THEN \A p \in Places : cells[p] = memory[p]
                         ELSE \E p \in Places : cells[p] # memory[p]
      BY <2>1, <2>2, SameExact
    <2> QED BY <2>2
  <1>4. cells \in Memories /\ bootadr \in Memories /\ same \in BOOLEAN
    BY DEF NoNameInv, TypeOK, Same
  <1>5. same <=> cells = bootadr
    BY <1>3, <1>4 DEF Memories
  <1>6. ReadOnly \in [Chips -> Modes]
    BY DEF ReadOnly, Modes
  <1>7. TypeOK'
    BY <1>1, <1>2, <1>4, <1>6 DEF NoNameInv, TypeOK, device
  <1>8. ReportInv'
    BY <1>1, <1>2, <1>4, <1>5 DEF ReportInv
  <1>9. ModeInv' /\ ClearedInv' /\ ErasedInv'
    BY <1>2 DEF ModeInv, ClearedInv, ErasedInv
  <1> QED BY <1>2, <1>7, <1>8, <1>9, SameCells DEF NoNameInv

LEMMA NextNoName == NoNameInv /\ [Next]_vars => NoNameInv' /\ OnlyCleared
  <1> SUFFICES ASSUME NoNameInv, [Next]_vars PROVE NoNameInv' /\ OnlyCleared
    OBVIOUS
  <1>1. CASE UNCHANGED vars
    <2>1. TypeOK'
      BY <1>1 DEF vars, device, NoNameInv, TypeOK
    <2>2. ClearedInv' /\ ErasedInv'
      BY <1>1 DEF vars, NoNameInv, ClearedInv, ErasedInv, Places, Locations, Chips, ROM_PORT
    <2>3. ModeInv' /\ ReportInv'
      BY <1>1 DEF vars, NoNameInv, ModeInv, ReportInv, ReadOnly, Chips, ROM_PORT
    <2> QED BY <1>1, <2>1, <2>2, <2>3, SameCells DEF vars, NoNameInv
  <1>2. CASE noname_program \/ Work
    BY <1>2, BeginStep, ProgramStep, PrepStep, EraseStep, UpdateStep, VerifyStep DEF Work
  <1>3. CASE Halted
    BY <1>1, <1>3 DEF Halted
  <1> QED BY <1>1, <1>2, <1>3 DEF Next

-----------------------------------------------------------------------------
(* The theorems. *)

\* The inductive invariant of noname_program: what each pass leaves in the
\* bytes it has passed, and what has been reported.
THEOREM NoNameCorrect == Spec => []NoNameInv
  <1>1. NoNameInv /\ [Next]_vars => NoNameInv'
    BY NextNoName
  <1> QED BY <1>1, InitNoName, PTL DEF Spec

\* An erase pulse (flash_erase) never raises a byte that flash_prep, or a
\* verify of zeros, has not seen cleared: no byte is over-erased.
THEOREM NothingIsOverErased == Spec => ErasesOnlyCleared
  <1>1. NoNameInv /\ [Next]_vars =>
            [\A p \in Places : ~(cells'[p] \subseteq cells[p]) => cells[p] = {}]_vars
    BY NextNoName DEF OnlyCleared
  <1> QED BY <1>1, NoNameCorrect, PTL DEF Spec, ErasesOnlyCleared

\* When the program stops, the chips hold the image or it has said that they
\* do not, and flash_verify complains of nothing that is right.
THEOREM WrongImageIsReported == Spec => []FlashHoldsImage
  <1>1. NoNameInv => FlashHoldsImage
    BY DEF NoNameInv, ReportInv, FlashHoldsImage
  <1> QED BY <1>1, NoNameCorrect, PTL
===============================================================================
