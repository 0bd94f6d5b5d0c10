------------------------------ MODULE FlashProofs ------------------------------
(***************************************************************************)
(* Proofs about Flash, for any number of blocks, any image and any layouts *)
(* in which the images lie apart: there is one environment, and commands,  *)
(* failures and power failures spare the debug monitor and, when an image  *)
(* is programmed, every other firmware.                                    *)
(***************************************************************************)
EXTENDS Flash, FiniteSetTheorems, WellFoundedInduction, TLAPS

-----------------------------------------------------------------------------
(* What the flash memory holds to begin with. *)

EnvBlocks(f) == { b \in Blocks : f[b].kind = "env" }

AtMostOne(S) == \A x, y \in S : x = y

\* The environment utility made at most one environment.
OneAtFirst == \A f \in Layouts : AtMostOne(EnvBlocks(f))

\* Two blocks in a row are marked with an id.
Pair(marks, id) ==
    \E i \in Blocks : marks[i] = id /\ i + 1 \in Blocks /\ marks[i + 1] = id

\* Flash's Foreign, of any contents.
ForeignIn(f, b) ==
    \/ \E h \in Blocks : Claims(f, h, b) /\ f[h].id # Image.id
    \/ b = FLASH_BLOCKS - 1 /\ Pair(Headed(f), WNT)
    \/ b = FLASH_BLOCKS - 2 /\ \E id \in SRM : Pair(Headed(f), id)

\* Images lie apart, so that a block has one firmware id; none has the id
\* that means free; the environment is in nobody's block.
ImagesApart(f) ==
    /\ \A h \in Blocks : IsHeader(f[h]) => f[h].id \in Ids
    /\ \A b, h, k \in Blocks : Claims(f, h, b) /\ Claims(f, k, b) => f[h].id = f[k].id
    /\ \A b \in EnvBlocks(f) : ~ForeignIn(f, b)

\* The debug monitor's blocks are those its header claims, below the two
\* that NT and the SRM console own: eb.c puts it in the first ones.
MonitorInPlace(f) ==
    \A b \in Blocks : f[b].id = DBM =>
        /\ f[b].kind = "image" /\ b < FLASH_BLOCKS - 2
        /\ \E h \in Blocks : Claims(f, h, b) /\ f[h].id = DBM

Orderly(f) == ImagesApart(f) /\ MonitorInPlace(f)

\* The layouts are orderly, and the image the utility carries is not one of
\* the two whose presence makes blocks foreign that no header claims.
OrderlyFlash ==
    /\ \A f \in Layouts : Orderly(f)
    /\ Image.id \notin {WNT} \cup SRM

-----------------------------------------------------------------------------
(* The inductive invariant. *)

\* Where the operation is.
RangeInv ==
    pc \in {"delete", "write"} =>
        start <= at /\ at < start + Image.size /\ start + Image.size <= FLASH_BLOCKS

TypeInv == TypeOK /\ RangeInv

\* eb_env asks for a block only when there is no environment.
EnvInv ==
    /\ AtMostOne(EnvBlocks(flash))
    /\ pc = "env" => EnvBlocks(flash) = {}

\* No mark, however stale, gives away a block of another firmware.
MarksInv ==
    \A b \in Blocks :
        /\ ForeignIn(flash, b) => blocks[b] \notin {FREE, Image.id}
        /\ flash[b].id = DBM => blocks[b] = DBM

\* The blocks the operation in progress may change.
Yields(b) == ~ForeignIn(flash, b) /\ flash[b].id # DBM

WorkInv ==
    /\ pc \in {"delete", "write"} =>
           \A b \in Blocks : start <= b /\ b < start + Image.size => Yields(b)
    /\ pc = "remove" => target # DBM /\ blocks[at] = target
    /\ pc = "env" => Yields(at)

FlashInv == Orderly(flash) /\ MarksInv /\ WorkInv

-----------------------------------------------------------------------------
(* Least and greatest blocks. *)

\* A non-empty set of naturals has a least element.
LEMMA LeastNat ==
    ASSUME NEW S \in SUBSET Nat, S # {}
    PROVE  \E x \in S : \A y \in S : x <= y
  <1>1. \E x \in S : \A y \in S : ~(<<y, x>> \in OpToRel(<, Nat))
    BY NatLessThanWellFounded, WFMin, Zenon
  <1>2. ASSUME NEW x \in Nat, NEW y \in Nat, ~(<<y, x>> \in OpToRel(<, Nat))
        PROVE  x <= y
    BY <1>2 DEF OpToRel
  <1> QED BY <1>1, <1>2

LEMMA MinIn ==
    ASSUME NEW S \in SUBSET Nat, S # {}
    PROVE  Min(S) \in S /\ \A y \in S : Min(S) <= y
  <1>1. \E x \in S : \A y \in S : x <= y
    BY LeastNat
  <1> QED BY <1>1 DEF Min

\* Blocks are numbers, and there are at least two.
LEMMA BlocksNat ==
    /\ FLASH_BLOCKS \in Nat /\ FLASH_BLOCKS >= 2
    /\ Blocks \subseteq Nat /\ \A b \in Blocks : b < FLASH_BLOCKS
    /\ FLASH_BLOCKS - 1 \in Blocks /\ FLASH_BLOCKS - 2 \in Blocks
    /\ FLASH_BLOCKS - 1 # FLASH_BLOCKS - 2
    /\ \A b \in Nat : b < FLASH_BLOCKS => b \in Blocks
  BY FlashAssumption DEF Blocks

LEMMA MaxIn ==
    ASSUME NEW S \in SUBSET Nat, NEW n \in Nat, S # {}, \A x \in S : x <= n
    PROVE  Max(S) \in S
  <1> DEFINE T == { n - x : x \in S }
  <1>1. T \in SUBSET Nat /\ T # {}
    <2>1. \A x \in S : x \in Nat /\ n - x \in Nat
      OBVIOUS
    <2>2. T # {}
      OBVIOUS
    <2> QED BY <2>1, <2>2
  <1>2. PICK t \in T : \A y \in T : t <= y
    <2> HIDE DEF T
    <2> QED BY <1>1, LeastNat
  <1>3. PICK m \in S : t = n - m
    OBVIOUS
  <1>4. \A x \in S : m >= x
    <2> SUFFICES ASSUME NEW x \in S PROVE m >= x
      OBVIOUS
    <2>1. n - x \in T
      OBVIOUS
    <2>2. n - m <= n - x
      BY <1>2, <1>3, <2>1
    <2>3. m \in Nat /\ x \in Nat
      OBVIOUS
    <2> QED BY <2>2, <2>3
  <1> QED BY <1>4 DEF Max

\* The ids are numbers from 0, which FREE is not.
LEMMA IdsKnown ==
    /\ FREE \notin Ids /\ DBM \in Ids /\ WNT \in Ids /\ MILO \in Ids /\ SRM \subseteq Ids
    /\ WNT # DBM /\ DBM \notin SRM /\ MILO # DBM
    /\ Image.id \in Ids /\ Image.id # DBM /\ Image.size \in Nat \ {0}
  BY FlashAssumption DEF FREE, Ids, DBM, WNT, MILO, SRM

-----------------------------------------------------------------------------
(* What the searches find. *)

LEMMA FindImage ==
    ASSUME NEW marks, NEW id
    PROVE  /\ find_image(marks, id) >= 0 <=> Pair(marks, id)
           /\ find_image(marks, id) >= 0 =>
                 find_image(marks, id) \in Blocks /\ marks[find_image(marks, id)] = id
  <1> DEFINE pairs == { i \in Blocks : marks[i] = id /\ i + 1 \in Blocks /\ marks[i + 1] = id }
  <1>1. Pair(marks, id) <=> pairs # {}
    BY DEF Pair
  <1>2. find_image(marks, id) = IF pairs = {} THEN -1 ELSE Min(pairs)
    BY DEF find_image
  <1>3. pairs \in SUBSET Nat
    BY BlocksNat
  <1>4. pairs # {} => Min(pairs) \in pairs
    <2> HIDE DEF pairs
    <2> QED BY <1>3, MinIn
  <1>5. pairs # {} => /\ Min(pairs) \in Blocks /\ Min(pairs) \in Nat
                      /\ marks[Min(pairs)] = id
    BY <1>4, BlocksNat
  <1> HIDE DEF pairs
  <1> QED BY <1>1, <1>2, <1>5

LEMMA FindNvram ==
    ASSUME NEW f
    PROVE  /\ find_nvram(f) = -1 <=> EnvBlocks(f) = {}
           /\ EnvBlocks(f) # {} => find_nvram(f) \in EnvBlocks(f)
  <1>1. EnvBlocks(f) \in SUBSET Nat
    BY BlocksNat DEF EnvBlocks
  <1>2. EnvBlocks(f) # {} => Min(EnvBlocks(f)) \in EnvBlocks(f)
    BY <1>1, MinIn
  <1>3. find_nvram(f) = IF EnvBlocks(f) = {} THEN -1 ELSE Min(EnvBlocks(f))
    BY DEF find_nvram, EnvBlocks
  <1>4. -1 \notin Nat
    OBVIOUS
  <1> QED BY <1>1, <1>2, <1>3, <1>4

\* A block has the id of a header that claims it.
LEMMA HeadedBy ==
    ASSUME NEW f, NEW b \in Blocks, Headed(f)[b] # FREE
    PROVE  \E h \in Blocks : Claims(f, h, b) /\ f[h].id = Headed(f)[b]
  <1> DEFINE hs == { h \in Blocks : Claims(f, h, b) }
  <1>1. Headed(f)[b] = IF hs = {} THEN FREE ELSE f[Max(hs)].id
    BY DEF Headed
  <1>2. hs \in SUBSET Nat /\ FLASH_BLOCKS \in Nat /\ \A x \in hs : x <= FLASH_BLOCKS
    <2>1. hs \in SUBSET Blocks
      OBVIOUS
    <2> HIDE DEF hs
    <2>2. \A x \in Blocks : x \in Nat /\ x <= FLASH_BLOCKS
      BY BlocksNat
    <2> QED BY <2>1, <2>2, BlocksNat
  <1>3. hs # {}
    BY <1>1
  <1>4. Max(hs) \in hs
    <2> HIDE DEF hs
    <2> QED BY <1>2, <1>3, MaxIn
  <1> QED BY <1>1, <1>3, <1>4

\* Where images lie apart any header that claims it will do.
LEMMA HeadedId ==
    ASSUME NEW f, ImagesApart(f), NEW b \in Blocks, NEW h \in Blocks, Claims(f, h, b)
    PROVE  Headed(f)[b] = f[h].id
  <1> DEFINE hs == { k \in Blocks : Claims(f, k, b) }
  <1>1. Headed(f)[b] = IF hs = {} THEN FREE ELSE f[Max(hs)].id
    BY DEF Headed
  <1>2. hs \in SUBSET Nat /\ FLASH_BLOCKS \in Nat /\ \A x \in hs : x <= FLASH_BLOCKS
    <2>1. hs \in SUBSET Blocks
      OBVIOUS
    <2> HIDE DEF hs
    <2>2. \A x \in Blocks : x \in Nat /\ x <= FLASH_BLOCKS
      BY BlocksNat
    <2> QED BY <2>1, <2>2, BlocksNat
  <1>3. hs # {}
    OBVIOUS
  <1>4. Max(hs) \in hs
    <2> HIDE DEF hs
    <2> QED BY <1>2, <1>3, MaxIn
  <1>5. f[Max(hs)].id = f[h].id
    BY <1>4 DEF ImagesApart
  <1> QED BY <1>1, <1>3, <1>5

-----------------------------------------------------------------------------
(* What scan_blocks and eb_init mark. *)

\* The marks of one block, and the reasons for them.
LEMMA ScanCases ==
    ASSUME NEW f, NEW b \in Blocks
    PROVE  /\ scan_blocks(f)[b] \in {Headed(f)[b], MILO, WNT} \cup SRM
           /\ b \notin EnvBlocks(f) =>
                /\ b < FLASH_BLOCKS - 2 => scan_blocks(f)[b] = Headed(f)[b]
                /\ scan_blocks(f)[b] \in {Headed(f)[b], WNT} \cup SRM
                /\ b = FLASH_BLOCKS - 1 /\ Pair(Headed(f), WNT) => scan_blocks(f)[b] = WNT
                /\ b = FLASH_BLOCKS - 2 /\ (\E id \in SRM : Pair(Headed(f), id)) =>
                       scan_blocks(f)[b] \in SRM
  <1> DEFINE H == Headed(f)
             nt == [H EXCEPT ![FLASH_BLOCKS - 1] =
                       IF find_image(H, WNT) >= 0 THEN WNT ELSE @]
             consoles == { id \in SRM : find_image(nt, id) >= 0 }
             srm == [nt EXCEPT ![FLASH_BLOCKS - 2] =
                       IF consoles # {} THEN Max(consoles) ELSE @]
             env == find_nvram(f)
  <1>1. scan_blocks(f)[b] = IF b = env /\ env > 0 THEN MILO ELSE srm[b]
    BY DEF scan_blocks
  <1>2. b \notin EnvBlocks(f) => scan_blocks(f)[b] = srm[b]
    <2>1. CASE EnvBlocks(f) = {}
      <3>1. env = -1
        BY <2>1, FindNvram
      <3> HIDE DEF env
      <3>2. ~(env > 0)
        BY <3>1
      <3> HIDE DEF srm
      <3> QED BY <1>1, <3>2
    <2>2. CASE EnvBlocks(f) # {}
      <3>1. env \in EnvBlocks(f)
        BY <2>2, FindNvram
      <3> HIDE DEF env, srm
      <3> QED BY <1>1, <3>1
    <2> QED BY <2>1, <2>2
  <1>3. DOMAIN H = Blocks
    BY DEF Headed
  <1> HIDE DEF H
  <1>4. /\ DOMAIN nt = Blocks
        /\ \A x \in Blocks : x # FLASH_BLOCKS - 1 => nt[x] = H[x]
        /\ nt[FLASH_BLOCKS - 1] = IF Pair(H, WNT) THEN WNT ELSE H[FLASH_BLOCKS - 1]
    BY <1>3, BlocksNat, FindImage
  <1>5. consoles = { id \in SRM : Pair(nt, id) }
    BY FindImage
  <1> HIDE DEF nt
  <1>6. consoles # {} => Max(consoles) \in SRM
    <2>1. consoles \in SUBSET Nat /\ 3 \in Nat /\ \A x \in consoles : x <= 3
      BY DEF SRM
    <2>2. consoles \subseteq SRM
      OBVIOUS
    <2> HIDE DEF consoles
    <2>3. consoles # {} => Max(consoles) \in consoles
      BY <2>1, MaxIn
    <2> QED BY <2>2, <2>3
  <1>7. /\ \A x \in Blocks : x # FLASH_BLOCKS - 2 => srm[x] = nt[x]
        /\ srm[FLASH_BLOCKS - 2] = IF consoles # {} THEN Max(consoles) ELSE nt[FLASH_BLOCKS - 2]
    <2> HIDE DEF consoles
    <2> QED BY <1>4, BlocksNat
  <1>8. ASSUME b = FLASH_BLOCKS - 2, NEW id \in SRM, Pair(H, id)
        PROVE  srm[b] \in SRM
    <2>1. CASE consoles # {}
      BY <1>6, <1>7, <1>8, <2>1
    <2>2. CASE consoles = {}
      <3>1. ~Pair(nt, id)
        BY <1>5, <1>8, <2>2
      <3>2. PICK i \in Blocks : H[i] = id /\ i + 1 \in Blocks /\ H[i + 1] = id
        BY <1>8 DEF Pair
      <3>3. i # FLASH_BLOCKS - 1
        BY <3>2, BlocksNat
      <3>4. nt[i] = id
        BY <1>4, <3>2, <3>3
      <3>5. i + 1 = FLASH_BLOCKS - 1
        BY <1>4, <3>1, <3>2, <3>4 DEF Pair
      <3>6. i = b
        BY <1>8, <3>2, <3>5, BlocksNat
      <3>7. srm[b] = nt[b]
        BY <1>7, <1>8, <2>2
      <3> QED BY <3>4, <3>6, <3>7
    <2> QED BY <2>1, <2>2
  <1>9. srm[b] \in {H[b], WNT} \cup SRM
    <2> HIDE DEF consoles, srm
    <2> QED BY <1>4, <1>6, <1>7
  <1>10. b < FLASH_BLOCKS - 2 => srm[b] = H[b]
    <2> HIDE DEF consoles, srm
    <2>1. b < FLASH_BLOCKS - 2 => b # FLASH_BLOCKS - 1 /\ b # FLASH_BLOCKS - 2
      BY BlocksNat
    <2> QED BY <1>4, <1>7, <2>1
  <1>11. b = FLASH_BLOCKS - 1 /\ Pair(H, WNT) => srm[b] = WNT
    <2> HIDE DEF consoles, srm
    <2> QED BY <1>4, <1>7, BlocksNat
  <1> HIDE DEF srm, env
  <1> QED BY <1>1, <1>2, <1>8, <1>9, <1>10, <1>11 DEF H

\* eb_init marks as scan_blocks does, and the environment in block 0 too.
LEMMA InitCases ==
    ASSUME NEW f, NEW b \in Blocks
    PROVE  /\ eb_init(f)[b] \in {scan_blocks(f)[b], MILO}
           /\ b \notin EnvBlocks(f) => eb_init(f)[b] = scan_blocks(f)[b]
  <1>1. eb_init(f)[b] = IF b = find_nvram(f) THEN MILO ELSE scan_blocks(f)[b]
    BY DEF eb_init
  <1>2. b = find_nvram(f) => b \in EnvBlocks(f)
    <2>1. b # -1
      BY BlocksNat
    <2> QED BY <2>1, FindNvram
  <1> QED BY <1>1, <1>2

LEMMA ScanTypes ==
    ASSUME NEW f \in [Blocks -> Contents]
    PROVE  /\ scan_blocks(f) \in [Blocks -> Ids \cup {FREE}]
           /\ eb_init(f) \in [Blocks -> Ids \cup {FREE}]
  <1>1. ASSUME NEW b \in Blocks
        PROVE  Headed(f)[b] \in Ids \cup {FREE}
    <2>1. CASE Headed(f)[b] = FREE
      BY <2>1
    <2>2. CASE Headed(f)[b] # FREE
      <3>1. PICK h \in Blocks : f[h].id = Headed(f)[b]
        BY <2>2, HeadedBy
      <3>2. f[h] \in Contents
        OBVIOUS
      <3> QED BY <3>1, <3>2 DEF Contents
    <2> QED BY <2>1, <2>2
  <1>2. DOMAIN scan_blocks(f) = Blocks /\ DOMAIN eb_init(f) = Blocks
    BY DEF scan_blocks, eb_init
  <1>3. \A b \in Blocks : scan_blocks(f)[b] \in Ids \cup {FREE}
    BY <1>1, ScanCases, IdsKnown
  <1>4. \A b \in Blocks : eb_init(f)[b] \in Ids \cup {FREE}
    BY <1>3, InitCases, IdsKnown
  <1>5. /\ scan_blocks(f) = [b \in Blocks |-> scan_blocks(f)[b]]
        /\ eb_init(f) = [b \in Blocks |-> eb_init(f)[b]]
    BY DEF scan_blocks, eb_init
  <1> QED BY <1>3, <1>4, <1>5

\* The marks that must hold (MarksInv, of any contents and marks).
Marked(f, marks) ==
    \A b \in Blocks :
        /\ ForeignIn(f, b) => marks[b] \notin {FREE, Image.id}
        /\ f[b].id = DBM => marks[b] = DBM

LEMMA ScanMarks ==
    ASSUME NEW f, Orderly(f), Image.id \notin {WNT} \cup SRM
    PROVE  Marked(f, scan_blocks(f)) /\ Marked(f, eb_init(f))
  <1>1. ASSUME NEW b \in Blocks, ForeignIn(f, b)
        PROVE  b \notin EnvBlocks(f) /\ scan_blocks(f)[b] \notin {FREE, Image.id}
    <2>1. b \notin EnvBlocks(f)
      BY <1>1 DEF Orderly, ImagesApart
    <2>2. \A id \in {WNT} \cup SRM : id \notin {FREE, Image.id}
      BY IdsKnown
    <2>3. CASE \E h \in Blocks : Claims(f, h, b) /\ f[h].id # Image.id
      <3>1. PICK h \in Blocks : Claims(f, h, b) /\ f[h].id # Image.id
        BY <2>3
      <3>2. Headed(f)[b] = f[h].id
        BY <3>1, HeadedId DEF Orderly
      <3>3. f[h].id \in Ids
        BY <3>1 DEF Orderly, ImagesApart, Claims
      <3> QED BY <2>1, <2>2, <3>1, <3>2, <3>3, ScanCases, IdsKnown
    <2>4. CASE b = FLASH_BLOCKS - 1 /\ Pair(Headed(f), WNT)
      BY <2>1, <2>2, <2>4, ScanCases
    <2>5. CASE b = FLASH_BLOCKS - 2 /\ \E id \in SRM : Pair(Headed(f), id)
      BY <2>1, <2>2, <2>5, ScanCases
    <2> QED BY <1>1, <2>3, <2>4, <2>5 DEF ForeignIn
  <1>2. ASSUME NEW b \in Blocks, f[b].id = DBM
        PROVE  b \notin EnvBlocks(f) /\ scan_blocks(f)[b] = DBM
    <2>1. f[b].kind = "image" /\ b < FLASH_BLOCKS - 2
      BY <1>2 DEF Orderly, MonitorInPlace
    <2>2. PICK h \in Blocks : Claims(f, h, b) /\ f[h].id = DBM
      BY <1>2 DEF Orderly, MonitorInPlace
    <2>3. b \notin EnvBlocks(f)
      BY <2>1 DEF EnvBlocks
    <2> QED BY <2>1, <2>2, <2>3, HeadedId, ScanCases DEF Orderly
  <1> QED BY <1>1, <1>2, InitCases DEF Marked

-----------------------------------------------------------------------------
(* Changing one block. *)

\* A header of another firmware that is there after a block has been
\* erased, spoilt or given the image was there before.
LEMMA OldHeaders ==
    ASSUME NEW f \in [Blocks -> Contents], NEW at1 \in Blocks, NEW c \in Contents,
           IsHeader(c) => c.id = Image.id,
           NEW b \in Blocks, NEW h \in Blocks,
           Claims([f EXCEPT ![at1] = c], h, b), [f EXCEPT ![at1] = c][h].id # Image.id
    PROVE  h # at1 /\ Claims(f, h, b) /\ [f EXCEPT ![at1] = c][h] = f[h]
  <1> DEFINE g == [f EXCEPT ![at1] = c]
  <1>1. g[at1] = c /\ \A x \in Blocks : x # at1 => g[x] = f[x]
    OBVIOUS
  <1> HIDE DEF g
  <1>2. Claims(g, h, b) /\ g[h].id # Image.id
    BY DEF g
  <1>3. h # at1
    BY <1>1, <1>2 DEF Claims
  <1>4. g[h] = f[h]
    BY <1>1, <1>3
  <1>5. Claims(f, h, b)
    BY <1>2, <1>4 DEF Claims
  <1> QED BY <1>3, <1>4, <1>5 DEF g

LEMMA OldPairs ==
    ASSUME NEW f \in [Blocks -> Contents], ImagesApart(f), NEW at1 \in Blocks,
           NEW c \in Contents, IsHeader(c) => c.id = Image.id,
           NEW id \in Ids, id # Image.id, Pair(Headed([f EXCEPT ![at1] = c]), id)
    PROVE  Pair(Headed(f), id)
  <1> DEFINE g == [f EXCEPT ![at1] = c]
  <1>1. ASSUME NEW b \in Blocks, Headed(g)[b] = id
        PROVE  Headed(f)[b] = id
    <2>1. Headed(g)[b] # FREE
      BY <1>1, IdsKnown
    <2> HIDE DEF g
    <2>2. PICK h \in Blocks : Claims(g, h, b) /\ g[h].id = id
      BY <1>1, <2>1, HeadedBy
    <2>3. h # at1 /\ Claims(f, h, b) /\ g[h] = f[h]
      BY <2>2, OldHeaders DEF g
    <2> QED BY <2>2, <2>3, HeadedId
  <1>2. PICK i \in Blocks : Headed(g)[i] = id /\ i + 1 \in Blocks /\ Headed(g)[i + 1] = id
    BY DEF Pair
  <1> HIDE DEF g
  <1> QED BY <1>1, <1>2 DEF Pair

\* Blocks do not become foreign, and images stay apart.
LEMMA ChangeApart ==
    ASSUME NEW f \in [Blocks -> Contents], ImagesApart(f), Image.id \notin {WNT} \cup SRM,
           NEW at1 \in Blocks, NEW c \in Contents,
           IsHeader(c) => /\ c.id = Image.id
                          /\ \A b \in Blocks : at1 <= b /\ b < at1 + c.size => ~ForeignIn(f, b),
           c.kind = "env" => ~ForeignIn(f, at1)
    PROVE  /\ ImagesApart([f EXCEPT ![at1] = c])
           /\ \A b \in Blocks : ForeignIn([f EXCEPT ![at1] = c], b) => ForeignIn(f, b)
  <1> DEFINE g == [f EXCEPT ![at1] = c]
  <1>1. g[at1] = c /\ \A x \in Blocks : x # at1 => g[x] = f[x]
    OBVIOUS
  <1>2. ASSUME NEW b \in Blocks, NEW h \in Blocks, Claims(g, h, b), g[h].id # Image.id
        PROVE  h # at1 /\ Claims(f, h, b) /\ g[h] = f[h]
    BY <1>2, OldHeaders
  <1>3. ASSUME NEW id \in {WNT} \cup SRM, Pair(Headed(g), id)
        PROVE  Pair(Headed(f), id)
    <2>1. id \in Ids /\ id # Image.id
      BY IdsKnown
    <2> QED BY <1>3, <2>1, OldPairs
  <1> HIDE DEF g
  <1>4. ASSUME NEW b \in Blocks, ForeignIn(g, b) PROVE ForeignIn(f, b)
    <2>1. CASE \E h \in Blocks : Claims(g, h, b) /\ g[h].id # Image.id
      BY <1>2, <2>1 DEF ForeignIn
    <2>2. CASE b = FLASH_BLOCKS - 1 /\ Pair(Headed(g), WNT)
      BY <1>3, <2>2 DEF ForeignIn
    <2>3. CASE b = FLASH_BLOCKS - 2 /\ \E id \in SRM : Pair(Headed(g), id)
      BY <1>3, <2>3 DEF ForeignIn
    <2> QED BY <1>4, <2>1, <2>2, <2>3 DEF ForeignIn
  <1>5. ASSUME NEW h \in Blocks, IsHeader(g[h]) PROVE g[h].id \in Ids
    <2>1. CASE h = at1
      BY <1>1, <1>5, <2>1, IdsKnown
    <2>2. CASE h # at1
      BY <1>1, <1>5, <2>2 DEF ImagesApart
    <2> QED BY <2>1, <2>2
  <1>6. ASSUME NEW b \in Blocks, NEW h \in Blocks, Claims(g, h, b), g[h].id = Image.id,
               NEW k \in Blocks, Claims(g, k, b), g[k].id # Image.id
        PROVE  FALSE
    <2>1. k # at1 /\ Claims(f, k, b) /\ f[k].id # Image.id
      BY <1>2, <1>6
    <2>2. CASE h = at1
      <3>1. IsHeader(c) /\ at1 <= b /\ b < at1 + c.size
        BY <1>1, <1>6, <2>2 DEF Claims
      <3>2. ~ForeignIn(f, b)
        BY <3>1
      <3> QED BY <2>1, <3>2 DEF ForeignIn
    <2>3. CASE h # at1
      <3>1. Claims(f, h, b) /\ f[h].id = Image.id
        BY <1>1, <1>6, <2>3 DEF Claims
      <3> QED BY <2>1, <3>1 DEF ImagesApart
    <2> QED BY <2>2, <2>3
  <1>7. ASSUME NEW b \in Blocks, NEW h \in Blocks, Claims(g, h, b),
               NEW k \in Blocks, Claims(g, k, b)
        PROVE  g[h].id = g[k].id
    <2>1. CASE g[h].id # Image.id /\ g[k].id # Image.id
      <3>1. Claims(f, h, b) /\ g[h] = f[h] /\ Claims(f, k, b) /\ g[k] = f[k]
        BY <1>2, <1>7, <2>1
      <3> QED BY <3>1 DEF ImagesApart
    <2> QED BY <1>6, <1>7, <2>1
  <1>8. ASSUME NEW b \in EnvBlocks(g) PROVE ~ForeignIn(g, b)
    <2>1. b \in Blocks /\ g[b].kind = "env"
      BY <1>8 DEF EnvBlocks
    <2>2. CASE b = at1
      BY <1>1, <1>4, <2>1, <2>2
    <2>3. CASE b # at1
      <3>1. b \in EnvBlocks(f)
        BY <1>1, <2>1, <2>3 DEF EnvBlocks
      <3> QED BY <1>4, <2>1, <3>1 DEF ImagesApart
    <2> QED BY <2>2, <2>3
  <1>9. ImagesApart(g)
    BY <1>5, <1>7, <1>8 DEF ImagesApart
  <1> QED BY <1>4, <1>9 DEF g

\* The debug monitor stays where it is, if the block is not its own.
LEMMA ChangeMonitor ==
    ASSUME NEW f \in [Blocks -> Contents], MonitorInPlace(f),
           NEW at1 \in Blocks, f[at1].id # DBM, NEW c \in Contents, c.id # DBM
    PROVE  /\ MonitorInPlace([f EXCEPT ![at1] = c])
           /\ \A b \in Blocks : [f EXCEPT ![at1] = c][b].id = DBM =>
                                   f[b].id = DBM /\ [f EXCEPT ![at1] = c][b] = f[b]
  <1> DEFINE g == [f EXCEPT ![at1] = c]
  <1>1. g[at1] = c /\ \A x \in Blocks : x # at1 => g[x] = f[x]
    OBVIOUS
  <1> HIDE DEF g
  <1>2. ASSUME NEW b \in Blocks, g[b].id = DBM
        PROVE  /\ f[b].id = DBM /\ g[b] = f[b]
               /\ g[b].kind = "image" /\ b < FLASH_BLOCKS - 2
               /\ \E h \in Blocks : Claims(g, h, b) /\ g[h].id = DBM
    <2>1. b # at1 /\ g[b] = f[b] /\ f[b].id = DBM
      BY <1>1, <1>2
    <2>2. PICK h \in Blocks : Claims(f, h, b) /\ f[h].id = DBM
      BY <2>1 DEF MonitorInPlace
    <2>3. g[h] = f[h]
      BY <1>1, <2>2
    <2>4. Claims(g, h, b)
      BY <2>2, <2>3 DEF Claims
    <2> QED BY <2>1, <2>2, <2>3, <2>4 DEF MonitorInPlace
  <1>3. MonitorInPlace(g)
    BY <1>2 DEF MonitorInPlace
  <1> QED BY <1>2, <1>3 DEF g

-----------------------------------------------------------------------------
(* Types and the range of an operation. *)

LEMMA ContentKinds ==
    /\ \A c \in {Erased, Junk, Env} : c \in Contents /\ ~IsHeader(c) /\ c.id = FREE
    /\ Erased.kind # "env" /\ Junk.kind # "env" /\ Env.kind = "env"
    /\ \A p \in Nat : LET c == Part(Image.id, p, Image.size)
                      IN  /\ c \in Contents /\ c.id = Image.id /\ c.size = Image.size
                          /\ c.kind # "env" /\ IsHeader(c) => p = 0
  BY IdsKnown DEF Erased, Junk, Env, Part, Content, Contents, Kinds, IsHeader

\* The block an operation is at may hold its part of the image.
LEMMA PartHere ==
    ASSUME TypeInv, pc \in {"delete", "write"}
    PROVE  /\ at - start \in Nat /\ at \in Blocks /\ start \in Blocks
           /\ NewPart \in Contents
           /\ at - start = 0 => at = start
  <1>1. at \in Nat /\ start \in Nat /\ start <= at /\ at \in Blocks /\ start \in Blocks
    BY BlocksNat DEF TypeInv, TypeOK, RangeInv
  <1>2. at - start \in Nat /\ (at - start = 0 => at = start)
    BY <1>1
  <1>3. NewPart \in Contents
    BY <1>2, ContentKinds DEF NewPart
  <1> QED BY <1>1, <1>2, <1>3

\* The marks eb_program goes on with: the old image's count as free.
GivenUp == [i \in Blocks |-> IF blocks[i] = Image.id THEN FREE ELSE blocks[i]]

LEMMA ProgramEffect ==
    ASSUME TypeInv, eb_program
    PROVE  /\ flash' = flash
           /\ \E marks \in {blocks, GivenUp} :
                 \/ Rescan
                 \/ Return /\ blocks' = marks
                 \/ \E first \in Blocks :
                       /\ first + Image.size <= FLASH_BLOCKS
                       /\ ~Overwrites(marks, first)
                       /\ pc' = "delete" /\ start' = first /\ at' = first
                       /\ blocks' = marks /\ target' = target
  <1> DEFINE found == find_image(blocks, Image.id)
  <1>1. PICK overwrite \in BOOLEAN, sure \in BOOLEAN, b \in Blocks :
          LET over == overwrite /\ found >= 0
              first == IF over THEN found ELSE b
              marks == IF over THEN GivenUp ELSE blocks
              room == first + Image.size <= FLASH_BLOCKS
          IN  \/ ~room /\ Rescan
              \/ room /\ Overwrites(marks, first) /\ Return /\ blocks' = marks
              \/ room /\ ~Overwrites(marks, first) /\ ~sure /\ Rescan
              \/ /\ room /\ ~Overwrites(marks, first) /\ sure
                 /\ pc' = "delete"
                 /\ start' = first /\ at' = first
                 /\ blocks' = marks
                 /\ UNCHANGED target
    BY DEF eb_program, GivenUp
  <1> DEFINE over == overwrite /\ found >= 0
             first == IF over THEN found ELSE b
             marks == IF over THEN GivenUp ELSE blocks
  <1>2. first \in Blocks
    BY FindImage
  <1>3. marks \in {blocks, GivenUp}
    OBVIOUS
  <1>4. flash' = flash
    BY DEF eb_program
  <1>5. \/ Rescan
        \/ Return /\ blocks' = marks
        \/ /\ first + Image.size <= FLASH_BLOCKS
           /\ ~Overwrites(marks, first)
           /\ pc' = "delete" /\ start' = first /\ at' = first
           /\ blocks' = marks /\ target' = target
    BY <1>1
  <1> HIDE DEF first, marks
  <1> QED BY <1>2, <1>3, <1>4, <1>5

\* Returning leaves locals of their types.
LEMMA ReturnTypes ==
    ASSUME flash' \in [Blocks -> Contents], blocks' \in [Blocks -> Ids \cup {FREE}], Return
    PROVE  TypeInv'
  <1>1. 0 \in Blocks
    BY BlocksNat
  <1> QED BY <1>1 DEF Return, TypeInv, TypeOK, RangeInv

LEMMA RescanTypes ==
    ASSUME flash' \in [Blocks -> Contents], Rescan
    PROVE  TypeInv'
  <1>1. \A f \in [Blocks -> Contents] : scan_blocks(f) \in [Blocks -> Ids \cup {FREE}]
    BY ScanTypes
  <1>2. blocks' \in [Blocks -> Ids \cup {FREE}] /\ Return
    BY <1>1 DEF Rescan
  <1> QED BY <1>2, ReturnTypes

LEMMA DeletedTypes ==
    ASSUME TypeInv, NEW b \in Blocks, Deleted(b)
    PROVE  /\ flash' \in [Blocks -> Contents]
           /\ \E c \in {Erased, Junk, flash[b]} : c \in Contents /\ flash' = [flash EXCEPT ![b] = c]
  <1>1. PICK c \in {Erased, Junk, flash[b]} : flash' = [flash EXCEPT ![b] = c]
    BY DEF Deleted
  <1>2. c \in Contents
    BY <1>1, ContentKinds DEF TypeInv, TypeOK
  <1> QED BY <1>1, <1>2 DEF TypeInv, TypeOK

LEMMA CutTypes ==
    ASSUME TypeInv, pc = "write", flash' \in Cut
    PROVE  \E c \in {flash[at], Junk, NewPart} :
              c \in Contents /\ flash' = [flash EXCEPT ![at] = c] /\ flash' \in [Blocks -> Contents]
  <1>1. PICK c \in {flash[at], Junk, NewPart} : flash' = [flash EXCEPT ![at] = c]
    BY DEF Cut
  <1>2. c \in Contents
    BY <1>1, PartHere, ContentKinds DEF TypeInv, TypeOK
  <1> QED BY <1>1, <1>2 DEF TypeInv, TypeOK

\* What the power leaves.
LEMMA PowerTypes ==
    ASSUME TypeInv, PowerFails
    PROVE  /\ Return /\ blocks' = eb_init(flash')
           /\ flash' = flash \/ (pc = "write" /\ flash' \in Cut)
           /\ flash' \in [Blocks -> Contents]
  <1>1. Return /\ blocks' = eb_init(flash')
        /\ IF pc = "write" THEN flash' \in Cut ELSE flash' = flash
    BY DEF PowerFails
  <1> QED BY <1>1, CutTypes DEF TypeInv, TypeOK

LEMMA InitTypes == Init => TypeInv
  <1> SUFFICES ASSUME Init PROVE TypeInv
    OBVIOUS
  <1>1. flash \in [Blocks -> Contents]
    BY FlashAssumption DEF Init
  <1>2. blocks \in [Blocks -> Ids \cup {FREE}]
    BY <1>1, ScanTypes DEF Init
  <1> QED BY <1>1, <1>2, BlocksNat DEF Init, TypeInv, TypeOK, RangeInv

LEMMA NextTypes == TypeInv /\ [Next]_vars => TypeInv'
  <1> SUFFICES ASSUME TypeInv, [Next]_vars PROVE TypeInv'
    OBVIOUS
  <1>1. CASE eb_program
    <2>1. PICK marks \in {blocks, GivenUp} :
                 \/ Rescan
                 \/ Return /\ blocks' = marks
                 \/ \E first \in Blocks :
                       /\ first + Image.size <= FLASH_BLOCKS
                       /\ pc' = "delete" /\ start' = first /\ at' = first
                       /\ blocks' = marks /\ target' = target
      BY <1>1, ProgramEffect
    <2>2. flash' \in [Blocks -> Contents]
      BY <1>1, ProgramEffect DEF TypeInv, TypeOK
    <2>3. marks \in [Blocks -> Ids \cup {FREE}]
      BY DEF GivenUp, TypeInv, TypeOK
    <2>4. CASE Rescan
      BY <2>2, <2>4, RescanTypes
    <2>5. CASE Return /\ blocks' = marks
      BY <2>2, <2>3, <2>5, ReturnTypes
    <2>6. ASSUME NEW first \in Blocks, first + Image.size <= FLASH_BLOCKS,
                 pc' = "delete", start' = first, at' = first, blocks' = marks, target' = target
          PROVE  TypeInv'
      <3>1. first \in Nat /\ Image.size \in Nat \ {0}
        BY BlocksNat, IdsKnown
      <3>2. first <= first /\ first < first + Image.size
        BY <3>1
      <3> QED BY <2>2, <2>3, <2>6, <3>2 DEF TypeInv, TypeOK, RangeInv
    <2> QED BY <2>1, <2>4, <2>5, <2>6
  <1>2. CASE ProgramDelete
    <2>1. pc = "delete" /\ at \in Blocks /\ Deleted(at)
      BY <1>2 DEF ProgramDelete, TypeInv, TypeOK
    <2>2. flash' \in [Blocks -> Contents]
      BY <2>1, DeletedTypes
    <2> QED BY <1>2, <2>1, <2>2 DEF ProgramDelete, TypeInv, TypeOK, RangeInv, locals
  <1>3. CASE ProgramBlock
    <2>1. flash' \in [Blocks -> Contents]
      BY <1>3, PartHere DEF ProgramBlock, TypeInv, TypeOK
    <2>2. CASE LastOfImage
      BY <1>3, <2>1, <2>2, RescanTypes DEF ProgramBlock
    <2>3. CASE ~LastOfImage
      <3>1. /\ pc = "write" /\ pc' = "delete" /\ at' = at + 1
            /\ UNCHANGED <<blocks, start, target>>
        BY <1>3, <2>3 DEF ProgramBlock
      <3>2. /\ at \in Nat /\ start \in Nat /\ Image.size \in Nat /\ FLASH_BLOCKS \in Nat
            /\ start <= at /\ at < start + Image.size /\ start + Image.size <= FLASH_BLOCKS
            /\ at # start + Image.size - 1
        BY <2>3, <3>1, BlocksNat, IdsKnown DEF TypeInv, TypeOK, RangeInv, LastOfImage
      <3>3. start <= at + 1 /\ at + 1 < start + Image.size /\ at + 1 < FLASH_BLOCKS /\ at + 1 \in Nat
        BY <3>2
      <3>4. at + 1 \in Blocks
        BY <3>3, BlocksNat
      <3> QED BY <2>1, <3>1, <3>2, <3>3, <3>4 DEF TypeInv, TypeOK, RangeInv
    <2> QED BY <2>2, <2>3
  <1>4. CASE ProgramFails
    <2>1. flash' \in [Blocks -> Contents]
      BY <1>4, CutTypes DEF ProgramFails
    <2>2. CASE Rescan
      BY <2>1, <2>2, RescanTypes
    <2>3. CASE Return /\ UNCHANGED blocks
      BY <2>1, <2>3, ReturnTypes DEF TypeInv, TypeOK
    <2> QED BY <1>4, <2>2, <2>3 DEF ProgramFails
  <1>5. ASSUME NEW b \in Blocks, eb_delete_block(b) PROVE TypeInv'
    BY <1>5, DeletedTypes, RescanTypes DEF eb_delete_block
  <1>6. ASSUME NEW b \in Blocks, eb_env(b) PROVE TypeInv'
    <2>1. flash' \in [Blocks -> Contents]
      BY <1>6, DeletedTypes DEF eb_env
    <2> QED BY <1>6, <2>1 DEF eb_env, TypeInv, TypeOK, RangeInv
  <1>7. ASSUME NEW id \in Ids, eb_delete_image(id) PROVE TypeInv'
    <2>1. find_image(blocks, id) \in Blocks
      BY <1>7, FindImage DEF eb_delete_image
    <2> QED BY <1>7, <2>1 DEF eb_delete_image, TypeInv, TypeOK, RangeInv
  <1>8. CASE RemoveBlock
    <2>1. at \in Blocks /\ Deleted(at) /\ pc = "remove"
      BY <1>8 DEF RemoveBlock, TypeInv, TypeOK
    <2>2. flash' \in [Blocks -> Contents]
      BY <2>1, DeletedTypes
    <2>3. CASE Rescan
      BY <2>2, <2>3, RescanTypes
    <2>4. CASE at + 1 \in Blocks /\ at' = at + 1 /\ UNCHANGED <<pc, blocks, start, target>>
      BY <2>1, <2>2, <2>4 DEF TypeInv, TypeOK, RangeInv
    <2> QED BY <1>8, <2>3, <2>4 DEF RemoveBlock
  <1>9. CASE create_environment
    <2>1. flash' \in [Blocks -> Contents]
      BY <1>9, ContentKinds DEF create_environment, TypeInv, TypeOK
    <2>2. CASE Rescan
      BY <2>1, <2>2, RescanTypes
    <2>3. CASE blocks' = [blocks EXCEPT ![at] = MILO] /\ Return
      <3>1. blocks' \in [Blocks -> Ids \cup {FREE}]
        BY <2>3, IdsKnown DEF TypeInv, TypeOK
      <3> QED BY <2>1, <2>3, <3>1, ReturnTypes
    <2> QED BY <1>9, <2>2, <2>3 DEF create_environment
  <1>10. CASE PowerFails
    <2>1. Return /\ blocks' = eb_init(flash') /\ flash' \in [Blocks -> Contents]
      BY <1>10, PowerTypes
    <2>2. \A f \in [Blocks -> Contents] : eb_init(f) \in [Blocks -> Ids \cup {FREE}]
      BY ScanTypes
    <2>3. blocks' \in [Blocks -> Ids \cup {FREE}]
      BY <2>1, <2>2
    <2> QED BY <2>1, <2>3, ReturnTypes
  <1>11. CASE UNCHANGED vars
    BY <1>11 DEF vars, locals, TypeInv, TypeOK, RangeInv
  <1> QED BY <1>1, <1>2, <1>3, <1>4, <1>5, <1>6, <1>7, <1>8, <1>9, <1>10, <1>11
           DEF Next, Program

-----------------------------------------------------------------------------
(* One environment. *)

\* What is erased, spoilt or programmed is no environment.
LEMMA NoNewEnv ==
    ASSUME TypeInv, NEW b \in Blocks, NEW c, c = flash[b] \/ c.kind # "env",
           flash' = [flash EXCEPT ![b] = c]
    PROVE  EnvBlocks(flash') \subseteq EnvBlocks(flash)
  <1>1. \A x \in Blocks : flash'[x] = IF x = b THEN c ELSE flash[x]
    BY DEF TypeInv, TypeOK
  <1> QED BY <1>1 DEF EnvBlocks

LEMMA DeletedEnv ==
    ASSUME TypeInv, NEW b \in Blocks, Deleted(b)
    PROVE  EnvBlocks(flash') \subseteq EnvBlocks(flash)
  <1>1. PICK c \in {Erased, Junk, flash[b]} : flash' = [flash EXCEPT ![b] = c]
    BY DeletedTypes
  <1>2. c = flash[b] \/ c.kind # "env"
    BY <1>1, ContentKinds
  <1> QED BY <1>1, <1>2, NoNewEnv

LEMMA CutEnv ==
    ASSUME TypeInv, pc = "write", flash' \in Cut
    PROVE  EnvBlocks(flash') \subseteq EnvBlocks(flash)
  <1>1. PICK c \in {flash[at], Junk, NewPart} : flash' = [flash EXCEPT ![at] = c]
    BY CutTypes
  <1>2. at \in Blocks /\ NewPart.kind # "env"
    BY PartHere DEF NewPart, Part, Content
  <1>3. c = flash[at] \/ c.kind # "env"
    BY <1>1, <1>2, ContentKinds
  <1> QED BY <1>1, <1>2, <1>3, NoNewEnv

LEMMA NextEnv == TypeInv /\ EnvInv /\ [Next]_vars => EnvInv'
  <1> SUFFICES ASSUME TypeInv, EnvInv, [Next]_vars PROVE EnvInv'
    OBVIOUS
  <1> DEFINE Fewer == EnvBlocks(flash') \subseteq EnvBlocks(flash)
  <1>1. ASSUME Fewer, pc' = "env" => EnvBlocks(flash) = {} PROVE EnvInv'
    <2>1. AtMostOne(EnvBlocks(flash'))
      BY <1>1 DEF EnvInv, AtMostOne
    <2>2. pc' = "env" => EnvBlocks(flash') = {}
      BY <1>1
    <2> QED BY <2>1, <2>2 DEF EnvInv, AtMostOne, EnvBlocks
  <1>2. CASE eb_program
    BY <1>1, <1>2, ProgramEffect DEF Rescan, Return
  <1>3. CASE ProgramDelete
    <2>1. at \in Blocks /\ Deleted(at) /\ pc' = "write"
      BY <1>3 DEF ProgramDelete, TypeInv, TypeOK
    <2> QED BY <1>1, <2>1, DeletedEnv
  <1>4. CASE ProgramBlock
    <2>1. flash' = [flash EXCEPT ![at] = NewPart] /\ pc = "write" /\ pc' # "env"
      BY <1>4 DEF ProgramBlock, Rescan, Return
    <2>2. at \in Blocks /\ NewPart.kind # "env"
      BY <2>1, PartHere DEF NewPart, Part, Content
    <2> QED BY <1>1, <2>1, <2>2, NoNewEnv
  <1>5. CASE ProgramFails
    <2>1. flash' \in Cut /\ pc = "write" /\ pc' # "env"
      BY <1>5 DEF ProgramFails, Rescan, Return
    <2> QED BY <1>1, <2>1, CutEnv
  <1>6. ASSUME NEW b \in Blocks, eb_delete_block(b) PROVE EnvInv'
    BY <1>1, <1>6, DeletedEnv DEF eb_delete_block, Rescan, Return
  <1>7. ASSUME NEW b \in Blocks, eb_env(b) PROVE EnvInv'
    <2>1. EnvBlocks(flash) = {}
      BY <1>7, FindNvram DEF eb_env, NoEnvironment
    <2> QED BY <1>1, <1>7, <2>1, DeletedEnv DEF eb_env
  <1>8. ASSUME NEW id \in Ids, eb_delete_image(id) PROVE EnvInv'
    BY <1>1, <1>8 DEF eb_delete_image
  <1>9. CASE RemoveBlock
    <2>1. at \in Blocks /\ Deleted(at) /\ pc' # "env"
      BY <1>9 DEF RemoveBlock, Rescan, Return, TypeInv, TypeOK
    <2> QED BY <1>1, <2>1, DeletedEnv
  <1>10. CASE create_environment
    <2>1. EnvBlocks(flash) = {} /\ at \in Blocks /\ pc' = "idle"
      BY <1>10 DEF create_environment, EnvInv, TypeInv, TypeOK, Rescan, Return
    <2>2. EnvBlocks(flash') \subseteq {at}
      BY <1>10, <2>1 DEF create_environment, TypeInv, TypeOK, EnvBlocks
    <2> QED BY <2>1, <2>2 DEF EnvInv, AtMostOne, EnvBlocks
  <1>11. CASE PowerFails
    <2>1. pc' = "idle" /\ (flash' = flash \/ (pc = "write" /\ flash' \in Cut))
      BY <1>11, PowerTypes DEF Return
    <2> QED BY <1>1, <2>1, CutEnv
  <1>12. CASE UNCHANGED vars
    BY <1>12, <1>1 DEF vars, EnvInv
  <1> QED BY <1>2, <1>3, <1>4, <1>5, <1>6, <1>7, <1>8, <1>9, <1>10, <1>11, <1>12
           DEF Next, Program

-----------------------------------------------------------------------------
(* Other firmware. *)

Own == Image.id \notin {WNT} \cup SRM

\* The parts of the invariant speak of the next flash memory.
LEMMA Primed ==
    /\ Orderly(flash)' <=> Orderly(flash')
    /\ MarksInv' <=> Marked(flash', blocks')
    /\ \A x : Yields(x)' <=> ~ForeignIn(flash', x) /\ flash'[x].id # DBM
  BY Zenon DEF Orderly, ImagesApart, MonitorInPlace, MarksInv, Marked, Yields, ForeignIn, Pair,
     Headed, Claims, IsHeader, EnvBlocks, Blocks, Ids, DBM, WNT, SRM, FREE, MILO, Max

\* What a step may put in a block, and what that leaves.
LEMMA Changed ==
    ASSUME TypeInv, FlashInv, Own, NEW b \in Blocks, NEW c \in Contents,
           flash' = [flash EXCEPT ![b] = c],
           \/ c = flash[b]
           \/ flash[b].id # DBM /\ c \in {Erased, Junk}
           \/ Yields(b) /\ c = Env
           \/ /\ Yields(b) /\ ~IsHeader(c) /\ c.id = Image.id /\ c.kind # "env"
           \/ /\ Yields(b) /\ IsHeader(c) /\ c.id = Image.id /\ c.kind # "env"
              /\ \A x \in Blocks : b <= x /\ x < b + c.size => Yields(x)
    PROVE  /\ Orderly(flash')
           /\ \A x \in Blocks : Yields(x) => Yields(x)'
           /\ Marked(flash', blocks)
           /\ \A x \in Blocks : flash[x].id = DBM => flash'[x] = flash[x]
  <1>1. flash \in [Blocks -> Contents] /\ Orderly(flash) /\ Marked(flash, blocks)
    BY DEF TypeInv, TypeOK, FlashInv, MarksInv, Marked
  <1>2. \A x \in Blocks : flash'[x] = IF x = b THEN c ELSE flash[x]
    BY <1>1
  <1>3. CASE c = flash[b]
    <2>1. flash' = flash
      BY <1>1, <1>3
    <2> QED BY <1>1, <2>1, Primed DEF Yields
  <1>4. CASE c # flash[b]
    <2>1. flash[b].id # DBM /\ c.id # DBM
      BY <1>4, ContentKinds, IdsKnown DEF Yields
    <2>2. IsHeader(c) => /\ c.id = Image.id
                         /\ \A x \in Blocks : b <= x /\ x < b + c.size => ~ForeignIn(flash, x)
      BY <1>4, ContentKinds DEF Yields
    <2>3. c.kind = "env" => ~ForeignIn(flash, b)
      BY <1>4, ContentKinds DEF Yields
    <2>4. ImagesApart(flash') /\ \A x \in Blocks : ForeignIn(flash', x) => ForeignIn(flash, x)
      <3>1. ASSUME NEW g, g = [flash EXCEPT ![b] = c]
            PROVE  ImagesApart(g) /\ \A x \in Blocks : ForeignIn(g, x) => ForeignIn(flash, x)
        BY <1>1, <2>2, <2>3, <3>1, ChangeApart DEF Orderly, Own
      <3> QED BY <3>1
    <2>5. /\ MonitorInPlace(flash')
          /\ \A x \in Blocks : flash'[x].id = DBM => flash[x].id = DBM
      <3>1. ASSUME NEW g, g = [flash EXCEPT ![b] = c]
            PROVE  MonitorInPlace(g) /\ \A x \in Blocks : g[x].id = DBM => flash[x].id = DBM
        BY <1>1, <2>1, <3>1, ChangeMonitor DEF Orderly
      <3> QED BY <3>1
    <2>6. Orderly(flash')
      BY <2>4, <2>5 DEF Orderly
    <2>7. \A x \in Blocks : Yields(x) => Yields(x)'
      <3>1. \A x \in Blocks : ~ForeignIn(flash, x) => ~ForeignIn(flash', x)
        BY <2>4
      <3>2. \A x \in Blocks : flash[x].id # DBM => flash'[x].id # DBM
        BY <2>5
      <3> QED BY <3>1, <3>2, Primed DEF Yields
    <2>8. Marked(flash', blocks)
      BY <1>1, <2>4, <2>5 DEF Marked
    <2> QED BY <1>2, <2>1, <2>6, <2>7, <2>8
  <1> QED BY <1>3, <1>4

-----------------------------------------------------------------------------
(* FlashInv is preserved. *)

LEMMA AfterReturn ==
    ASSUME Orderly(flash'), Marked(flash', blocks'), Return
    PROVE  FlashInv'
  <1>1. WorkInv'
    BY DEF Return, WorkInv
  <1>2. Orderly(flash)' /\ MarksInv'
    BY Primed
  <1> QED BY <1>1, <1>2 DEF FlashInv

LEMMA AfterScan ==
    ASSUME Own, Orderly(flash'), Rescan \/ (Return /\ blocks' = eb_init(flash'))
    PROVE  FlashInv'
  <1>1. ASSUME NEW f, Orderly(f)
        PROVE  Marked(f, scan_blocks(f)) /\ Marked(f, eb_init(f))
    BY <1>1, ScanMarks DEF Own
  <1>2. Return /\ (blocks' = scan_blocks(flash') \/ blocks' = eb_init(flash'))
    BY DEF Rescan
  <1>3. Marked(flash', blocks')
    BY <1>1, <1>2
  <1> QED BY <1>2, <1>3, AfterReturn

\* The operation in progress may change the blocks it has still to do.
LEMMA AtYields ==
    ASSUME TypeInv, FlashInv, pc \in {"delete", "write"}
    PROVE  /\ Yields(at) /\ at \in Blocks
           /\ \A x \in Blocks : start <= x /\ x < start + Image.size => Yields(x)
  <1>1. at \in Blocks /\ start <= at /\ at < start + Image.size
    BY DEF TypeInv, TypeOK, RangeInv
  <1> QED BY <1>1 DEF FlashInv, WorkInv

\* A block that is not the debug monitor's is deleted.
LEMMA DeletedFlash ==
    ASSUME TypeInv, FlashInv, Own, NEW b \in Blocks, flash[b].id # DBM, Deleted(b)
    PROVE  /\ Orderly(flash') /\ Marked(flash', blocks)
           /\ \A x \in Blocks : Yields(x) => Yields(x)'
           /\ \A x \in Blocks : flash[x].id = DBM => flash'[x] = flash[x]
  <1>1. PICK c \in {Erased, Junk, flash[b]} : c \in Contents /\ flash' = [flash EXCEPT ![b] = c]
    BY DeletedTypes
  <1> QED BY <1>1, Changed

\* The block being programmed gets its part of the image, whole or in part.
LEMMA WrittenFlash ==
    ASSUME TypeInv, FlashInv, Own, pc = "write",
           flash' = [flash EXCEPT ![at] = NewPart] \/ flash' \in Cut
    PROVE  /\ Orderly(flash') /\ Marked(flash', blocks)
           /\ \A x \in Blocks : Yields(x) => Yields(x)'
           /\ \A x \in Blocks : flash[x].id = DBM => flash'[x] = flash[x]
           /\ \A x \in Blocks : x # at => flash'[x] = flash[x]
  <1>1. PICK c \in {flash[at], Junk, NewPart} :
            c \in Contents /\ flash' = [flash EXCEPT ![at] = c]
    BY CutTypes, PartHere
  <1>2. Yields(at) /\ at \in Blocks
        /\ \A x \in Blocks : start <= x /\ x < start + Image.size => Yields(x)
    BY AtYields
  <1>3. \A x \in Blocks : x # at => flash'[x] = flash[x]
    BY <1>1 DEF TypeInv, TypeOK
  <1>4. CASE c = flash[at] \/ c = Junk
    <2>1. flash[at].id # DBM
      BY <1>2 DEF Yields
    <2> QED BY <1>1, <1>2, <1>3, <1>4, <2>1, Changed
  <1>5. CASE c = NewPart
    <2>1. c.id = Image.id /\ c.size = Image.size /\ c.kind # "env"
          /\ (IsHeader(c) => at - start = 0)
      BY <1>5 DEF NewPart, Part, Content, IsHeader
    <2>2. IsHeader(c) => at = start
      BY <2>1, PartHere
    <2>3. IsHeader(c) => \A x \in Blocks : at <= x /\ x < at + c.size => Yields(x)
      BY <1>2, <2>1, <2>2
    <2> QED BY <1>1, <1>2, <1>3, <2>1, <2>3, Changed
  <1> QED BY <1>1, <1>4, <1>5

\* What a command finds free it may change.
LEMMA FreeYields ==
    ASSUME FlashInv, NEW marks \in {blocks, GivenUp}, TypeInv
    PROVE  Marked(flash, marks) /\ \A b \in Blocks : marks[b] = FREE => Yields(b)
  <1>1. Marked(flash, blocks)
    BY DEF FlashInv, MarksInv, Marked
  <1>2. ASSUME NEW b \in Blocks
        PROVE  /\ ForeignIn(flash, b) => marks[b] \notin {FREE, Image.id}
               /\ flash[b].id = DBM => marks[b] = DBM
    <2>1. /\ ForeignIn(flash, b) => blocks[b] \notin {FREE, Image.id}
          /\ flash[b].id = DBM => blocks[b] = DBM
      BY <1>1 DEF Marked
    <2>2. marks[b] = blocks[b] \/ blocks[b] = Image.id
      BY DEF GivenUp
    <2> QED BY <2>1, <2>2, IdsKnown
  <1> QED BY <1>2, IdsKnown DEF Marked, Yields

LEMMA ProgramFlash == TypeInv /\ FlashInv /\ Own /\ eb_program => FlashInv'
  <1> SUFFICES ASSUME TypeInv, FlashInv, Own, eb_program PROVE FlashInv'
    OBVIOUS
  <1>1. flash' = flash
    BY ProgramEffect
  <1>2. Orderly(flash') /\ \A x : Yields(x) => Yields(x)'
    BY <1>1, Primed DEF FlashInv, Yields
  <1>3. PICK marks \in {blocks, GivenUp} :
                 \/ Rescan
                 \/ Return /\ blocks' = marks
                 \/ \E first \in Blocks :
                       /\ first + Image.size <= FLASH_BLOCKS
                       /\ ~Overwrites(marks, first)
                       /\ pc' = "delete" /\ start' = first /\ at' = first
                       /\ blocks' = marks /\ target' = target
    BY ProgramEffect
  <1>4. Marked(flash', marks) /\ \A b \in Blocks : marks[b] = FREE => Yields(b)
    BY <1>1, FreeYields
  <1>5. CASE Rescan
    BY <1>2, <1>5, AfterScan
  <1>6. CASE Return /\ blocks' = marks
    BY <1>2, <1>4, <1>6, AfterReturn
  <1>7. ASSUME NEW first \in Blocks, ~Overwrites(marks, first),
               pc' = "delete", start' = first, at' = first, blocks' = marks
        PROVE  FlashInv'
    <2>1. ASSUME NEW b \in Blocks, first <= b, b < first + Image.size
          PROVE  Yields(b)'
      <3>1. b \in first .. (first + Image.size - 1)
        BY <2>1, BlocksNat, IdsKnown
      <3>2. marks[b] = FREE
        BY <1>7, <3>1 DEF Overwrites
      <3> QED BY <1>2, <1>4, <3>2
    <2>2. WorkInv'
      BY <1>7, <2>1 DEF WorkInv, Blocks
    <2>3. Orderly(flash)' /\ MarksInv'
      BY <1>2, <1>4, <1>7, Primed
    <2> QED BY <2>2, <2>3 DEF FlashInv
  <1> QED BY <1>3, <1>5, <1>6, <1>7

LEMMA ProgramDeleteFlash == TypeInv /\ FlashInv /\ Own /\ ProgramDelete => FlashInv'
  <1> SUFFICES ASSUME TypeInv, FlashInv, Own, ProgramDelete PROVE FlashInv'
    OBVIOUS
  <1>1. /\ pc = "delete" /\ pc' = "write" /\ Deleted(at)
        /\ blocks' = [blocks EXCEPT ![at] = FREE]
        /\ start' = start /\ at' = at
    BY DEF ProgramDelete, locals
  <1>2. Yields(at) /\ at \in Blocks
        /\ \A x \in Blocks : start <= x /\ x < start + Image.size => Yields(x)
    BY <1>1, AtYields
  <1>3. /\ Orderly(flash') /\ Marked(flash', blocks)
        /\ \A x \in Blocks : Yields(x) => Yields(x)'
    BY <1>1, <1>2, DeletedFlash DEF Yields
  <1>4. ~ForeignIn(flash', at) /\ flash'[at].id # DBM
    BY <1>2, <1>3, Primed
  <1>5. Marked(flash', blocks')
    <2>1. \A x \in Blocks : x # at => blocks'[x] = blocks[x]
      BY <1>1 DEF TypeInv, TypeOK
    <2> QED BY <1>3, <1>4, <2>1 DEF Marked
  <1>6. WorkInv'
    BY <1>1, <1>2, <1>3 DEF WorkInv, Blocks
  <1>7. Orderly(flash)' /\ MarksInv'
    BY <1>3, <1>5, Primed
  <1> QED BY <1>6, <1>7 DEF FlashInv

LEMMA ProgramBlockFlash == TypeInv /\ FlashInv /\ Own /\ ProgramBlock => FlashInv'
  <1> SUFFICES ASSUME TypeInv, FlashInv, Own, ProgramBlock PROVE FlashInv'
    OBVIOUS
  <1>1. pc = "write" /\ flash' = [flash EXCEPT ![at] = NewPart]
    BY DEF ProgramBlock
  <1>2. /\ Orderly(flash') /\ Marked(flash', blocks)
        /\ \A x \in Blocks : Yields(x) => Yields(x)'
    BY <1>1, WrittenFlash
  <1>3. CASE LastOfImage
    BY <1>2, <1>3, AfterScan DEF ProgramBlock
  <1>4. CASE ~LastOfImage
    <2>1. pc' = "delete" /\ blocks' = blocks /\ start' = start
      BY <1>4 DEF ProgramBlock
    <2>2. \A x \in Blocks : start <= x /\ x < start + Image.size => Yields(x)'
      BY <1>1, <1>2, AtYields
    <2>3. WorkInv'
      BY <2>1, <2>2 DEF WorkInv, Blocks
    <2>4. Orderly(flash)' /\ MarksInv'
      BY <1>2, <2>1, Primed
    <2> QED BY <2>3, <2>4 DEF FlashInv
  <1> QED BY <1>3, <1>4

LEMMA ProgramFailsFlash == TypeInv /\ FlashInv /\ Own /\ ProgramFails => FlashInv'
  <1> SUFFICES ASSUME TypeInv, FlashInv, Own, ProgramFails PROVE FlashInv'
    OBVIOUS
  <1>1. pc = "write" /\ flash' \in Cut /\ (Rescan \/ (Return /\ blocks' = blocks))
    BY DEF ProgramFails
  <1>2. Orderly(flash') /\ Marked(flash', blocks)
    BY <1>1, WrittenFlash
  <1> QED BY <1>1, <1>2, AfterScan, AfterReturn

LEMMA DeleteBlockFlash ==
    ASSUME TypeInv, FlashInv, Own, NEW b \in Blocks, eb_delete_block(b)
    PROVE  FlashInv'
  <1>1. flash[b].id # DBM
    BY DEF eb_delete_block, Deletable, FlashInv, MarksInv
  <1> QED BY <1>1, DeletedFlash, AfterScan DEF eb_delete_block

LEMMA DeleteImageFlash ==
    ASSUME TypeInv, FlashInv, Own, NEW id \in Ids, eb_delete_image(id)
    PROVE  FlashInv'
  <1>1. /\ flash' = flash /\ blocks' = blocks /\ pc' = "remove" /\ target' = id /\ id # DBM
        /\ at' = find_image(blocks, id) /\ find_image(blocks, id) >= 0
    BY DEF eb_delete_image
  <1>2. WorkInv'
    BY <1>1, FindImage DEF WorkInv
  <1>3. Orderly(flash') /\ Marked(flash', blocks')
    BY <1>1 DEF FlashInv, MarksInv, Marked
  <1> QED BY <1>2, <1>3, Primed DEF FlashInv

LEMMA RemoveBlockFlash == TypeInv /\ FlashInv /\ Own /\ RemoveBlock => FlashInv'
  <1> SUFFICES ASSUME TypeInv, FlashInv, Own, RemoveBlock PROVE FlashInv'
    OBVIOUS
  <1>1. pc = "remove" /\ Deleted(at) /\ at \in Blocks /\ target # DBM /\ blocks[at] = target
    BY DEF RemoveBlock, FlashInv, WorkInv, TypeInv, TypeOK
  <1>2. flash[at].id # DBM
    BY <1>1 DEF FlashInv, MarksInv
  <1>3. Orderly(flash') /\ Marked(flash', blocks)
    BY <1>1, <1>2, DeletedFlash
  <1>4. CASE Rescan
    BY <1>3, <1>4, AfterScan
  <1>5. CASE /\ blocks[at + 1] = target
             /\ at' = at + 1 /\ UNCHANGED <<pc, blocks, start, target>>
    <2>1. WorkInv'
      BY <1>1, <1>5 DEF WorkInv
    <2>2. Orderly(flash)' /\ MarksInv'
      BY <1>3, <1>5, Primed
    <2> QED BY <2>1, <2>2 DEF FlashInv
  <1> QED BY <1>4, <1>5 DEF RemoveBlock

LEMMA EnvFlash ==
    ASSUME TypeInv, FlashInv, Own, NEW b \in Blocks, eb_env(b)
    PROVE  FlashInv'
  <1>1. /\ blocks[b] = FREE /\ Deleted(b) /\ pc' = "env" /\ at' = b
        /\ UNCHANGED <<blocks, start, target>>
    BY DEF eb_env
  <1>2. Yields(b)
    BY <1>1, FreeYields
  <1>3. /\ Orderly(flash') /\ Marked(flash', blocks)
        /\ \A x \in Blocks : Yields(x) => Yields(x)'
    BY <1>1, <1>2, DeletedFlash DEF Yields
  <1>4. WorkInv'
    BY <1>1, <1>2, <1>3 DEF WorkInv
  <1>5. Orderly(flash)' /\ MarksInv'
    BY <1>1, <1>3, Primed
  <1> QED BY <1>4, <1>5 DEF FlashInv

LEMMA CreateFlash == TypeInv /\ FlashInv /\ Own /\ create_environment => FlashInv'
  <1> SUFFICES ASSUME TypeInv, FlashInv, Own, create_environment PROVE FlashInv'
    OBVIOUS
  <1>1. Yields(at) /\ at \in Blocks /\ flash[at].id # DBM
    BY DEF create_environment, FlashInv, WorkInv, TypeInv, TypeOK, Yields
  <1>2. CASE /\ flash' = [flash EXCEPT ![at] = Env]
             /\ blocks' = [blocks EXCEPT ![at] = MILO] /\ Return
    <2>1. /\ Orderly(flash') /\ Marked(flash', blocks)
          /\ \A x \in Blocks : Yields(x) => Yields(x)'
      BY <1>1, <1>2, ContentKinds, Changed
    <2>2. ~ForeignIn(flash', at) /\ flash'[at].id # DBM
      BY <1>1, <2>1, Primed
    <2>3. \A x \in Blocks : x # at => blocks'[x] = blocks[x]
      BY <1>2 DEF TypeInv, TypeOK
    <2>4. Marked(flash', blocks')
      BY <2>1, <2>2, <2>3 DEF Marked
    <2> QED BY <1>2, <2>1, <2>4, AfterReturn
  <1>3. CASE flash' = [flash EXCEPT ![at] = Junk] /\ Rescan
    <2>1. Orderly(flash')
      BY <1>1, <1>3, ContentKinds, Changed
    <2> QED BY <1>3, <2>1, AfterScan
  <1> QED BY <1>2, <1>3 DEF create_environment

LEMMA PowerFlash == TypeInv /\ FlashInv /\ Own /\ PowerFails => FlashInv'
  <1> SUFFICES ASSUME TypeInv, FlashInv, Own, PowerFails PROVE FlashInv'
    OBVIOUS
  <1>1. /\ Return /\ blocks' = eb_init(flash')
        /\ flash' = flash \/ (pc = "write" /\ flash' \in Cut)
    BY PowerTypes
  <1>2. Orderly(flash')
    BY <1>1, WrittenFlash DEF FlashInv
  <1> QED BY <1>1, <1>2, AfterScan

LEMMA NextFlash == TypeInv /\ FlashInv /\ Own /\ [Next]_vars => FlashInv'
  <1> SUFFICES ASSUME TypeInv, FlashInv, Own, [Next]_vars PROVE FlashInv'
    OBVIOUS
  <1>1. CASE UNCHANGED vars
    <2>1. Orderly(flash)' /\ MarksInv' /\ \A x : Yields(x) => Yields(x)'
      BY <1>1, Primed DEF vars, FlashInv, MarksInv, Marked, Yields
    <2>2. WorkInv'
      BY <1>1, <2>1 DEF vars, locals, FlashInv, WorkInv, Blocks
    <2> QED BY <2>1, <2>2 DEF FlashInv
  <1>2. CASE Program
    BY <1>2, ProgramFlash, ProgramDeleteFlash, ProgramBlockFlash, ProgramFailsFlash DEF Program
  <1>3. ASSUME NEW b \in Blocks, eb_delete_block(b) \/ eb_env(b) PROVE FlashInv'
    BY <1>3, DeleteBlockFlash, EnvFlash
  <1>4. ASSUME NEW id \in Ids, eb_delete_image(id) PROVE FlashInv'
    BY <1>4, DeleteImageFlash
  <1>5. CASE RemoveBlock \/ create_environment \/ PowerFails
    BY <1>5, RemoveBlockFlash, CreateFlash, PowerFlash
  <1> QED BY <1>1, <1>2, <1>3, <1>4, <1>5 DEF Next

LEMMA InitFlash == OrderlyFlash /\ Init => FlashInv
  <1> SUFFICES ASSUME OrderlyFlash, Init PROVE FlashInv
    OBVIOUS
  <1>1. Orderly(flash) /\ blocks = eb_init(flash) /\ pc = "idle"
    BY DEF Init, OrderlyFlash
  <1>2. Marked(flash, blocks)
    <2>1. \A f : Orderly(f) => Marked(f, eb_init(f))
      BY ScanMarks DEF OrderlyFlash
    <2> QED BY <1>1, <2>1
  <1> QED BY <1>1, <1>2 DEF FlashInv, MarksInv, Marked, WorkInv

-----------------------------------------------------------------------------
(* The steps that change a block. *)

LEMMA ForeignAgrees == \A b \in Blocks : Foreign(b) <=> ForeignIn(flash, b)
  BY FindImage DEF Foreign, ForeignIn

\* No step changes a block of the debug monitor.
LEMMA MonitorStep ==
    ASSUME TypeInv, FlashInv, Own, Next, NEW b \in Blocks, flash[b].id = DBM
    PROVE  flash'[b] = flash[b]
  <1>1. CASE flash' = flash
    BY <1>1
  <1>2. ASSUME NEW x \in Blocks, flash[x].id # DBM, Deleted(x) PROVE flash'[b] = flash[b]
    BY <1>2, DeletedFlash
  <1>3. ASSUME pc = "write", flash' = [flash EXCEPT ![at] = NewPart] \/ flash' \in Cut
        PROVE  flash'[b] = flash[b]
    BY <1>3, WrittenFlash
  <1>4. CASE Program
    <2>1. CASE eb_program
      BY <1>1, <2>1, ProgramEffect
    <2>2. CASE ProgramDelete
      BY <1>2, <2>2, AtYields DEF ProgramDelete, Yields
    <2>3. CASE ProgramBlock \/ ProgramFails
      BY <1>3, <2>3 DEF ProgramBlock, ProgramFails
    <2> QED BY <1>4, <2>1, <2>2, <2>3 DEF Program
  <1>5. ASSUME NEW x \in Blocks, eb_delete_block(x) \/ eb_env(x) PROVE flash'[b] = flash[b]
    <2>1. blocks[x] # DBM
      BY <1>5, IdsKnown DEF eb_delete_block, Deletable, eb_env
    <2>2. flash[x].id # DBM
      BY <2>1 DEF FlashInv, MarksInv
    <2> QED BY <1>2, <1>5, <2>2 DEF eb_delete_block, eb_env
  <1>6. ASSUME NEW id \in Ids, eb_delete_image(id) PROVE flash'[b] = flash[b]
    BY <1>1, <1>6 DEF eb_delete_image
  <1>7. CASE RemoveBlock
    <2>1. at \in Blocks /\ Deleted(at) /\ flash[at].id # DBM
      BY <1>7 DEF RemoveBlock, FlashInv, WorkInv, MarksInv, TypeInv, TypeOK
    <2> QED BY <1>2, <2>1
  <1>8. CASE create_environment
    <2>1. at \in Blocks /\ flash[at].id # DBM /\ at # b
      BY <1>8 DEF create_environment, FlashInv, WorkInv, Yields, TypeInv, TypeOK
    <2> QED BY <1>8, <2>1 DEF create_environment, TypeInv, TypeOK
  <1>9. CASE PowerFails
    BY <1>1, <1>3, <1>9, PowerTypes
  <1> QED BY <1>4, <1>5, <1>6, <1>7, <1>8, <1>9 DEF Next

\* Programming changes only blocks that are not foreign.
LEMMA ForeignStep ==
    ASSUME TypeInv, FlashInv, Own, Program, NEW b \in Blocks, ForeignIn(flash, b)
    PROVE  flash'[b] = flash[b]
  <1>1. CASE eb_program
    BY <1>1, ProgramEffect
  <1>2. CASE ~eb_program
    <2>1. pc \in {"delete", "write"}
      BY <1>2 DEF Program, ProgramDelete, ProgramBlock, ProgramFails
    <2>2. b # at
      BY <2>1, AtYields DEF Yields
    <2>3. CASE ProgramDelete
      <3>1. PICK c : flash' = [flash EXCEPT ![at] = c]
        BY <2>3 DEF ProgramDelete, Deleted
      <3> QED BY <2>2, <3>1 DEF TypeInv, TypeOK
    <2>4. CASE ProgramBlock \/ ProgramFails
      <3>1. pc = "write" /\ (flash' = [flash EXCEPT ![at] = NewPart] \/ flash' \in Cut)
        BY <2>4 DEF ProgramBlock, ProgramFails
      <3> QED BY <2>2, <3>1, WrittenFlash
    <2> QED BY <1>2, <2>3, <2>4 DEF Program
  <1> QED BY <1>1, <1>2

-----------------------------------------------------------------------------
(* The theorems. *)

\* The utility's marks, its operation and the flash memory keep their types
\* (eb.c), whatever the memory held.
THEOREM FlashCorrect == Spec => []TypeOK
  <1>1. TypeInv => TypeOK
    BY DEF TypeInv
  <1> QED BY <1>1, InitTypes, NextTypes, PTL DEF Spec

\* The environment command (eb_env) makes an environment only where there
\* is none, so that with at most one to begin with there is never a second.
THEOREM EnvironmentIsOne == OneAtFirst => (Spec => []OneEnvironment)
  <1> SUFFICES ASSUME OneAtFirst PROVE Spec => []OneEnvironment
    OBVIOUS
  <1>1. Init => EnvInv
    BY DEF Init, OneAtFirst, EnvInv
  <1>2. EnvInv => OneEnvironment
    <2> SUFFICES ASSUME EnvInv PROVE Cardinality(EnvBlocks(flash)) <= 1
      BY DEF OneEnvironment, EnvBlocks
    <2>1. CASE EnvBlocks(flash) = {}
      <3>1. Cardinality(EnvBlocks(flash)) = 0
        BY <2>1, FS_EmptySet
      <3> QED BY <3>1
    <2>2. CASE EnvBlocks(flash) # {}
      <3>1. PICK b : b \in EnvBlocks(flash)
        BY <2>2
      <3>2. EnvBlocks(flash) = {b}
        BY <3>1 DEF EnvInv, AtMostOne
      <3>3. Cardinality({b}) = 1
        BY FS_Singleton
      <3> QED BY <3>2, <3>3
    <2> QED BY <2>1, <2>2
  <1> QED BY <1>1, <1>2, InitTypes, NextTypes, NextEnv, PTL DEF Spec

\* The images stay apart, and the marks, however stale after a failure, never
\* give away a foreign block (scan_blocks, eb_program, eb_env).
THEOREM FlashStaysOrderly == OrderlyFlash => (Spec => []FlashInv)
  <1> SUFFICES ASSUME OrderlyFlash PROVE Spec => []FlashInv
    OBVIOUS
  <1>1. Init => FlashInv
    BY InitFlash
  <1>2. TypeInv /\ FlashInv /\ [Next]_vars => FlashInv'
    BY NextFlash DEF OrderlyFlash, Own
  <1> QED BY <1>1, <1>2, InitTypes, NextTypes, PTL DEF Spec

\* "you cannot delete the Debug Monitor": no command, failure or power
\* failure changes a block of it.
THEOREM MonitorIsSafe == OrderlyFlash => (Spec => DebugMonitorSafe)
  <1> SUFFICES ASSUME OrderlyFlash PROVE Spec => DebugMonitorSafe
    OBVIOUS
  <1>1. TypeInv /\ FlashInv /\ [Next]_vars =>
            [\A b \in Blocks : flash[b].id = DBM => flash'[b] = flash[b]]_vars
    BY MonitorStep DEF OrderlyFlash, Own
  <1>2. Spec => [](TypeInv /\ FlashInv)
    BY FlashStaysOrderly, InitTypes, NextTypes, PTL DEF Spec
  <1> QED BY <1>1, <1>2, PTL DEF Spec, DebugMonitorSafe

\* Programming the image never changes a block of another firmware, whatever
\* block the user names and whatever earlier failures left in blocks[].
THEOREM ForeignIsSpared == OrderlyFlash => (Spec => ForeignSpared)
  <1> SUFFICES ASSUME OrderlyFlash PROVE Spec => ForeignSpared
    OBVIOUS
  <1>1. TypeInv /\ FlashInv /\ [Next]_vars =>
            [Program => \A b \in Blocks : Foreign(b) => flash'[b] = flash[b]]_vars
    BY ForeignStep, ForeignAgrees DEF OrderlyFlash, Own
  <1>2. Spec => [](TypeInv /\ FlashInv)
    BY FlashStaysOrderly, InitTypes, NextTypes, PTL DEF Spec
  <1> QED BY <1>1, <1>2, PTL DEF Spec, ForeignSpared
===============================================================================
