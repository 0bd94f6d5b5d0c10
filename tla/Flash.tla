--------------------------------- MODULE Flash --------------------------------
(***************************************************************************)
(* The flash management utility on the evaluation boards (flash/eb.c over  *)
(* flash/28f008sa.c).  The flash memory is an array of blocks that are     *)
(* erased and programmed one by one.  It holds firmware images, each with  *)
(* a header in its first block that says how many blocks it takes, and the *)
(* environment block of MILO.  The utility keeps in blocks[] who uses      *)
(* which block, as found by scan_blocks.  A block may fail to erase or to  *)
(* program, and the power may go at any moment.                            *)
(***************************************************************************)
EXTENDS Integers, FiniteSetsExt

CONSTANTS
    FLASH_BLOCKS,
    Image,          \* [id, size]: the image the utility carries
    Layouts         \* contents of the flash memory to begin with

DBM == 0            \* firmware id of the debug monitor, the board's own
WNT == 1
SRM == {2, 3}
MILO == 7
FREE == -1          \* (char) -1 in blocks[]

Ids == 0 .. MILO
Blocks == 0 .. (FLASH_BLOCKS - 1)

(* What a block holds: part of an image, the marker of the environment, or *)
(* neither.  Part 0 of an image starts with its header.                    *)
Kinds == {"erased", "junk", "env", "image"}
Content(kind, id, part, size) == [kind |-> kind, id |-> id, part |-> part, size |-> size]
Erased == Content("erased", FREE, 0, 0)
Junk == Content("junk", FREE, 0, 0)
Env == Content("env", FREE, 0, 0)
Part(id, part, size) == Content("image", id, part, size)

Contents == [kind : Kinds, id : Ids \cup {FREE}, part : Nat, size : Nat]

ASSUME FlashAssumption ==
    /\ FLASH_BLOCKS \in Nat \ {0, 1}
    /\ Image.id \in Ids \ {DBM} /\ Image.size \in Nat \ {0}
    /\ Layouts \subseteq [Blocks -> Contents]

VARIABLES
    flash,      \* contents of the blocks
    blocks,     \* blocks[]
    pc,         \* "idle", "delete", "write", "remove" or "env"
    start, at,  \* first block of the operation and the one it is at
    target      \* the image being deleted

locals == <<start, at, target>>
vars == <<flash, blocks, pc, locals>>

TypeOK ==
    /\ flash \in [Blocks -> Contents]
    /\ blocks \in [Blocks -> Ids \cup {FREE}]
    /\ pc \in {"idle", "delete", "write", "remove", "env"}
    /\ start \in Blocks /\ at \in Blocks
    /\ target \in Ids \cup {FREE}

-----------------------------------------------------------------------------
(* Who uses what.                                                          *)
IsHeader(c) == c.kind = "image" /\ c.part = 0

\* The header in block h claims block b.
Claims(f, h, b) == IsHeader(f[h]) /\ h <= b /\ b < h + f[h].size

\* The marks by the headers alone: the last header that claims a block.
Headed(f) ==
    [b \in Blocks |->
        LET hs == { h \in Blocks : Claims(f, h, b) }
        IN  IF hs = {} THEN FREE ELSE f[Max(hs)].id]

\* "look for an image more than one block long": its first block or -1.
find_image(marks, id) ==
    LET pairs == { i \in Blocks : marks[i] = id /\ i + 1 \in Blocks /\ marks[i + 1] = id }
    IN  IF pairs = {} THEN -1 ELSE Min(pairs)

find_nvram(f) ==
    LET es == { b \in Blocks : f[b].kind = "env" } IN IF es = {} THEN -1 ELSE Min(es)

\* Windows NT and the SRM console own the last two blocks when present.
scan_blocks(f) ==
    LET nt == [Headed(f) EXCEPT ![FLASH_BLOCKS - 1] =
                  IF find_image(Headed(f), WNT) >= 0 THEN WNT ELSE @]
        consoles == { id \in SRM : find_image(nt, id) >= 0 }
        srm == [nt EXCEPT ![FLASH_BLOCKS - 2] =
                  IF consoles # {} THEN Max(consoles) ELSE @]
        env == find_nvram(f)
    IN  [b \in Blocks |-> IF b = env /\ env > 0 THEN MILO ELSE srm[b]]

\* eb_init: the environment's block is marked even when it is block 0.
eb_init(f) ==
    [b \in Blocks |-> IF b = find_nvram(f) THEN MILO ELSE scan_blocks(f)[b]]

Init ==
    /\ flash \in Layouts
    /\ blocks = eb_init(flash)
    /\ pc = "idle"
    /\ start = 0 /\ at = 0
    /\ target = FREE

\* The operation is over; its local variables are gone.
Return ==
    /\ pc' = "idle"
    /\ start' = 0 /\ at' = 0 /\ target' = FREE

Rescan == Return /\ blocks' = scan_blocks(flash')

-----------------------------------------------------------------------------
(* Programming the image.                                                  *)

\* Mutant: looks at the first block only.
Overwrites_First(marks, b) == marks[b] # FREE

\* "check to see if the image would overwrite another image".
Overwrites(marks, b) == \E i \in b .. (b + Image.size - 1) : marks[i] # FREE

\* eb_program up to the last question.  An existing image may be
\* overwritten, its blocks counting as free; else the user gives a block.
eb_program ==
    /\ pc = "idle"
    /\ UNCHANGED flash
    /\ \E overwrite, sure \in BOOLEAN, b \in Blocks :
          LET found == find_image(blocks, Image.id)
              over == overwrite /\ found >= 0
              first == IF over THEN found ELSE b
              marks == IF over THEN [i \in Blocks |-> IF blocks[i] = Image.id
                                                      THEN FREE ELSE blocks[i]]
                               ELSE blocks
              room == first + Image.size <= FLASH_BLOCKS
          IN  \/ ~room /\ Rescan
              \/ room /\ Overwrites(marks, first) /\ Return /\ blocks' = marks
              \/ room /\ ~Overwrites(marks, first) /\ ~sure /\ Rescan
              \/ /\ room /\ ~Overwrites(marks, first) /\ sure
                 /\ pc' = "delete"
                 /\ start' = first /\ at' = first
                 /\ blocks' = marks
                 /\ UNCHANGED target

\* delete_flash_block reports a failure and goes on.
Deleted(b) == \E c \in {Erased, Junk, flash[b]} : flash' = [flash EXCEPT ![b] = c]

ProgramDelete ==
    /\ pc = "delete"
    /\ Deleted(at)
    /\ blocks' = [blocks EXCEPT ![at] = FREE]
    /\ pc' = "write"
    /\ UNCHANGED locals

NewPart == Part(Image.id, at - start, Image.size)

LastOfImage == at = start + Image.size - 1

\* A block that is programmed and verified was erased, or held the same.
ProgramBlock ==
    /\ pc = "write"
    /\ flash[at] \in {Erased, NewPart}
    /\ flash' = [flash EXCEPT ![at] = NewPart]
    /\ \/ LastOfImage /\ Rescan
       \/ /\ ~LastOfImage
          /\ pc' = "delete" /\ at' = at + 1
          /\ UNCHANGED <<blocks, start, target>>

\* Programming stops inside a block: its header may be there already.
Cut == { [flash EXCEPT ![at] = c] : c \in {flash[at], Junk, NewPart} }

\* A write that fails has the blocks scanned again, a byte that reads back
\* wrong does not.
ProgramFails ==
    /\ pc = "write"
    /\ flash' \in Cut
    /\ Rescan \/ (Return /\ UNCHANGED blocks)

-----------------------------------------------------------------------------
(* Deleting, and making an environment block.                              *)

\* Mutant: the debug monitor is not spared.
Deletable_All(b) == TRUE

Deletable(b) == blocks[b] # DBM

eb_delete_block(b) ==
    /\ pc = "idle"
    /\ Deletable(b)
    /\ Deleted(b)
    /\ Rescan

eb_delete_image(id) ==
    /\ pc = "idle" /\ id # DBM
    /\ find_image(blocks, id) >= 0
    /\ pc' = "remove"
    /\ target' = id
    /\ at' = find_image(blocks, id)
    /\ UNCHANGED <<flash, blocks, start>>

RemoveBlock ==
    /\ pc = "remove"
    /\ Deleted(at)
    /\ IF at + 1 \in Blocks /\ blocks[at + 1] = target
       THEN at' = at + 1 /\ UNCHANGED <<pc, blocks, start, target>>
       ELSE Rescan

\* Mutant: trusts blocks[] instead of reading the flash memory.
NoEnvironment_ByMarks == \A b \in Blocks : blocks[b] # MILO

NoEnvironment == find_nvram(flash) = -1

eb_env(b) ==
    /\ pc = "idle"
    /\ NoEnvironment
    /\ blocks[b] = FREE
    /\ Deleted(b)
    /\ pc' = "env" /\ at' = b
    /\ UNCHANGED <<blocks, start, target>>

create_environment ==
    /\ pc = "env"
    /\ \/ /\ flash[at] = Erased
          /\ flash' = [flash EXCEPT ![at] = Env]
          /\ blocks' = [blocks EXCEPT ![at] = MILO]
          /\ Return
       \/ /\ flash' = [flash EXCEPT ![at] = Junk]
          /\ Rescan

-----------------------------------------------------------------------------
(* The power goes; with it goes blocks[], which eb_init builds anew.       *)
PowerFails ==
    /\ IF pc = "write" THEN flash' \in Cut ELSE UNCHANGED flash
    /\ blocks' = eb_init(flash')
    /\ Return

Program == eb_program \/ ProgramDelete \/ ProgramBlock \/ ProgramFails

Next ==
    \/ Program
    \/ \E b \in Blocks : eb_delete_block(b) \/ eb_env(b)
    \/ \E id \in Ids : eb_delete_image(id)
    \/ RemoveBlock \/ create_environment
    \/ PowerFails

Spec == Init /\ [][Next]_vars

-----------------------------------------------------------------------------
\* "you cannot delete the Debug Monitor": no sequence of commands, failures
\* and power failures changes a block of it, so that the board can always
\* be started.
DebugMonitorSafe ==
    [][\A b \in Blocks : flash[b].id = DBM => flash'[b] = flash[b]]_vars

\* A block a foreign image claims, or that NT or the SRM console owns.
Foreign(b) ==
    \/ \E h \in Blocks : Claims(flash, h, b) /\ flash[h].id # Image.id
    \/ b = FLASH_BLOCKS - 1 /\ find_image(Headed(flash), WNT) >= 0
    \/ b = FLASH_BLOCKS - 2 /\ \E id \in SRM : find_image(Headed(flash), id) >= 0

\* Programming MILO never touches a block of another firmware, whichever
\* block the user names and whatever earlier failures left in blocks[].
ForeignSpared ==
    [][Program => \A b \in Blocks : Foreign(b) => flash'[b] = flash[b]]_vars

\* There is never more than one environment block: MILO would use the first
\* and the variables in the other would be lost.
OneEnvironment ==
    Cardinality({ b \in Blocks : flash[b].kind = "env" }) <= 1
===============================================================================
