--------------------------------- MODULE Msdos --------------------------------
(***************************************************************************)
(* The MS-DOS reader (fs/dos.c): the boot sector, the file allocation      *)
(* table unpacked into an array, a table of five inodes with the list of   *)
(* sectors of each, the path search and the listing of a directory.        *)
(* Addresses are sectors.                                                  *)
(***************************************************************************)
EXTENDS Disks, FiniteSetsExt, SequencesExt

CONSTANTS
    SECTOR_SIZE,    \* bytes of a sector, 512
    MSDOS_DPS,      \* directory entries of a sector, 16
    MSDOS_FAT12,    \* clusters a FAT of 12 bits has at most, 4078
    SHRT_MAX        \* largest short, 32767

MSDOS_MAX_EXTRA == 3
EntrySize == SECTOR_SIZE \div MSDOS_DPS
BootSector == 0

VARIABLES
    msdos_table,    \* slot -> [free, name, dir, start, size, list, blocks]
    msdos_sb,       \* the super block, from the boot sector
    fat             \* cluster -> next cluster

msdos_vars == <<msdos_table, msdos_sb, fat>>

FreeSlot == [free |-> TRUE, name |-> "", dir |-> FALSE, start |-> 0, size |-> 0, list |-> <<>>, blocks |-> 0]

NoSuper == [cluster_size |-> 1, fat_start |-> 0, fat_length |-> 0, dir_start |-> 0,
            dir_entries |-> 0, data_start |-> 0, clusters |-> 0, fat_bits |-> 12]

EmptyDosTable == [s \in 0 .. 4 |-> FreeSlot]

msdos_Init ==
    /\ msdos_table = EmptyDosTable
    /\ msdos_sb = NoSuper
    /\ fat = <<>>

msdos_PowerOn ==
    /\ msdos_table' = EmptyDosTable
    /\ msdos_sb' = NoSuper
    /\ fat' = <<>>

Sector(a) == IF a \in DOMAIN OnDisk.block THEN OnDisk.block[a] ELSE Zeros

(* A short read back: sectors past its range come out negative.            *)
Short(x) == ((x + SHRT_MAX + 1) % (2 * (SHRT_MAX + 1))) - (SHRT_MAX + 1)

-----------------------------------------------------------------------------
RoundToMultiple(n, k) == IF n # 0 /\ k # 0 THEN n + k - 1 - ((n - 1) % k) ELSE 0

(* The super block that boot sector b describes, before clusters is        *)
(* limited to what the FAT has room for.                                   *)
SuperOf(b) ==
    LET mult == b.sector_size \div SECTOR_SIZE
        dir_start == (b.reserved + b.fats * b.fat_length) * mult
        data_start == dir_start + RoundToMultiple(b.dir_entries \div MSDOS_DPS, mult)
        clusters == (b.sectors * mult - data_start) \div (b.cluster_size * mult)
    IN  [cluster_size |-> b.cluster_size * mult, fat_start |-> b.reserved * mult,
         fat_length |-> b.fat_length * mult, dir_start |-> dir_start,
         dir_entries |-> b.dir_entries, data_start |-> data_start, clusters |-> clusters,
         fat_bits |-> IF clusters > MSDOS_FAT12 THEN 16 ELSE 12]

FatClusters(sb) == (sb.fat_length * SECTOR_SIZE * 8) \div sb.fat_bits

ValidBoot(b) ==
    /\ b.cluster_size # 0 /\ b.sector_size \div SECTOR_SIZE # 0
    /\ b.fats # 0 /\ b.dir_entries % MSDOS_DPS = 0
    /\ SuperOf(b).clusters + 2 <= FatClusters(SuperOf(b)) + MSDOS_MAX_EXTRA
    /\ b.sector_size % SECTOR_SIZE = 0 /\ b.geometry

msdos_read_super(b) ==
    LET sb == SuperOf(b)
    IN  [sb EXCEPT !.clusters = Min({@, FatClusters(sb) - 2})]

(* Entry off of the FAT, packed into bytes.                                *)
read_fat(bytes, off, bits) ==
    LET index == IF bits = 16 THEN off * 2 ELSE (off * 3) \div 2
        value == bytes[index + 1] + 256 * bytes[index + 2]
    IN  IF bits = 16 THEN value
        ELSE IF off % 2 = 1 THEN value \div 16 ELSE value % 4096

translate_fat(sb, bytes) ==
    LET words == IF sb.fat_bits = 16 THEN Len(bytes) \div 2 ELSE (Len(bytes) * 2) \div 3
    IN  [i \in 0 .. (words - 1) |-> read_fat(bytes, i, sb.fat_bits)]

(* A disk of another type reads as a boot sector without clusters.         *)
ValidSuper == OnDisk.type = "msdos" /\ ValidBoot(OnDisk.boot)

FatSectors(sb) == sb.fat_start .. (sb.fat_start + sb.fat_length - 1)

msdos_mount ==
    /\ At("mount", "msdos")
    /\ msdos_table' = EmptyDosTable
    /\ \E bad \in Bad :
       \E valid \in {bad \cap {BootSector, NoMemory} = {} /\ ValidSuper} :
       \E sb \in {IF valid THEN msdos_read_super(OnDisk.boot) ELSE msdos_sb} :
       \E mounted \in {valid /\ bad \cap FatSectors(sb) = {}} :
            /\ msdos_sb' = sb
            /\ fat' = IF mounted THEN translate_fat(sb, OnDisk.fat) ELSE fat
            /\ GoOn(bad, fs_mount_result(mounted))

-----------------------------------------------------------------------------
(* The clusters of a chain, or <<>> if it leaves the FAT or does not end.  *)
Eof(index) ==
    LET mask == IF msdos_sb.fat_bits = 12 THEN 4088 ELSE 65528
    IN  index >= mask

InFat(index) == index - 2 \in 0 .. (msdos_sb.clusters - 1)

NextCluster == [index \in Nat |-> IF InFat(index) THEN fat[index] ELSE 0]

Chain(start) ==
    LET index[k \in 0 .. msdos_sb.clusters] ==
            IF k = 0 THEN start ELSE NextCluster[index[k - 1]]
        ends == { k \in 1 .. msdos_sb.clusters : Eof(index[k]) }
    IN  IF ends = {} \/ ~(\A k \in 0 .. (Min(ends) - 1) : InFat(index[k])) THEN <<>>
        ELSE [k \in 1 .. Min(ends) |-> index[k - 1]]

(* The sectors of the clusters, as shorts.                                 *)
SectorsOf_First(chain) ==
    LET cs == msdos_sb.cluster_size
    IN  [k \in 1 .. (cs * Len(chain)) |->
            Short((chain[((k - 1) \div cs) + 1] - 2) * cs + msdos_sb.data_start)]

SectorsOf(chain) ==
    LET cs == msdos_sb.cluster_size
    IN  [k \in 1 .. (cs * Len(chain)) |->
            Short((chain[((k - 1) \div cs) + 1] - 2) * cs + msdos_sb.data_start
                  + ((k - 1) % cs))]

(* The inode with its list; with clusters of several sectors the number of *)
(* blocks follows the size of the file, not the chain.                     *)
fill_block_list(slot, chain) ==
    [slot EXCEPT !.list = SectorsOf(chain),
                 !.blocks = IF msdos_sb.cluster_size > 1
                            THEN (slot.size + SECTOR_SIZE) \div SECTOR_SIZE
                            ELSE Len(chain)]

allocate_inode(table, entry) ==
    LET free == { s \in DOMAIN table : table[s].free }
    IN  IF free = {} THEN [table |-> table, slot |-> None]
        ELSE [table |-> [table EXCEPT ![Min(free)] =
                            [free |-> FALSE, name |-> entry.name, dir |-> entry.dir,
                             start |-> entry.start, size |-> entry.size,
                             list |-> <<>>, blocks |-> 0]],
              slot |-> Min(free)]

free_inode(table, slot) == [table EXCEPT ![slot].free = TRUE]

(* The root directory has no chain: its list is made of the sectors        *)
(* between the FATs and the data.                                          *)
msdos_build_root_inode(table) ==
    LET sb == msdos_sb
        size == sb.dir_entries * EntrySize
        r == allocate_inode(table,
                 [name |-> "", dir |-> TRUE, start |-> sb.dir_start, size |-> size])
        blocks == (size + SECTOR_SIZE - 1) \div SECTOR_SIZE
    IN  [r EXCEPT !.table[r.slot].list = [i \in 1 .. blocks |-> Short(sb.dir_start + i - 1)]]

(* A directory other than the root has size 0 on the disk: the size and    *)
(* the list come from its chain.  The entries are read in one go.          *)
SizedBy(slot, chain) ==
    fill_block_list([slot EXCEPT !.size =
        Len(chain) * SECTOR_SIZE * msdos_sb.cluster_size], chain)

Sized(slot) ==
    IF slot.size # 0 THEN {slot}
    ELSE { SizedBy(slot, chain) : chain \in {Chain(slot.start)} }

Sectors(slot) == 1 .. ((slot.size + SECTOR_SIZE - 1) \div SECTOR_SIZE)

Readable(slot, bad) ==
    /\ slot.dir /\ slot.size # 0 /\ NoMemory \notin bad
    /\ \A i \in Sectors(slot) : slot.list[i] >= 0 /\ slot.list[i] \notin bad

valid_entry_All(entry) == entry.use # "free"

valid_entry(entry) == entry.use = "file"    \* not deleted, free or a label

(* The valid entries of a directory; none if a sector of it fails.         *)
msdos_readdir(slot, bad) ==
    IF ~Readable(slot, bad) THEN <<>>
    ELSE SelectSeq(FlattenSeq([i \in Sectors(slot) |-> Sector(slot.list[i]).entries]),
                   valid_entry)

-----------------------------------------------------------------------------
(* A search takes the root's inode, then that of each component, and frees *)
(* the last one when it has the next.                                      *)
Opened(table, slot, bad) ==
    IF call.op = "ls"
    THEN msdos_table' = table /\ GoOn(bad, Found(call, slot))
    ELSE \E chain \in {IF NoMemory \in bad THEN <<>> ELSE Chain(table[slot].start)} :
            /\ msdos_table' = IF chain = <<>> THEN free_inode(table, slot)
                              ELSE [table EXCEPT ![slot] = fill_block_list(@, chain)]
            /\ GoOn(bad, Found(call, IF chain = <<>> THEN None ELSE slot))

msdos_open ==
    /\ At("open", "msdos")
    /\ \E bad \in Bad, r \in {msdos_build_root_inode(msdos_table)} :
            IF NoMemory \in bad
            THEN msdos_table' = r.table /\ GoOn(bad, Found(call, None))
            ELSE IF call.path.names = <<>> THEN Opened(r.table, r.slot, bad)
            ELSE /\ msdos_table' = r.table
                 /\ GoOn(bad, [call EXCEPT !.pc = "walk", !.names = call.path.names,
                                           !.file = r.slot])
    /\ UNCHANGED <<msdos_sb, fat>>

(* A directory whose entry has a size is refused, with its inode kept.     *)
Entered(table, entry, bad) ==
    \E r \in {allocate_inode(table, entry)} :
    \E t \in {free_inode(r.table, call.file)} :
        IF r.slot = None \/ (entry.dir /\ entry.size # 0)
        THEN msdos_table' = t /\ GoOn(bad, Found(call, None))
        ELSE IF Len(call.names) = 1 THEN Opened(t, r.slot, bad)
        ELSE msdos_table' = t /\ GoOn(bad, [call EXCEPT !.names = Tail(@), !.file = r.slot])

msdos_search_directory ==
    /\ At("walk", "msdos")
    /\ \E bad \in Bad, dir \in Sized(msdos_table[call.file]) :
       \E table \in {[msdos_table EXCEPT ![call.file] = dir]} :
       \E entries \in {msdos_readdir(dir, bad)} :
       \E hits \in {{ i \in DOMAIN entries : entries[i].name = Head(call.names) }} :
            IF hits = {}
            THEN /\ msdos_table' = free_inode(table, call.file)
                 /\ GoOn(bad, Found(call, None))
            ELSE Entered(table, entries[Min(hits)], bad)
    /\ UNCHANGED <<msdos_sb, fat>>

(* A listing prints the valid entries of a directory, or the entry of what *)
(* is none, then frees the inode.                                          *)
msdos_list_dir(slot) ==
    \E bad \in Bad, dir \in Sized(slot) : \E entries \in {msdos_readdir(dir, bad)} :
        GoOn(bad, [call EXCEPT !.pc = "close",
                               !.out = Names([i \in DOMAIN entries |-> entries[i].name])])

msdos_list_entry(slot) ==
    GoOn({}, [call EXCEPT !.pc = "close", !.out = Line(<<slot.name>>)])

msdos_ls ==
    /\ At("list", "msdos")
    /\ IF msdos_table[call.fd].dir THEN msdos_list_dir(msdos_table[call.fd])
       ELSE msdos_list_entry(msdos_table[call.fd])
    /\ msdos_table' = free_inode(msdos_table, call.fd)
    /\ UNCHANGED <<msdos_sb, fat>>

(* A block of 1 KB is two sectors.  Past the last one, and when the first  *)
(* sector fails, bread fails; a second sector that is missing or fails     *)
(* leaves that half of the buffer.  Past the end of the list the sector    *)
(* number is whatever memory holds (junk).                                 *)
SectorNo(slot, i, junk) == IF i < Len(slot.list) THEN slot.list[i + 1] ELSE junk

Unreadable(no, bad) == no < 0 \/ no \in bad

SecondHalf == IF call.out.kind = "sectors" THEN call.out.second ELSE Zeros

msdos_bread ==
    /\ At("read", "msdos")
    /\ \E bad \in Bad, junk \in {None, BootSector} :
       \E slot \in {msdos_table[call.fd]}, i \in {call.n * 2} :
       \E first \in {SectorNo(slot, i, junk)}, second \in {SectorNo(slot, i + 1, junk)} :
       \E half \in {i + 1 >= slot.blocks \/ Unreadable(second, bad)} :
            IF i >= slot.blocks \/ Unreadable(first, bad)
            THEN GoOn(bad, [call EXCEPT !.pc = "close"])
            ELSE GoOn(bad, [call EXCEPT !.n = @ + 1, !.out =
                    [kind |-> "sectors", first |-> Sector(first),
                     second |-> IF half THEN SecondHalf ELSE Sector(second)]])
    /\ UNCHANGED <<msdos_table, msdos_sb, fat>>

msdos_fdsize(fd) == msdos_table[fd].size

msdos_close ==
    /\ At("close", "msdos")
    /\ msdos_table' = free_inode(msdos_table, 0)
    /\ GoOn({}, Done(call))
    /\ UNCHANGED <<msdos_sb, fat>>

msdos_Next ==
    \/ msdos_mount \/ msdos_open \/ msdos_search_directory \/ msdos_ls
    \/ msdos_bread \/ msdos_close
===============================================================================
