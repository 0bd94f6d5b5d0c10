--------------------------------- MODULE Isofs --------------------------------
(***************************************************************************)
(* The ISO 9660 reader (fs/isofs.c): the volume descriptor, a table of     *)
(* five inodes, directory records that may straddle two blocks, the path   *)
(* search and the listing of a directory.  An inode number is the position *)
(* of a directory record on the disc.  Positions count in units of which   *)
(* ISO_BLOCK make a block of 1 KB and twice that a sector; addresses are   *)
(* those of blocks.                                                        *)
(***************************************************************************)
EXTENDS Disks, FiniteSetsExt, SequencesExt

CONSTANTS
    ISO_BLOCK,      \* units of a block
    HEADER,         \* units of a record up to its name
    CD_SIZE,        \* 700000000: no disc holds more
    CRUFT_SIZE      \* 2^24: what is left of the size on defective discs

VARIABLES
    iso_table,      \* slot -> [free, ino, dir, size, extent]
    iso_sb,         \* [zone, root, cruft]
    big             \* record that big_data_block holds

iso_vars == <<iso_table, iso_sb, big>>

FreeIso == [free |-> TRUE, ino |-> 0, dir |-> FALSE, size |-> 0, extent |-> 0]

EmptyIsoTable == [s \in 0 .. 4 |-> FreeIso]
NoVolume == [zone |-> ISO_BLOCK, root |-> 0, cruft |-> FALSE]

iso_Init ==
    /\ iso_table = EmptyIsoTable
    /\ iso_sb = NoVolume
    /\ big = None

iso_PowerOn ==
    /\ iso_table' = EmptyIsoTable
    /\ iso_sb' = NoVolume
    /\ big' = None

NoRecord == [len |-> 0, name |-> "", dir |-> FALSE, hidden |-> FALSE,
             extent |-> 0, size |-> 0, interleaved |-> FALSE]

Record(pos) == IF pos \in DOMAIN OnDisk.rec THEN OnDisk.rec[pos] ELSE NoRecord

-----------------------------------------------------------------------------
(* The volume descriptors are looked for from sector 16 on; the first one  *)
(* of a known standard decides.                                            *)
DescriptorAt(i) == 2 * (15 + i)

ReadSuper(bad) ==
    LET known == { i \in DOMAIN OnDisk.vd : OnDisk.vd[i].standard }
        vd == OnDisk.vd[Min(known)]
    IN  IF /\ OnDisk.type = "iso9660" /\ known # {}
           /\ \A i \in 1 .. Min(known) : DescriptorAt(i) \notin bad
           /\ vd.primary /\ vd.volumes = 1
           /\ vd.zone \in {ISO_BLOCK \div 2, ISO_BLOCK, 2 * ISO_BLOCK}
        THEN {[zone |-> vd.zone, root |-> vd.root * vd.zone, cruft |-> FALSE]}
        ELSE {}

(* All slots become free and both buffers are new at every mount.          *)
iso9660_mount ==
    /\ At("mount", "iso9660")
    /\ iso_table' = EmptyIsoTable
    /\ big' = None
    /\ \E bad \in Bad :
        LET super == IF NoMemory \in bad THEN {} ELSE ReadSuper(bad)
        IN  /\ iso_sb' = IF super # {} THEN CHOOSE s \in super : TRUE ELSE iso_sb
            /\ GoOn(bad, fs_mount_result(super # {}))

(* The record at ino.  How much is copied of the tail of one that          *)
(* straddles two blocks is anyone's guess, as the length is read from the  *)
(* block read over the first: the tail may be that of the record that      *)
(* big_data_block held.                                                    *)
RawInodes(ino, held) ==
    LET offset == ino % ISO_BLOCK
        straddles == offset + Record(ino).len > ISO_BLOCK
    IN  {Record(ino)} \cup (IF straddles /\ ISO_BLOCK - offset < HEADER
                            THEN {Record(held)} ELSE {})

InodeBlocks(ino) ==
    {ino \div ISO_BLOCK} \cup
    (IF (ino % ISO_BLOCK) + Record(ino).len > ISO_BLOCK THEN {(ino \div ISO_BLOCK) + 1} ELSE {})

(* A size no disc can have makes all sizes of this mount lose their high   *)
(* byte.                                                                   *)
Defective(r) == iso_sb.cruft \/ r.size > CD_SIZE

SizeOf(r) ==
    IF r.interleaved THEN 0 ELSE IF Defective(r) THEN r.size % CRUFT_SIZE ELSE r.size

InodeOf(ino, r) == [free |-> FALSE, ino |-> ino, dir |-> r.dir, size |-> SizeOf(r),
                    extent |-> r.extent * iso_sb.zone]

isofs_iget(table, ino, r, bad) ==
    LET free == { s \in DOMAIN table : table[s].free }
    IN  IF free = {} \/ InodeBlocks(ino) \cap bad # {}
        THEN [table |-> table, slot |-> None]
        ELSE [table |-> [table EXCEPT ![Min(free)] = InodeOf(ino, r)], slot |-> Min(free)]

NoteCruft(slot, r) == iso_sb' = [iso_sb EXCEPT !.cruft = @ \/ (slot # None /\ Defective(r))]

isofs_iput(table, slot) == [table EXCEPT ![slot].free = TRUE, ![slot].ino = 0]

isofs_bmap(inode, block) == inode.extent \div ISO_BLOCK + block

-----------------------------------------------------------------------------
(* Records of a directory, in the order of their positions.                *)
Records(dir) ==
    LET base == isofs_bmap(dir, 0) * ISO_BLOCK
    IN  { p \in DOMAIN OnDisk.rec : p \in base .. (base + dir.size - 1) }

(* Records whose end the reader follows into block b.                      *)
Into(dir, b) == { p \in Records(dir) : p < b * ISO_BLOCK /\ b * ISO_BLOCK <= p + Record(p).len }

isofs_match(name, r) ==
    IF r.name = "." THEN name \in {"", "."} ELSE r.name = name

(* What a search for a name comes to: a record, None if there is none or a *)
(* block cannot be read, or - when the second part of a record cannot be   *)
(* read - success with inode number 0.                                     *)
Hits(dir, name) ==
    { p \in Records(dir) : ~Record(p).hidden /\ isofs_match(name, Record(p)) }

Before(p, hits) == hits = {} \/ p <= Min(hits)

isofs_find_entry(dir, name, bad) ==
    LET hits == Hits(dir, name)
        first == isofs_bmap(dir, 0)
        cut == \E b \in bad : \E p \in Into(dir, b) : Before(p, hits)
        lost == \E b \in bad : /\ b > first /\ (b - first) % 2 = 0
                               /\ Into(dir, b) = {}
                               /\ Before(b * ISO_BLOCK, hits)
    IN  IF first = 0 \/ first \in bad \/ (~cut /\ (lost \/ hits = {})) THEN None
        ELSE IF cut THEN 0
        ELSE Min(hits)

(* The number of the inode: "." is the directory, ".." is only known at    *)
(* the root, since a search sets the back link of its result alone, not of *)
(* the directories it passes.                                              *)
InodeNumber(dir, p) ==
    IF Record(p).name = "." THEN dir.ino
    ELSE IF Record(p).name # ".." THEN p
    ELSE IF dir.ino = iso_sb.root THEN dir.ino ELSE None

(* The last record on the way to p that straddles two blocks is in         *)
(* big_data_block.                                                         *)
LastBig(dir, p) ==
    LET on == { q \in Records(dir) : (q % ISO_BLOCK) + Record(q).len >= ISO_BLOCK /\ q <= p }
    IN  IF on = {} THEN big ELSE Max(on)

(* A leading slash makes an empty first component, which is ".".           *)
Components ==
    (IF call.path.abs /\ call.op # "ls" THEN <<"">> ELSE <<>>) \o
    (IF call.path.names = <<>> THEN <<"">> ELSE call.path.names)

(* The root must be a directory; of those on the way nobody asks.          *)
iso9660_open ==
    /\ At("open", "iso9660")
    /\ \E bad \in Bad : \E raw \in RawInodes(iso_sb.root, big) :
       \E r \in {isofs_iget(iso_table, iso_sb.root, raw, bad)} :
            /\ NoteCruft(r.slot, raw)
            /\ iso_table' = IF r.slot # None /\ ~raw.dir THEN isofs_iput(r.table, r.slot)
                            ELSE r.table
            /\ GoOn(bad, IF r.slot = None \/ ~raw.dir THEN Found(call, None)
                         ELSE [call EXCEPT !.pc = "walk", !.names = Components, !.file = r.slot])
    /\ UNCHANGED big

(* A directory in the middle is put before the next inode is read, and     *)
(* kept if the search in it fails; the last one is put in any case.        *)
Middle(ino, raw, bad) ==
    \E r \in {isofs_iget(isofs_iput(iso_table, call.file), ino, raw, bad)} :
        /\ iso_table' = r.table /\ NoteCruft(r.slot, raw)
        /\ GoOn(bad, IF r.slot = None THEN Found(call, None)
                     ELSE [call EXCEPT !.names = Tail(@), !.file = r.slot])

LastOne(ino, raw, bad) ==
    \E r \in {isofs_iget(iso_table, ino, raw, bad)} :
        /\ iso_table' = isofs_iput(r.table, call.file) /\ NoteCruft(r.slot, raw)
        /\ GoOn(bad, Found(call, r.slot))

LookupFails(bad) ==
    /\ iso_table' = IF Len(call.names) = 1 THEN isofs_iput(iso_table, call.file) ELSE iso_table
    /\ GoOn(bad, Found(call, None))
    /\ UNCHANGED iso_sb

isofs_lookup ==
    /\ At("walk", "iso9660")
    /\ \E bad \in Bad, dir \in {iso_table[call.file]} :
       \E p \in {isofs_find_entry(dir, Head(call.names), bad)} :
       \E ino \in {IF p \in {None, 0} THEN p ELSE InodeNumber(dir, p)} :
       \E held \in {IF p \in {None, 0} THEN big ELSE LastBig(dir, p)} :
            /\ big' = held
            /\ IF ino = None THEN LookupFails(bad)
               ELSE \E raw \in RawInodes(ino, held) :
                        IF Len(call.names) = 1 THEN LastOne(ino, raw, bad)
                        ELSE Middle(ino, raw, bad)

(* A listing prints the records that are not hidden.  A block that cannot  *)
(* be read ends it, unless a record leads into that block: then it is not  *)
(* noticed, and what the old block has there is printed ("?").  What is no *)
(* directory is listed as it was typed.  The inode is not put.             *)
Shown(dir, bad) ==
    { p \in Records(dir) : /\ ~Record(p).hidden
                           /\ \A b \in bad : b >= isofs_bmap(dir, 0)
                                             => p + Record(p).len < b * ISO_BLOCK }

StaleNames(dir, bad) ==
    IF isofs_bmap(dir, 0) \notin bad /\ \E b \in bad : Into(dir, b) # {} THEN <<"?">> ELSE <<>>

Listing(order) == [i \in DOMAIN order |-> Record(order[i]).name]

isofs_list_entry(dir) ==
    \E bad \in Bad : \E order \in {SetToSortSeq(Shown(dir, bad), <)} :
        GoOn(bad, [call EXCEPT !.pc = "close", !.out =
            IF isofs_bmap(dir, 0) # 0
            THEN Names(Listing(order) \o StaleNames(dir, bad)) ELSE @])

iso9660_ls ==
    /\ At("list", "iso9660")
    /\ IF iso_table[call.fd].dir THEN isofs_list_entry(iso_table[call.fd])
       ELSE GoOn({}, [call EXCEPT !.pc = "close", !.out = Line(call.path.names)])
    /\ UNCHANGED iso_vars

DataBlock(b) == IF b \in DOMAIN OnDisk.block THEN OnDisk.block[b] ELSE Zeros

(* bread does not look at the size of the file.                            *)
iso9660_bread ==
    /\ At("read", "iso9660")
    /\ \E bad \in Bad :
        LET inode == iso_table[call.fd]
            block == isofs_bmap(inode, call.n)
        IN  IF inode.extent = 0 \/ block = 0 \/ block \in bad \/ block \notin OnDisk.addr
            THEN GoOn(bad, [call EXCEPT !.pc = "close"])
            ELSE GoOn(bad, [call EXCEPT !.n = @ + 1, !.out = DataBlock(block)])
    /\ UNCHANGED iso_vars

iso9660_fdsize(fd) == iso_table[fd].size

(* Closing keeps the inode: the next mount takes it back.                  *)
iso9660_close ==
    /\ At("close", "iso9660")
    /\ GoOn({}, Done(call))
    /\ UNCHANGED iso_vars

iso_Next ==
    \/ iso9660_mount \/ iso9660_open \/ isofs_lookup \/ iso9660_ls
    \/ iso9660_bread \/ iso9660_close
===============================================================================
