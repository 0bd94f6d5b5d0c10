--------------------------------- MODULE Ext2 ---------------------------------
(***************************************************************************)
(* The ext2 reader (fs/ext2.c): a table of four inodes, the map from the   *)
(* blocks of a file to blocks of the disk over one cached indirect and one *)
(* cached double indirect block, the path search with symbolic links, and  *)
(* the listing of a directory.  Blocks are of 1 KB, the only size whose    *)
(* blocks the callers of bread take whole.  Nothing resets the caches: not *)
(* a mount, and not a read that fails.                                     *)
(***************************************************************************)
EXTENDS Disks, FiniteSetsExt, SequencesExt

CONSTANTS
    EXT2_NDIR_BLOCKS,   \* direct blocks of an inode
    ptrs_per_blk        \* pointers in an indirect block

ASSUME Ext2Assumption == EXT2_NDIR_BLOCKS \in Nat /\ ptrs_per_blk \in Nat \ {0}

MAX_OPEN_FILES == 4
EXT2_ROOT_INO == 2
SuperBlock == 1
GroupBlock == 2

(* Numbers of the pointers to the indirect blocks in i_block, and the last *)
(* block of a file each kind of pointer is used for.                       *)
EXT2_IND_BLOCK == EXT2_NDIR_BLOCKS
EXT2_DIND_BLOCK == EXT2_NDIR_BLOCKS + 1
directlim == EXT2_NDIR_BLOCKS - 1
ind1lim == ptrs_per_blk + directlim
ind2lim == ptrs_per_blk * ptrs_per_blk + directlim

VARIABLES
    inode_table,    \* slot -> [free, inode]
    gds,            \* inodes per group and inode table of each group
    icache,         \* cached_iblkno and iblkbuf
    dicache,        \* cached_diblkno and diblkbuf
    blkbuf          \* the last directory or link block read

ext2_vars == <<inode_table, gds, icache, dicache, blkbuf>>

(* A block holds directory entries, pointers, the text of a link or data.  *)
NoInode == [mode |-> "none", size |-> 0, slow |-> FALSE,
            block |-> [i \in 0 .. EXT2_DIND_BLOCK |-> 0],
            link |-> [abs |-> FALSE, names |-> <<>>]]

Block(b) == IF b \in DOMAIN OnDisk.block THEN OnDisk.block[b] ELSE Zeros

EmptyTable == [s \in 0 .. (MAX_OPEN_FILES - 1) |-> [free |-> TRUE, inode |-> NoInode]]
NoCache == [no |-> -1, buf |-> Zeros]

ext2_Init ==
    /\ inode_table = EmptyTable
    /\ gds = [per |-> 1, table |-> <<>>]
    /\ icache = NoCache
    /\ dicache = NoCache
    /\ blkbuf = Zeros

ext2_PowerOn ==
    /\ inode_table' = EmptyTable
    /\ gds' = [per |-> 1, table |-> <<>>]
    /\ icache' = NoCache
    /\ dicache' = NoCache
    /\ blkbuf' = Zeros

-----------------------------------------------------------------------------
(* All slots become free; what a free slot holds is never looked at.  The  *)
(* superblock and the group descriptors are read; the groups are allocated *)
(* in between.                                                             *)
ext2_mount ==
    /\ At("mount", "ext2")
    /\ inode_table' = EmptyTable
    /\ \E bad \in Bad :
        LET mounted == /\ SuperBlock \notin bad
                       /\ OnDisk.type = "ext2"          \* EXT2_SUPER_MAGIC
                       /\ {NoMemory, GroupBlock} \cap bad = {}
        IN  /\ gds' = IF mounted THEN OnDisk.groups ELSE gds
            /\ GoOn(bad, fs_mount_result(mounted))
    /\ UNCHANGED <<icache, dicache, blkbuf>>

(* The inode table holds per inodes of each group, in a block of its own.  *)
(* A number past the last group takes the reader off the disk.             *)
InodeBlock_Off(ino) ==
    LET group == ino \div gds.per
    IN  IF group \in 0 .. (Len(gds.table) - 1) THEN gds.table[group + 1] ELSE 0

InodeBlock(ino) ==
    LET group == (ino - 1) \div gds.per
    IN  IF group \in 0 .. (Len(gds.table) - 1) THEN gds.table[group + 1] ELSE 0

InodeAt(ino) ==
    LET b == Block(InodeBlock(ino))
        i == ((ino - 1) % gds.per) + 1
    IN  IF b.kind = "inodes" THEN b.inodes[i] ELSE NoInode

ext2_iget(table, ino, bad) ==
    LET free == { s \in DOMAIN table : table[s].free }
    IN  IF free = {} \/ InodeBlock(ino) \in bad
        THEN [table |-> table, slot |-> None]
        ELSE [table |-> [table EXCEPT ![Min(free)] =
                            [free |-> FALSE, inode |-> InodeAt(ino)]],
              slot |-> Min(free)]

ext2_iput(table, slot) ==
    IF slot = None THEN table ELSE [table EXCEPT ![slot].free = TRUE]

-----------------------------------------------------------------------------
(* An indirect block through its cache: the number is only taken once the  *)
(* read has succeeded.                                                     *)
Cached_Early(cache, no, bad) ==
    IF cache.no = no THEN [cache |-> cache, ok |-> TRUE]
    ELSE IF no \in bad THEN [cache |-> [cache EXCEPT !.no = no], ok |-> FALSE]
    ELSE [cache |-> [no |-> no, buf |-> Block(no)], ok |-> TRUE]

Cached(cache, no, bad) ==
    IF cache.no = no THEN [cache |-> cache, ok |-> TRUE]
    ELSE IF no \in bad THEN [cache |-> cache, ok |-> FALSE]
    ELSE [cache |-> [no |-> no, buf |-> Block(no)], ok |-> TRUE]

Pointer(buf, i) == IF buf.kind = "pointers" THEN buf.pointers[i + 1] ELSE 0

(* Block i of the indirect block no, through the cache; 0 stands for a     *)
(* hole, and for a read that failed.                                       *)
TakePointer(m, r, i) ==
    [m EXCEPT !.icache = r.cache, !.blkno = IF r.ok THEN Pointer(r.cache.buf, i) ELSE 0]

ThroughIndirect(m, no, i, bad) ==
    IF no = 0 THEN [m EXCEPT !.blkno = 0]
    ELSE TakePointer(m, Cached(m.icache, no, bad), i)

SecondLevel(m, r, i, bad) ==
    IF r.ok
    THEN ThroughIndirect([m EXCEPT !.dicache = r.cache],
                         Pointer(r.cache.buf, i \div ptrs_per_blk), i % ptrs_per_blk, bad)
    ELSE [m EXCEPT !.dicache = r.cache, !.blkno = 0]

ThroughDouble(m, no, i, bad) ==
    IF no = 0 THEN [m EXCEPT !.blkno = 0]
    ELSE SecondLevel(m, Cached(m.dicache, no, bad), i, bad)

(* m holds the caches; the block of the disk that block off of the inode   *)
(* is in becomes m.blkno.                                                  *)
ext2_blkno(m, ip, off, bad) ==
    IF off <= directlim THEN [m EXCEPT !.blkno = ip.block[off]]
    ELSE IF off <= ind1lim
    THEN ThroughIndirect(m, ip.block[EXT2_IND_BLOCK], off - (directlim + 1), bad)
    ELSE IF off <= ind2lim
    THEN ThroughDouble(m, ip.block[EXT2_DIND_BLOCK], off - (ind1lim + 1), bad)
    ELSE [m EXCEPT !.blkno = 0]

(* The block goes to m.buf; a read that fails leaves the buffer alone and  *)
(* is not reported.                                                        *)
Fetched(m, bad) ==
    IF m.blkno = 0 THEN [m EXCEPT !.buf = Zeros]
    ELSE IF m.blkno \in bad THEN m
    ELSE [m EXCEPT !.buf = Block(m.blkno)]

ext2_breadi(m, ip, off, bad) == Fetched(ext2_blkno(m, ip, off, bad), bad)

(* What a call works on: the caches, a buffer and a block number.          *)
Buffers(buf) == [icache |-> icache, dicache |-> dicache, blkno |-> 0, buf |-> buf]

KeepCaches(m) == icache' = m.icache /\ dicache' = m.dicache

(* bread gives the caller's buffer the block and returns 0 whatever        *)
(* happened.                                                               *)
ext2_bread ==
    /\ At("read", "ext2")
    /\ \E bad \in Bad :
       \E m \in {ext2_breadi(Buffers(call.out), inode_table[call.fd].inode, call.n, bad)} :
            /\ KeepCaches(m)
            /\ GoOn(bad, [call EXCEPT !.out = m.buf, !.n = @ + 1])
    /\ UNCHANGED <<inode_table, gds, blkbuf>>

ext2_fdsize(fd) == inode_table[fd].inode.size

-----------------------------------------------------------------------------
(* The path search (ext2_namei).  call.names are the components to come,   *)
(* call.dir and call.file the slots of dir_inode and file_inode.  After a  *)
(* symbolic link dir_inode keeps its value although its slot is given back *)
(* (an absolute link) or is file_inode's as well (a relative one).         *)
Searching == At("walk", "ext2")

FileInode == inode_table[call.file].inode

(* The text of a link, found in a block; in a block of another kind it is  *)
(* a name that no directory has.                                           *)
LinkText(buf) ==
    IF buf.kind = "link" THEN buf.link
    ELSE [abs |-> FALSE, names |-> IF buf = Zeros THEN <<>> ELSE <<"?">>]

(* The search starts over at the root, or goes on from the directory; it   *)
(* fails if there is none.                                                 *)
AtRoot(c, r, bad) ==
    /\ inode_table' = r.table
    /\ GoOn(bad, IF r.slot = None THEN Found(c, None)
                 ELSE [c EXCEPT !.pc = "walk", !.file = r.slot])

FromRoot(c, table, bad) == AtRoot(c, ext2_iget(table, EXT2_ROOT_INO, bad), bad)

FromDir(c, table, bad) ==
    /\ inode_table' = table
    /\ GoOn(bad, IF c.dir = None THEN Found(c, None) ELSE [c EXCEPT !.file = c.dir])

ext2_open ==
    /\ At("open", "ext2")
    /\ \E bad \in Bad :
        FromRoot([call EXCEPT !.names = call.path.names, !.dir = None, !.links = 0],
                 inode_table, bad)
    /\ UNCHANGED <<gds, icache, dicache, blkbuf>>

(* A link in the middle of the path: its text takes its place.             *)
ReplaceInside(text, bad) ==
    IF text.abs
    THEN FromRoot([call EXCEPT !.links = @ + 1, !.names = text.names \o @],
                  ext2_iput(ext2_iput(inode_table, call.dir), call.file), bad)
    ELSE FromDir([call EXCEPT !.links = @ + 1, !.names = text.names \o @],
                 ext2_iput(inode_table, call.file), bad)

LinkInside == /\ Searching /\ call.file # None /\ call.names # <<>>
              /\ FileInode.mode = "link" /\ call.links < 10

FollowInside ==
    /\ LinkInside /\ ~FileInode.slow
    /\ ReplaceInside(FileInode.link, {})
    /\ blkbuf' = [kind |-> "link", link |-> FileInode.link]
    /\ UNCHANGED <<gds, icache, dicache>>

(* The text of a link that is too long for the inode is in a block.        *)
FollowSlowInside ==
    /\ LinkInside /\ FileInode.slow
    /\ \E bad \in Bad : \E m \in {ext2_breadi(Buffers(blkbuf), FileInode, 0, bad)} :
        /\ KeepCaches(m) /\ blkbuf' = m.buf
        /\ ReplaceInside(LinkText(m.buf), bad)
    /\ UNCHANGED gds

(* A link at the end of the path: its text is the path.  The text of one   *)
(* in a block is looked for in the directory instead of the link.          *)
ReplaceLast(text, bad) ==
    IF text.abs
    THEN FromRoot([call EXCEPT !.links = @ + 1, !.names = text.names],
                  ext2_iput(ext2_iput(inode_table, call.file), call.dir), bad)
    ELSE FromDir([call EXCEPT !.links = @ + 1, !.names = text.names],
                 ext2_iput(inode_table, call.file), bad)

LinkLast == /\ Searching /\ call.file # None /\ call.names = <<>>
            /\ FileInode.mode = "link" /\ call.links < 5

FollowLast ==
    /\ LinkLast /\ ~FileInode.slow
    /\ ReplaceLast(FileInode.link, {})
    /\ UNCHANGED <<gds, icache, dicache, blkbuf>>

FollowSlowLast ==
    /\ LinkLast /\ FileInode.slow
    /\ \E bad \in Bad :
       \E m \in {ext2_breadi(Buffers(blkbuf), inode_table[call.dir].inode, 0, bad)} :
        /\ KeepCaches(m) /\ blkbuf' = m.buf
        /\ ReplaceLast(LinkText(m.buf), bad)
    /\ UNCHANGED gds

(* All components are found: the directory is put, the file is the result. *)
SearchEnds ==
    /\ Searching /\ call.file # None /\ call.names = <<>> /\ ~LinkLast
    /\ inode_table' = ext2_iput(inode_table, call.dir)
    /\ GoOn({}, Found(call, call.file))
    /\ UNCHANGED <<gds, icache, dicache, blkbuf>>

(* The next component is looked for in what the last one was.              *)
EnterDirectory ==
    /\ Searching /\ call.file # None /\ call.names # <<>> /\ ~LinkInside
    /\ LET table == ext2_iput(inode_table, call.dir)
       IN  IF FileInode.mode = "dir"
           THEN /\ inode_table' = table
                /\ GoOn({}, [call EXCEPT !.dir = call.file, !.file = None, !.n = 0])
           ELSE /\ inode_table' = ext2_iput(table, call.file)
                /\ GoOn({}, Found(call, None))
    /\ UNCHANGED <<gds, icache, dicache, blkbuf>>

InDirectory == Searching /\ call.file = None

Entries(buf) == IF buf.kind = "dir" THEN buf.entries ELSE <<>>

(* A block of zeros has entries of length zero: no loop over the entries   *)
(* gets past it.  Other blocks that are no directory may do the same.      *)
Endless(buf, stuck) == buf.kind # "dir" /\ (stuck \/ buf = Zeros)

(* The inode of the entry; if it cannot be read and is not the last, NULL  *)
(* is dereferenced.                                                        *)
NextInode(r, bad) ==
    LET c == [call EXCEPT !.file = r.slot, !.names = Tail(@), !.n = 0]
    IN  IF r.slot # None THEN inode_table' = r.table /\ GoOn(bad, c)
        ELSE IF Len(call.names) > 1
        THEN inode_table' = r.table /\ GoOn(bad, [Idle EXCEPT !.pc = "crashed"])
        ELSE inode_table' = ext2_iput(r.table, call.dir) /\ GoOn(bad, Found(call, None))

SearchBlock_Stays(buf, hit, stuck, bad) ==
    IF hit # 0
    THEN NextInode(ext2_iget(inode_table, buf.entries[hit].ino, bad), bad)
    ELSE inode_table' = inode_table /\ GoOn(bad, call)

SearchBlock(buf, hit, stuck, bad) ==
    IF hit # 0
    THEN NextInode(ext2_iget(inode_table, buf.entries[hit].ino, bad), bad)
    ELSE /\ inode_table' = inode_table
         /\ GoOn(bad, IF Endless(buf, stuck) THEN [Idle EXCEPT !.pc = "hung"]
                      ELSE [call EXCEPT !.n = @ + 1])

SearchDirectory ==
    /\ InDirectory /\ call.n < inode_table[call.dir].inode.size
    /\ \E bad \in Bad, stuck \in BOOLEAN :
       \E m \in {ext2_breadi(Buffers(blkbuf), inode_table[call.dir].inode, call.n, bad)} :
        /\ KeepCaches(m) /\ blkbuf' = m.buf
        /\ SearchBlock(m.buf,
                SelectInSeq(Entries(m.buf), LAMBDA e : e.name = Head(call.names)), stuck, bad)
    /\ UNCHANGED gds

NotInDirectory ==
    /\ InDirectory /\ call.n >= inode_table[call.dir].inode.size
    /\ inode_table' = ext2_iput(inode_table, call.dir)
    /\ GoOn({}, Found(call, None))
    /\ UNCHANGED <<gds, icache, dicache, blkbuf>>

-----------------------------------------------------------------------------
(* A listing reads the blocks of the directory twice; in the second pass   *)
(* it gets and puts the inode of every entry, always in the same free slot *)
(* - which is the directory's own if a link led to it.  What is no         *)
(* directory is listed as it was typed, a link in the path or not.         *)
EntryNames(buf) == [i \in DOMAIN Entries(buf) |-> Entries(buf)[i].name]

GotAndPut(table, free, got, entries) ==
    IF free = {} \/ got = {} THEN table
    ELSE [table EXCEPT ![Min(free)].inode = InodeAt(entries[Max(got)].ino)]

ListInodes(entries, bad) ==
    GotAndPut(inode_table, { s \in DOMAIN inode_table : inode_table[s].free },
              { i \in DOMAIN entries : InodeBlock(entries[i].ino) \notin bad }, entries)

Listed(slot) == inode_table[slot].inode

NoDirectory == call.n = 0 /\ Listed(call.fd).mode # "dir"

ext2_ls_block ==
    /\ At("list", "ext2")
    /\ call.n < Listed(call.fd).size /\ ~NoDirectory
    /\ \E bad \in Bad, stuck \in BOOLEAN :
       \E m \in {ext2_breadi(Buffers(blkbuf), Listed(call.fd), call.n, bad)} :
        /\ KeepCaches(m) /\ blkbuf' = m.buf
        /\ inode_table' = ListInodes(Entries(m.buf), bad)
        /\ GoOn(bad, IF Endless(m.buf, stuck) THEN [Idle EXCEPT !.pc = "hung"]
                     ELSE [call EXCEPT !.n = @ + 1,
                                       !.out = Names(@.names \o EntryNames(m.buf))])
    /\ UNCHANGED gds

ext2_ls_ends ==
    /\ At("list", "ext2")
    /\ call.n >= Listed(call.fd).size \/ NoDirectory
    /\ inode_table' = ext2_iput(inode_table, call.fd)
    /\ GoOn({}, [call EXCEPT !.pc = "close",
                             !.out = IF NoDirectory THEN Line(call.path.names) ELSE @])
    /\ UNCHANGED <<gds, icache, dicache, blkbuf>>

(* The callers give close the result of the mount, 0, not the descriptor.  *)
ext2_close ==
    /\ At("close", "ext2")
    /\ inode_table' = ext2_iput(inode_table, 0)
    /\ GoOn({}, Done(call))
    /\ UNCHANGED <<gds, icache, dicache, blkbuf>>

ext2_Next ==
    \/ ext2_mount \/ ext2_open \/ EnterDirectory \/ SearchDirectory \/ NotInDirectory
    \/ FollowInside \/ FollowSlowInside \/ FollowLast \/ FollowSlowLast \/ SearchEnds
    \/ ext2_bread \/ ext2_ls_block \/ ext2_ls_ends \/ ext2_close
===============================================================================
