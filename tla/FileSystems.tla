------------------------------ MODULE FileSystems -----------------------------
(***************************************************************************)
(* The file system switch (fs/fs.c) over its three readers, and the        *)
(* commands that use it: ls, cd, the loading of an image or of a ramdisk,  *)
(* and the reading of the configuration file.  Each command names a device *)
(* and mounts it; the state the readers keep stays from one command to the *)
(* next, whatever disk that one is about.                                  *)
(***************************************************************************)
EXTENDS Ext2, Msdos, Isofs

CONSTANTS
    FsNames,        \* file systems users name, "any" among them
    MaxBlocks,      \* blocks an image may have (MAX_KERNEL_SIZE)
    Truth           \* disk -> path -> [kind, data]: what is on the disks

files_vars == <<call, faults, ext2_vars, msdos_vars, iso_vars>>

files_Init ==
    /\ call = Idle /\ faults = 0
    /\ ext2_Init /\ msdos_Init /\ iso_Init

-----------------------------------------------------------------------------
(* A command with the file system named by the user (fs) or with none: the *)
(* device is opened, and the first file system tried.                      *)
Begin(op, d, p, fs) ==
    /\ call.pc = "idle"
    /\ call' = [Idle EXCEPT !.pc = "mount", !.op = op, !.disk = d, !.path = p,
                            !.auto = (fs = "any"),
                            !.fs = IF fs = "any" THEN "ext2" ELSE fs]
    /\ UNCHANGED <<faults, ext2_vars, msdos_vars, iso_vars>>


(* The paths asked for are those Truth tells of.                           *)
ls_cmd == \E d \in Disk, fs \in FsNames : \E p \in DOMAIN Truth[d] : Begin("ls", d, p, fs)

chdir == \E d \in Disk : \E p \in DOMAIN Truth[d] : Begin("chdir", d, p, "any")

chdev == \E d \in Disk : Begin("chdev", d, Idle.path, "any")

load_image_from_device ==
    \E d \in Disk, fs \in FsNames : \E p \in DOMAIN Truth[d] : Begin("load", d, p, fs)

boot_via_config == \E d \in Disk : Begin("config", d, ConfigPath, "any")

fdsize ==
    IF call.fs = "ext2" THEN ext2_fdsize(call.fd)
    ELSE IF call.fs = "msdos" THEN msdos_fdsize(call.fd)
    ELSE iso9660_fdsize(call.fd)

(* Blocks of 1 KB that a file of this size has, in the units of its reader.*)
SizeInBlocks(fs, size) ==
    IF fs = "ext2" THEN size
    ELSE IF fs = "msdos" THEN (size + 2 * SECTOR_SIZE - 1) \div (2 * SECTOR_SIZE)
    ELSE (size + ISO_BLOCK - 1) \div ISO_BLOCK

(* The callers read until bread fails; the loader of an image also stops   *)
(* at the largest size, that of the configuration file at its end.         *)
Enough ==
    /\ call.pc = "read"
    /\ call.n >= (IF call.op = "config" THEN Max({1, SizeInBlocks(call.fs, fdsize)})
                  ELSE MaxBlocks)

ReadOn == call.pc = "read" => ~Enough

StopReading ==
    /\ Enough
    /\ call' = [call EXCEPT !.pc = "close"]
    /\ UNCHANGED <<faults, ext2_vars, msdos_vars, iso_vars>>

Ext2Step == ReadOn /\ ext2_Next /\ UNCHANGED <<msdos_vars, iso_vars>>

MsdosStep == ReadOn /\ msdos_Next /\ UNCHANGED <<ext2_vars, iso_vars>>

IsoStep == ReadOn /\ iso_Next /\ UNCHANGED <<ext2_vars, msdos_vars>>

(* A machine that hangs or crashes is switched off and on.                 *)
PowerCycle ==
    /\ call.pc \in {"hung", "crashed"}
    /\ call' = Idle /\ UNCHANGED faults
    /\ ext2_PowerOn /\ msdos_PowerOn /\ iso_PowerOn

Command == ls_cmd \/ chdir \/ chdev \/ load_image_from_device \/ boot_via_config

Working == Ext2Step \/ MsdosStep \/ IsoStep \/ StopReading

files_Next == Command \/ Working \/ PowerCycle

(* The code goes on by itself; that a read fails is never due.             *)
files_Spec ==
    /\ files_Init /\ [][files_Next]_files_vars
    /\ WF_files_vars(Working /\ faults' = faults)
-----------------------------------------------------------------------------
files_TypeOK ==
    /\ call.pc \in {"idle", "mount", "open", "walk", "list", "read", "close", "hung", "crashed"}
    /\ faults \in 0 .. MaxFaults
    /\ call.fd \in DOMAIN inode_table \cup DOMAIN msdos_table \cup {None}

(* What the disk holds under the path of the command.                      *)
Real == IF call.path \in DOMAIN Truth[call.disk] THEN Truth[call.disk][call.path]
        ELSE [kind |-> "none", size |-> 0, data |-> <<>>, names |-> <<>>]

(* The root directory of an MS-DOS disk has no chain, yet open follows one *)
(* from the number of its first sector.                                    *)
NoChain == call.fs = "msdos" /\ call.path.names = <<>> /\ call.op # "ls"

(* A file whose chain of clusters is broken can be named but not opened; a *)
(* link that does not fit in its inode is never found at the end of a path.*)
There == Real.kind \notin {"none", "longlink"} /\ (Real.kind = "broken" => call.op = "ls")

(* A path search during which no read failed finds a file exactly if the   *)
(* disk has it, and its inode has the file's size: through links, over     *)
(* directories of several blocks, with inodes in any group, and however    *)
(* many commands went before (namei, msdos_find, isofs_lookup).  A search  *)
(* that runs out of inode slots would break it as well.                    *)
LookupsExact ==
    [][/\ call.pc \in {"open", "walk"} /\ call'.pc \notin {"walk", "hung", "crashed"}
       /\ call'.clean /\ ~NoChain
       => /\ (call'.fd # None) <=> There
          /\ call'.pc = "read" => fdsize' = Real.size]_files_vars

(* The caches of indirect blocks hold what the disk in use holds.          *)
CachesTrue ==
    /\ icache.no # -1 => icache.buf = Block(icache.no)
    /\ dicache.no # -1 => dicache.buf = Block(dicache.no)

(* No step of a command on a disk makes the caches tell lies about it, not *)
(* even one whose reads fail: only another disk can (ext2_blkno).          *)
CachesHonest ==
    [][call.disk \in Disk /\ CachesTrue /\ call'.disk = call.disk => CachesTrue']_files_vars

(* What bread must deliver as block n of the file.                         *)
IsBlock(got, content, n) ==
    IF call.fs # "msdos" THEN got = content[n + 1]
    ELSE /\ got.first = content[2 * n + 1]
         /\ 2 * n + 2 <= Len(content) => got.second = content[2 * n + 2]

(* Every block delivered by a bread that succeeded, in a command in which  *)
(* nothing failed, is that block of that file: over direct, indirect and   *)
(* double indirect blocks, FAT chains and extents.  Blocks past ind2lim    *)
(* are left out, and so are cached indirect blocks of another disk.        *)
FilesExact ==
    [][/\ call.pc = "read" /\ call'.pc = "read" /\ call'.clean
       /\ Real.kind = "file" /\ call.n < SizeInBlocks(call.fs, Real.size)
       /\ call.fs = "ext2" => CachesTrue /\ call.n <= ind2lim
       => IsBlock(call'.out, Real.data, call.n)]_files_vars

(* ls prints the names of a directory, each once and in order, unless a    *)
(* read failed or a link was followed; of a file, with links in the path   *)
(* or without, it prints one line that ends in the file's name (ext2_ls,   *)
(* msdos_ls, iso9660_ls).                                                  *)
ListsExact ==
    [][/\ call.pc = "list" /\ call'.pc = "close" /\ call'.clean
       => IF Real.kind = "dir"
          THEN call.links = 0 => call'.out = Names(Real.names)
          ELSE call'.out.kind = "line" /\ Last(call'.out.names) = Last(call.path.names)
      ]_files_vars

(* Every command comes back to the prompt, also after reads that failed,   *)
(* unless such a read made it hang or crash: links that lead to each other *)
(* end, and no search or listing gets stuck (ext2_namei, ext2_ls,          *)
(* fill_block_list, isofs_find_entry).                                     *)
CommandsReturn ==
    call.pc # "idle" ~> (call.pc = "idle" \/ (call.pc \in {"hung", "crashed"} /\ faults > 0))
===============================================================================
