----------------------------- MODULE MCFileSystems ----------------------------
(* Six disks.  Two ext2 disks have a block 12 of pointers each, with other *)
(* contents; one MS-DOS disk has a FAT of 12 bits, the other, with sectors *)
(* of twice the size, one of 16 bits and a file beyond SHRT_MAX; the ISO   *)
(* disc has records that straddle or fill their blocks and one of a size   *)
(* no disc can have; the last disk holds no file system.                   *)
EXTENDS FileSystems, TLC

MC_Disk == {"unix", "other", "dos12", "dos16", "cd", "blank"}

P(names) == [abs |-> TRUE, names |-> names]
Rel(names) == [abs |-> FALSE, names |-> names]

Data(t) == [kind |-> "data", data |-> t]
Pointers(s) == [kind |-> "pointers", pointers |-> s]
Inodes(s) == [kind |-> "inodes", inodes |-> s]
DirOf(s) == [kind |-> "dir", entries |-> s]
E(name, ino) == [name |-> name, ino |-> ino]

Inode(mode, size, block, link) ==
    [mode |-> mode, size |-> size, slow |-> FALSE, link |-> link,
     block |-> [i \in 0 .. EXT2_DIND_BLOCK |-> block[i + 1]]]
Dir(b0, b1, size) == Inode("dir", size, <<b0, b1, 0, 0>>, P(<<>>))
File(size, block) == Inode("file", size, block, P(<<>>))
Link(path) == Inode("link", 0, <<0, 0, 0, 0>>, path)
SlowLink(b) == [Inode("link", 0, <<b, 0, 0, 0>>, P(<<>>)) EXCEPT !.slow = TRUE]

Blank == [type |-> "none", addr |-> 0 .. 2, block |-> [a \in {} |-> Zeros]]

Unix ==
    [type |-> "ext2", groups |-> [per |-> 5, table |-> <<3, 4>>], addr |-> 1 .. 25,
     block |-> 
        (3 :> Inodes(<<NoInode, Dir(5, 6, 2), File(6, <<10, 11, 12, 14>>), Dir(20, 0, 1), Link(P(<<"d", "f">>))>>)) @@
        (4 :> Inodes(<<Link(Rel(<<"d">>)), File(4, <<21, 22, 23, 0>>), SlowLink(25), Link(Rel(<<"c">>)), File(1, <<24, 0, 0, 0>>)>>)) @@
        (5 :> DirOf(<<E(".", 2), E("k", 3)>>)) @@
        (6 :> DirOf(<<E("d", 4), E("l", 5), E("m", 6), E("s", 8), E("c", 9), E("milo.cfg", 10)>>)) @@
        (20 :> DirOf(<<E(".", 4), E("f", 7)>>)) @@
        (12 :> Pointers(<<13, 0>>)) @@
        (14 :> Pointers(<<15, 0>>)) @@
        (15 :> Pointers(<<16, 17>>)) @@
        (23 :> Pointers(<<18, 19>>)) @@
        (25 :> [kind |-> "link", link |-> P(<<"d">>)]) @@
        [a \in 3 .. 25 |-> Data(a)]]

Other ==
    [type |-> "ext2", groups |-> [per |-> 3, table |-> <<3>>], addr |-> 1 .. 14,
     block |-> 
        (3 :> Inodes(<<NoInode, Dir(5, 0, 1), File(4, <<7, 8, 12, 0>>)>>)) @@
        (5 :> DirOf(<<E("k", 3)>>)) @@
        (12 :> Pointers(<<13, 14>>)) @@
        [a \in 3 .. 14 |-> Data(100 + a)]]

X(name, use, dir, start, size) ==
    [name |-> name, use |-> use, dir |-> dir, start |-> start, size |-> size]
F(name, start, size) == X(name, "file", FALSE, start, size)
Unused == X("?", "free", FALSE, 0, 0)

(* Pack pairs of entries of 12 bits into three bytes each, or entries of   *)
(* 16 bits into two.                                                       *)
Pack12(s) == [i \in 1 .. ((Len(s) * 3) \div 2) |->
    LET k == ((i - 1) \div 3) * 2 + 1
    IN  CASE (i - 1) % 3 = 0 -> s[k] % 256
          [] (i - 1) % 3 = 1 -> (s[k] \div 256) + 16 * (s[k + 1] % 16)
          [] OTHER -> s[k + 1] \div 16]
Pack16(s) == [i \in 1 .. (Len(s) * 2) |->
    IF i % 2 = 1 THEN s[(i + 1) \div 2] % 256 ELSE s[i \div 2] \div 256]

Boot(size, cluster, fats, entries, sectors) ==
    [sector_size |-> size, cluster_size |-> cluster, reserved |-> 1, fats |-> fats,
     fat_length |-> 1, dir_entries |-> entries, sectors |-> sectors, geometry |-> TRUE]

Dos12 ==
    [type |-> "msdos", addr |-> 0 .. 15, boot |-> Boot(12, 2, 1, 4, 16),
     fat |-> Pack12(<<4088, 4095, 4, 4095, 3, 4095, 4088, 0>>),
     block |-> 
        (2 :> DirOf(<<X("k", "label", FALSE, 0, 0), F("k", 2, 62)>>)) @@
        (3 :> DirOf(<<X("d", "file", TRUE, 5, 0), F("bad", 7, 5)>>)) @@
        (10 :> DirOf(<<X(".", "file", TRUE, 5, 0), Unused>>)) @@
        (11 :> DirOf(<<F("f", 6, 13), Unused>>)) @@
        [a \in 2 .. 15 |-> Data(a)]]

Dos16 ==
    [type |-> "msdos", addr |-> 0 .. 21, boot |-> Boot(24, 1, 1, 4, 11),
     fat |-> Pack16(<<65528, 65535, 0, 5, 0, 65535, 65528, 0, 65535, 0, 0, 0>>),
     block |-> 
        (4 :> DirOf(<<F("g", 3, 48), Unused>>)) @@
        (5 :> DirOf(<<F("x", 8, 24), F("milo.cfg", 6, 7)>>)) @@
        [a \in 4 .. 21 |-> Data(200 + a)]]

R(len, name, dir, extent, size) ==
    [len |-> len, name |-> name, dir |-> dir, hidden |-> FALSE, extent |-> extent,
     size |-> size, interleaved |-> FALSE]

Cd ==
    [type |-> "iso9660", addr |-> {0, 32, 34} \cup (40 .. 53),
     vd |-> << [standard |-> FALSE, primary |-> FALSE, volumes |-> 0, zone |-> 0, root |-> 0],
               [standard |-> TRUE, primary |-> TRUE, volumes |-> 1, zone |-> 8, root |-> 20] >>,
     rec |-> 
        (160 :> R(2, ".", TRUE, 20, 16)) @@
        (162 :> R(2, "..", TRUE, 20, 16)) @@
        (164 :> R(3, "k", FALSE, 22, 6)) @@
        (168 :> R(3, "d", TRUE, 24, 16)) @@
        (171 :> R(3, "m", FALSE, 26, 5)) @@
        (192 :> R(2, ".", TRUE, 24, 16)) @@
        (194 :> R(2, "..", TRUE, 20, 16)) @@
        (196 :> R(3, "f", FALSE, 23, 3)) @@
        (200 :> [R(3, "z", FALSE, 23, 3) EXCEPT !.hidden = TRUE]) @@
        (203 :> R(3, "y", FALSE, 23, 51)),
     block |-> [a \in 44 .. 53 |-> Data(300 + a)]]

MC_Image == 
        ("unix" :> Unix) @@
        ("other" :> Other) @@
        ("dos12" :> Dos12) @@
        ("dos16" :> Dos16) @@
        ("cd" :> Cd) @@
        [d \in MC_Disk |-> Blank]

-----------------------------------------------------------------------------
(* What the disks hold, told independently of how.                         *)
Missing == [kind |-> "none", size |-> 0, data |-> <<>>, names |-> <<>>]
IsFile(size, data) == [kind |-> "file", size |-> size, data |-> data, names |-> <<>>]
IsDir(size, names) == [kind |-> "dir", size |-> size, data |-> <<>>, names |-> names]
D(s) == [i \in DOMAIN s |-> IF s[i] = 0 THEN Zeros ELSE Data(s[i])]

UnixF == IsFile(4, D(<<21, 22, 18, 19>>))

UnixTruth == 
        (P(<<>>) :> IsDir(2, <<".", "k", "d", "l", "m", "s", "c", "milo.cfg">>)) @@
        (P(<<"k">>) :> IsFile(6, D(<<10, 11, 13, 0, 16, 17>>))) @@
        (Rel(<<"d">>) :> IsDir(1, <<".", "f">>)) @@
        [p \in {P(<<"d", "f">>), P(<<"l">>), P(<<"m", "f">>), P(<<"s", "f">>)} |-> UnixF] @@
        (OtherConfigPath :> IsFile(1, D(<<24>>))) @@
        (P(<<"s">>) :> [Missing EXCEPT !.kind = "longlink"]) @@
        [p \in {P(<<>>), P(<<"k">>), Rel(<<"d">>), P(<<"d", "f">>), P(<<"l">>), P(<<"m", "f">>), P(<<"s", "f">>), P(<<"c", "f">>), P(<<"k", "f">>), P(<<"d", "g">>), OtherConfigPath} |-> Missing]

Dos12Truth == 
        (P(<<>>) :> IsDir(24, <<"k", "d", "bad">>)) @@
        (P(<<"k">>) :> IsFile(62, D(<<4, 5, 8, 9, 6, 7>>))) @@
        (P(<<"d">>) :> IsDir(0, <<".", "f">>)) @@
        (Rel(<<"d", "f">>) :> IsFile(13, D(<<12, 13>>))) @@
        (P(<<"bad">>) :> [Missing EXCEPT !.kind = "broken"]) @@
        [p \in {P(<<>>), P(<<"k">>), P(<<"d">>), Rel(<<"d", "f">>), P(<<"d", "g">>), P(<<"bad">>)} |-> Missing]

Dos16Truth == 
        (P(<<"g">>) :> IsFile(48, D(<<208, 209, 212, 213>>))) @@
        (P(<<"x">>) :> IsFile(24, D(<<218, 219>>))) @@
        [p \in {P(<<"g">>), P(<<"x">>), OtherConfigPath} |-> IsFile(7, D(<<214>>))]

CdTruth == 
        (P(<<>>) :> IsDir(16, <<".", "..", "k", "d", "m">>)) @@
        (P(<<"k">>) :> IsFile(6, D(<<344, 345>>))) @@
        (Rel(<<"m">>) :> IsFile(5, D(<<352, 353>>))) @@
        (P(<<"d">>) :> IsDir(16, <<".", "..", "f", "y">>)) @@
        (P(<<"d", "f">>) :> IsFile(3, D(<<346>>))) @@
        (P(<<"d", "y">>) :> IsFile(3, D(<<346>>))) @@
        [p \in {P(<<>>), P(<<"k">>), Rel(<<"m">>), P(<<"d">>), P(<<"d", "f">>), P(<<"d", "y">>), P(<<"d", "z">>)} |-> Missing]

MC_Truth == 
        ("unix" :> UnixTruth) @@
        ("other" :> [p \in {P(<<"k">>)} |-> IsFile(4, D(<<107, 108, 113, 114>>))]) @@
        ("dos12" :> Dos12Truth) @@
        ("dos16" :> Dos16Truth) @@
        ("cd" :> CdTruth) @@
        [d \in MC_Disk |-> [p \in {P(<<"k">>)} |-> Missing]]

(* A mount sets all that its reader keeps, apart from the caches and       *)
(* blkbuf of ext2: what the readers not in use hold makes no difference.   *)
MC_View ==
    LET used(fs, v) == IF call.fs = fs /\ call.pc \notin {"idle", "mount"} THEN v ELSE <<>>
    IN  <<call, faults, icache, dicache, blkbuf, used("ext2", <<inode_table, gds>>),
          used("msdos", msdos_vars), used("iso9660", iso_vars)>>
===============================================================================
