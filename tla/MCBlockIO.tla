------------------------------- MODULE MCBlockIO ------------------------------
(* Two devices of four sectors, one a disk.  A cell is 128 bytes.          *)
EXTENDS BlockIO

CONSTANTS d1, d2

MC_Devices == {d1, d2}
MC_Disks == {d1}

\* msdos reads sectors and runs of them; ext2 its superblock, group
\* descriptors, inodes and blocks.
MC_FileSystems ==
    { <<0, 4, 4>>, <<4, 8, 4>>, <<8, 4, 4>>,
      <<8, 8, 8>>, <<8, 3, 8>>, <<5, 1, 8>>, <<0, 16, 8>> }

===============================================================================
