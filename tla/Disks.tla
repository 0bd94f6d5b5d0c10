--------------------------------- MODULE Disks --------------------------------
(***************************************************************************)
(* What the file system readers of MILO share (fs/fs.h, devices.c): one    *)
(* device that is open, disks that any device_read may fail on, and the    *)
(* command being carried out.  "each time you use a device you must mount  *)
(* it": every command begins with a mount, and names its device and path.  *)
(* A disk is an image at the granularity of the blocks a reader asks for.  *)
(***************************************************************************)
EXTENDS Integers, Sequences, FiniteSets

CONSTANTS
    Disk,           \* the disks in the devices
    Image,          \* their contents, by disk: [type, addr, ...]
    MaxFaults       \* bound: device reads and allocations that fail

ASSUME DisksAssumption == MaxFaults \in Nat

VARIABLES
    call,           \* the command: see Idle
    faults          \* failures so far

None == -1
NoMemory == -1      \* "address" of an allocation that fails

Zeros == [kind |-> "zeros"]     \* a block of zeros

(* What a listing printed: the names of a directory, or one line with the  *)
(* path of a file.                                                         *)
Names(seq) == [kind |-> "names", names |-> seq]
Line(path) == [kind |-> "line", names |-> path]

(* A command on a disk.  pc is where it is; fs the file system it tries;   *)
(* names, dir, file and links the locals of a path search; n the block or  *)
(* the step of a listing it is at; out what it read or listed last, and    *)
(* clean says that nothing failed in it so far.                            *)
Idle == [pc |-> "idle", op |-> "ls", disk |-> "", auto |-> TRUE, fs |-> "ext2",
         path |-> [abs |-> TRUE, names |-> <<>>], names |-> <<>>,
         dir |-> None, file |-> None, links |-> 0, fd |-> None, n |-> 0,
         out |-> Zeros, clean |-> TRUE]

At(where, fs) == call.pc = where /\ call.fs = fs

OnDisk == Image[call.disk]

(* What may fail in a step: nothing, or one address of the disk.           *)
Bad == {{}} \cup (IF faults < MaxFaults
                  THEN { {a} : a \in OnDisk.addr \cup {NoMemory} } ELSE {})

(* The step goes on with the command c, in which bad failed.               *)
GoOn(bad, c) ==
    /\ faults' = faults + Cardinality(bad)
    /\ call' = [c EXCEPT !.clean = @ /\ bad = {}]

Done(c) == [Idle EXCEPT !.clean = c.clean]

(* fs_mount tries the next file system if the user named none.             *)
NextFs == [ext2 |-> "iso9660", iso9660 |-> "msdos", msdos |-> "none"]

fs_mount_result(mounted) ==
    IF mounted THEN [call EXCEPT !.pc = IF call.op = "chdev" THEN "close" ELSE "open"]
    ELSE IF call.auto /\ NextFs[call.fs] # "none" THEN [call EXCEPT !.fs = NextFs[call.fs]]
    ELSE Done(call)

(* The configuration file has two places, tried under one mount.           *)
ConfigPath == [abs |-> TRUE, names |-> <<"etc", "milo.conf">>]
OtherConfigPath == [abs |-> TRUE, names |-> <<"milo.cfg">>]

AfterFound == [ls |-> "list", chdir |-> "close", load |-> "read", config |-> "read"]

(* A path search ends with the slot of the inode, or with None.            *)
Found(c, slot) ==
    LET d == [c EXCEPT !.fd = slot, !.n = 0]
    IN  IF slot # None THEN [d EXCEPT !.pc = AfterFound[c.op],
                                          !.out = IF c.op = "ls" THEN Names(<<>>) ELSE @]
        ELSE IF c.path = ConfigPath /\ c.op = "config"
        THEN [d EXCEPT !.pc = "open", !.path = OtherConfigPath]
        ELSE IF c.op \in {"load", "config"} THEN Done(c)
        ELSE [d EXCEPT !.pc = "close"]
===============================================================================
