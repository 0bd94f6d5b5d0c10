----------------------------- MODULE Environment ------------------------------
(***************************************************************************)
(* The environment variables (env.c) and where they are kept between two   *)
(* runs of MILO (nvram.c): battery-backed RAM that is overwritten in place *)
(* (NoName), or a block of flash memory that is erased first (the others); *)
(* an erase may fail, and the block is written all the same.  The          *)
(* variables live in chunks of fixed size, chunk 0 holding a marker; every *)
(* change rewrites the whole store, and the power may go at any moment.  A *)
(* chunk is free when its first byte is 0: unsetenv clears that byte and   *)
(* leaves the rest of the text, which matters when the store of a chunk is *)
(* cut short.                                                              *)
(***************************************************************************)
EXTENDS Naturals, FiniteSets, FiniteSetsExt

CONSTANTS
    Vars, Values,
    None,           \* no variable, no value, no change under way
    Torn,           \* a value that was stored in part
    Initial(_),     \* the first letter of a variable's name
    NVARS           \* ENVIRON_NVARS, chunk 0 included

ASSUME EnvironmentAssumption ==
    /\ NVARS \in Nat \ {0}
    /\ None \notin Vars \cup Values \cup {Torn} /\ Torn \notin Values

VARIABLES
    kind,       \* "nvram" or "flash"
    power,      \* MILO is running
    environ,    \* the working area
    store,      \* the battery-backed RAM or the flash block
    found,      \* nvram_copyout knows where to write (flash_block >= 0)
    pc,         \* "idle", or the save that is under way: "erase" or "write"
    at,         \* the chunk being written
    next,       \* what follows the save: "idle", or "reset" in resetenv
    changing,   \* history: the variables the save under way changes
    known,      \* history: the variables' values before that change
    fault,      \* history: what failed in the last save: "none", "write", or
                \* "erase" until the block has been erased after all
    cuts        \* history: saves cut short or spoilt since the last resetenv, at most 2

history == <<changing, known, fault, cuts>>
vars == <<kind, power, environ, store, found, pc, at, next, history>>

(* A chunk: whether its first byte is not 0, and the text of which that    *)
(* byte is the first.  var = None is text that is no variable.             *)
Chunk == [live : BOOLEAN, var : Vars \cup {None}, val : Values \cup {Torn, None}]
Blank == [live |-> FALSE, var |-> None, val |-> None]
Noise == [live |-> TRUE, var |-> None, val |-> None]    \* erased, test pattern

Chunks == 1 .. (NVARS - 1)
Areas == [id : BOOLEAN, chunk : [Chunks -> Chunk]]
Filled(id, c) == [id |-> id, chunk |-> [i \in Chunks |-> c]]

TypeOK ==
    /\ kind \in {"nvram", "flash"}
    /\ power \in BOOLEAN /\ found \in BOOLEAN /\ cuts \in 0 .. 2
    /\ environ \in Areas /\ store \in Areas
    /\ pc \in {"idle", "erase", "write"} /\ at \in 0 .. NVARS
    /\ next \in {"idle", "reset"}
    /\ changing \subseteq Vars
    /\ known \in [Vars -> Values \cup {Torn, None}]
    /\ fault \in {"none", "write", "erase"}

-----------------------------------------------------------------------------
Holds(area, v) ==
    { i \in Chunks : area.chunk[i].live /\ area.chunk[i].var = v }

getenv(area, v) ==
    IF Holds(area, v) = {} THEN None ELSE area.chunk[Min(Holds(area, v))].val

Free == { i \in Chunks : ~environ.chunk[i].live }

\* An area with the marker and no variables, set up by resetenv or the flash
\* management utility.
Init ==
    /\ kind \in {"nvram", "flash"}
    /\ power = TRUE
    /\ environ = Filled(TRUE, Blank)
    /\ store = environ
    /\ found = TRUE
    /\ pc = "idle" /\ at = 0 /\ next = "idle"
    /\ changing = {} /\ fault = "none" /\ cuts = 0
    /\ known = [v \in Vars |-> None]

\* Mutant: erases battery-backed RAM too.
StartSave_Erase ==
    /\ pc' = IF found THEN "erase" ELSE "idle"
    /\ at' = 0
    /\ fault' = IF fault = "write" THEN "none" ELSE fault

\* save_env_to_nvram begins; without a flash block it returns at once.
StartSave ==
    /\ pc' = IF kind = "nvram" THEN "write" ELSE IF found THEN "erase" ELSE "idle"
    /\ at' = 0
    /\ fault' = IF fault = "write" THEN "none" ELSE fault

Ready == power /\ pc = "idle" /\ next = "idle"

\* What the user relies on before a change to the variables in vs.
Note(vs) ==
    /\ changing' = vs
    /\ known' = [v \in Vars |-> getenv(environ, v)]

\* Mutant: takes the first free chunk, wherever the variable is.
Target_FirstFree(v) == Min(Free \cup {NVARS})

\* The variable's own chunk, or else the first free one; NVARS if there is
\* neither.
Target(v) ==
    IF Holds(environ, v) # {} THEN Min(Holds(environ, v)) ELSE Min(Free \cup {NVARS})

setenv(v, x) ==
    /\ Ready
    /\ Target(v) \in Chunks
    /\ environ' = [environ EXCEPT !.chunk[Target(v)] =
                      [live |-> TRUE, var |-> v, val |-> x]]
    /\ StartSave
    /\ Note({v})
    /\ UNCHANGED <<kind, power, store, found, next, cuts>>

\* Mutant: forgets to save.
unsetenv_NotSaved(v) ==
    /\ Ready
    /\ Holds(environ, v) # {}
    /\ environ' = [environ EXCEPT !.chunk[Min(Holds(environ, v))].live = FALSE]
    /\ Note({v})
    /\ UNCHANGED <<kind, power, store, found, pc, at, next, fault, cuts>>

unsetenv(v) ==
    /\ Ready
    /\ Holds(environ, v) # {}
    /\ environ' = [environ EXCEPT !.chunk[Min(Holds(environ, v))].live = FALSE]
    /\ StartSave
    /\ Note({v})
    /\ UNCHANGED <<kind, power, store, found, next, cuts>>

(* resetenv first calls test_nvram, which saves a pattern and reads back   *)
(* what the store then holds, and marks every chunk of that free.          *)
resetenv ==
    /\ Ready
    /\ environ' = Filled(FALSE, Noise)
    /\ StartSave
    /\ next' = "reset"
    /\ Note(Vars)
    /\ UNCHANGED <<kind, power, store, found, cuts>>

FinishReset ==
    /\ power /\ pc = "idle" /\ next = "reset"
    /\ environ' = [id |-> TRUE, chunk |-> [i \in Chunks |->
                      IF found THEN [store.chunk[i] EXCEPT !.live = FALSE] ELSE Blank]]
    /\ StartSave
    /\ next' = "idle"
    /\ cuts' = IF found THEN 0 ELSE cuts
    /\ UNCHANGED <<kind, power, store, found, changing, known>>

-----------------------------------------------------------------------------
(* nvram_copyout.                                                          *)

\* A save that was cut short, or whose block could not be erased.
OneMoreCut == cuts' = Min({cuts + 1, 2})

\* Mutant: the block is not erased.
delete_flash_block_Skipped ==
    /\ power /\ pc = "erase"
    /\ pc' = "write" /\ fault' = "none"
    /\ UNCHANGED <<kind, power, environ, store, found, at, next, changing, known, cuts>>

delete_flash_block ==
    /\ power /\ pc = "erase"
    /\ store' = Filled(FALSE, Noise)
    /\ pc' = "write" /\ fault' = "none"
    /\ UNCHANGED <<kind, power, environ, found, at, next, changing, known, cuts>>

\* A chunk that has lost a part of its text.
Damaged(c) == IF c.var = None THEN Noise ELSE [c EXCEPT !.val = Torn]

(* Erasing stops early: each chunk is as it was, damaged, erased, or zero. *)
StopErasing ==
    /\ \E id \in {store.id, FALSE} :
       \E f \in [Chunks -> 1 .. 4] :
          store' = [id |-> id, chunk |-> [i \in Chunks |->
              <<store.chunk[i], Damaged(store.chunk[i]), Noise, Blank>>[f[i]]]]
    /\ fault' = "erase"

\* delete_flash_block reports the failure and returns; nobody asks it.
EraseFails ==
    /\ power /\ pc = "erase"
    /\ StopErasing /\ OneMoreCut
    /\ pc' = "write"
    /\ UNCHANGED <<kind, power, environ, found, at, next, changing, known>>

(* Programming flash memory only clears bits, and the chip does not report *)
(* the bits it would have to set.  So text written over other text is lost *)
(* in a mixture of both, which may read as either of them.                 *)
Over(old, new) ==
    LET texts == {old, new, Noise, Damaged(old), Damaged(new)}
        mixed == texts \cup { [t EXCEPT !.live = FALSE] : t \in texts }
    IN  IF old = new THEN {new} ELSE { c \in mixed : c.live => old.live /\ new.live }

Written(old, new) == IF fault = "erase" THEN Over(old, new) ELSE {new}

\* The marker is lost in another text; over the erased chunk, or itself, it
\* is there.
WrittenId ==
    IF fault = "erase" /\ environ.id /\ ~store.id THEN BOOLEAN ELSE {environ.id}

LastChunk == NVARS - 1

WriteChunk ==
    /\ power /\ pc = "write"
    /\ IF at = 0 THEN \E id \in WrittenId : store' = [store EXCEPT !.id = id]
       ELSE \E c \in Written(store.chunk[at], environ.chunk[at]) :
               store' = [store EXCEPT !.chunk[at] = c]
    /\ at' = at + 1
    /\ pc' = IF at = LastChunk THEN "idle" ELSE "write"
    /\ UNCHANGED <<kind, power, environ, found, next, history>>

(* What a chunk may hold when writing it stops between two bytes: the old  *)
(* text, the new, neither, the new variable with a mixed value             *)
(* or, as the first byte comes first, an old one that had been deleted.    *)
CutShort(old, new) ==
    IF old = new \/ ~new.live THEN {old, new}
    ELSE {old, new, Noise, [new EXCEPT !.val = Torn]}
         \cup { c \in {[old EXCEPT !.live = TRUE]} :
                   old.var # None /\ new.var # None /\ Initial(old.var) = Initial(new.var) }

\* Writing stops in chunk at, or in the marker.
Stopped(old, new) == IF fault = "erase" THEN {old} \cup Over(old, new) ELSE CutShort(old, new)

StopWriting ==
    IF at = 0 THEN \E id \in {store.id, store.id /\ environ.id} : store' = [store EXCEPT !.id = id]
    ELSE \E c \in Stopped(store.chunk[at], environ.chunk[at]) :
            store' = [store EXCEPT !.chunk[at] = c]

\* A byte of the flash memory cannot be written: the rest stays as it is.
WriteFails ==
    /\ power /\ pc = "write" /\ kind = "flash"
    /\ StopWriting /\ OneMoreCut
    /\ pc' = "idle"
    /\ fault' = IF fault = "erase" THEN "erase" ELSE "write"
    /\ UNCHANGED <<kind, power, environ, found, at, next, changing, known>>

PowerFails ==
    /\ power
    /\ power' = FALSE
    /\ \/ pc = "write" /\ StopWriting /\ UNCHANGED fault
       \/ pc = "erase" /\ StopErasing
       \/ pc # "write" /\ UNCHANGED <<store, fault>>
    /\ cuts' = IF pc # "idle" \/ next # "idle" THEN Min({cuts + 1, 2}) ELSE cuts
    /\ UNCHANGED <<kind, environ, found, pc, at, next, changing, known>>

(* The flash block is found by its marker; without it the area stays as it *)
(* is at power-up, and MILO runs with it.  Battery-backed RAM without the  *)
(* marker is reported and used.                                            *)
NextRunShows == IF kind = "nvram" \/ store.id THEN store ELSE Filled(FALSE, Blank)

env_init ==
    /\ ~power
    /\ power' = TRUE
    /\ found' = (kind = "nvram" \/ store.id)
    /\ environ' = NextRunShows
    /\ pc' = "idle" /\ at' = 0 /\ next' = "idle"
    /\ changing' = {} /\ fault' = "none"
    /\ known' = [v \in Vars |-> getenv(environ', v)]
    /\ UNCHANGED <<kind, store, cuts>>

nvram_copyout == delete_flash_block \/ EraseFails \/ WriteChunk \/ WriteFails

Next ==
    \/ \E v \in Vars : unsetenv(v) \/ \E x \in Values : setenv(v, x)
    \/ resetenv \/ FinishReset
    \/ nvram_copyout
    \/ PowerFails \/ env_init

Spec == Init /\ [][Next]_vars

-----------------------------------------------------------------------------
\* No variable is in two chunks, whatever the order of setenv and unsetenv
\* and the holes they leave, unless a save was cut short.
OneChunkPerVariable ==
    cuts = 0 => \A v \in Vars : Cardinality(Holds(environ, v)) <= 1

\* Whatever failed before, a save whose erase and writes went through leaves
\* the store equal to the environment MILO shows, so that the next run sees
\* the same; where MILO has found a place for it.
SavedIsCurrent ==
    power /\ pc = "idle" /\ next = "idle" /\ found /\ fault = "none" => store = environ

\* On battery-backed RAM the first power failure during a save costs no
\* variable but the one being changed: every other one that had a value
\* comes back with it, although a deleted one may come back to life.  (A
\* second one may bring such a variable back in front of a newer one.)
OthersSurvive ==
    ~power /\ kind = "nvram" /\ cuts <= 1 =>
        \A v \in Vars \ changing : known[v] # None => getenv(store, v) = known[v]

\* On flash a power failure may lose variables, as the block is erased
\* before it is written, but once the block is erased, it never brings back
\* a value that was replaced, whatever erases and writes failed before: in
\* the next run each variable not being changed has the value it had, a
\* part of it, or none.  (After an erase that failed or was cut short the
\* old text is still there.)
FlashNeverStale ==
    ~power /\ kind = "flash" /\ fault # "erase" =>
        \A v \in Vars \ changing : getenv(NextRunShows, v) \in {known[v], Torn, None}
===============================================================================
