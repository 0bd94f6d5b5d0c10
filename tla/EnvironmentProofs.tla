-------------------------- MODULE EnvironmentProofs --------------------------
(***************************************************************************)
(* Proofs about Environment, for any number of variables, values and       *)
(* chunks: a variable is never in two chunks, a finished save leaves the   *)
(* store equal to what MILO shows, and what the power may take away while  *)
(* a save is under way, on battery-backed RAM and on flash.                *)
(***************************************************************************)
EXTENDS Environment, FiniteSetTheorems, WellFoundedInduction, TLAPS

-----------------------------------------------------------------------------
(* The inductive invariant, in the terms the properties need. *)

InArea(area, i, v) == area.chunk[i].live /\ area.chunk[i].var = v

\* No variable is in two chunks.
Unique(area) ==
    \A v \in Vars : \A i, j \in Chunks : InArea(area, i, v) /\ InArea(area, j, v) => i = j

\* The text a deleted variable of vs left behind comes after the chunk the
\* variable is in: setenv takes the first free chunk, which is not later.
GhostsBehind(area, vs) ==
    \A v \in vs : \A g, i \in Chunks :
        ~area.chunk[g].live /\ area.chunk[g].var = v /\ InArea(area, i, v) => i < g

\* Where a save has got to.
ProgressInv ==
    /\ kind = "nvram" => found /\ fault = "none"
    /\ pc = "erase" => kind = "flash" /\ at = 0
    /\ pc # "idle" => found
    /\ pc = "write" => at < NVARS
    /\ power /\ pc = "write" /\ fault # "erase" =>
          /\ \A i \in Chunks : i < at => store.chunk[i] = environ.chunk[i]
          /\ at > 0 => store.id = environ.id
    /\ next = "reset" => changing = Vars /\ environ = Filled(FALSE, Noise)

\* While no save was cut short.
UncutInv ==
    cuts = 0 =>
        /\ found
        /\ next = "idle" => environ.id
        /\ Unique(environ)
        /\ GhostsBehind(environ, Vars)
        /\ ~power => pc = "idle" /\ next = "idle"
        /\ pc # "erase" => fault = "none"
        /\ pc = "idle" /\ next = "idle" => store = environ

\* The variables not being changed have the values the user relies on.
KnownInv == \A v \in Vars \ changing : getenv(environ, v) = known[v]

\* Battery-backed RAM: store and working area differ at most in chunks that
\* hold nothing, or a variable being changed, in both.
NvramInv ==
    kind = "nvram" /\ power =>
        /\ pc = "idle" /\ next = "idle" => store = environ
        /\ \A i \in Chunks :
              \/ store.chunk[i] = environ.chunk[i]
              \/ \A v \in Vars \ changing : ~InArea(store, i, v) /\ ~InArea(environ, i, v)
        /\ cuts = 0 => GhostsBehind(store, Vars \ changing)

\* Flash: what the block holds of the variables is the beginning of the
\* working area, one of them perhaps in part; before the block is erased
\* this is so for the variables not being changed.  An erase that failed
\* leaves nothing to rely on until the next one.
Prefix(v) ==
    \A i \in Chunks : InArea(store, i, v) =>
        /\ InArea(environ, i, v)
        /\ store.chunk[i].val \in {environ.chunk[i].val, Torn}
        /\ \A j \in Chunks : j < i /\ InArea(environ, j, v) => InArea(store, j, v)

FlashInv ==
    kind = "flash" =>
        /\ found /\ next = "idle" => environ.id
        /\ ~found => ~store.id
        /\ power /\ pc = "write" /\ fault # "erase" =>
              /\ at = 0 => ~store.id
              /\ \A i \in Chunks : at <= i => store.chunk[i] = Noise
        /\ found /\ fault # "erase" =>
              \A v \in Vars : pc # "erase" \/ v \notin changing => Prefix(v)

EnvironmentInv ==
    /\ TypeOK /\ ProgressInv /\ UncutInv /\ KnownInv
    /\ NvramInv /\ FlashInv /\ OthersSurvive /\ SavedIsCurrent

-----------------------------------------------------------------------------
(* The operators the model is built from. *)

\* A set of numbers that is not empty has a least one.
LEMMA MinNat ==
    ASSUME NEW S \in SUBSET Nat, S # {}
    PROVE  Min(S) \in S /\ \A y \in S : Min(S) <= y
  <1>1. \E x \in S : \A y \in S : ~(<<y, x>> \in OpToRel(<, Nat))
    BY NatLessThanWellFounded, WFMin, Zenon
  <1>2. ASSUME NEW x \in Nat, NEW y \in Nat, ~(<<y, x>> \in OpToRel(<, Nat))
        PROVE  x <= y
    BY <1>2 DEF OpToRel
  <1>3. \E x \in S : \A y \in S : x <= y
    BY <1>1, <1>2
  <1> QED BY <1>3 DEF Min

\* The chunks are numbers.
LEMMA ChunksNat == Chunks \subseteq Nat /\ \A i \in Chunks : 1 <= i /\ i < NVARS
  BY EnvironmentAssumption DEF Chunks

\* getenv either finds nothing or the first chunk that holds the variable.
LEMMA GetenvCases ==
    ASSUME NEW area, NEW v
    PROVE  \/ getenv(area, v) = None /\ \A i \in Chunks : ~InArea(area, i, v)
           \/ \E i \in Chunks : /\ InArea(area, i, v)
                                /\ \A j \in Chunks : InArea(area, j, v) => i <= j
                                /\ getenv(area, v) = area.chunk[i].val
  <1>1. CASE Holds(area, v) = {}
    BY <1>1 DEF getenv, Holds, InArea
  <1>2. CASE Holds(area, v) # {}
    <2>1. Holds(area, v) \in SUBSET Nat
      BY ChunksNat DEF Holds
    <2>2. /\ Min(Holds(area, v)) \in Holds(area, v)
          /\ \A y \in Holds(area, v) : Min(Holds(area, v)) <= y
      BY <1>2, <2>1, MinNat
    <2> QED BY <1>2, <2>2 DEF getenv, Holds, InArea
  <1> QED BY <1>1, <1>2

\* The first chunk that holds a variable gives its value.
LEMMA GetenvFirst ==
    ASSUME NEW area, NEW v, NEW i \in Chunks, InArea(area, i, v),
           \A j \in Chunks : InArea(area, j, v) => i <= j
    PROVE  getenv(area, v) = area.chunk[i].val
  <1>1. PICK k \in Chunks : /\ InArea(area, k, v)
                            /\ \A j \in Chunks : InArea(area, j, v) => k <= j
                            /\ getenv(area, v) = area.chunk[k].val
    BY GetenvCases
  <1>2. k <= i /\ i <= k
    BY <1>1
  <1>3. k = i
    BY <1>2, ChunksNat
  <1> QED BY <1>1, <1>3

\* Two areas that hold a variable in the same chunks with the same text
\* show the same value.
LEMMA GetenvSame ==
    ASSUME NEW area, NEW other, NEW v,
           \A i \in Chunks : InArea(area, i, v) <=> InArea(other, i, v),
           \A i \in Chunks : InArea(area, i, v) => area.chunk[i].val = other.chunk[i].val
    PROVE  getenv(area, v) = getenv(other, v)
  <1>1. CASE \A i \in Chunks : ~InArea(area, i, v)
    BY <1>1, GetenvCases
  <1>2. ASSUME NEW i \in Chunks, InArea(area, i, v),
               \A j \in Chunks : InArea(area, j, v) => i <= j
        PROVE  getenv(area, v) = getenv(other, v)
    BY <1>2, GetenvFirst
  <1> QED BY <1>1, <1>2, GetenvCases

\* What getenv shows is a value, a part of one, or nothing.
LEMMA GetenvType ==
    ASSUME NEW area \in Areas, NEW v
    PROVE  getenv(area, v) \in Values \cup {Torn, None}
  <1>1. \A i \in Chunks : area.chunk[i].val \in Values \cup {Torn, None}
    BY DEF Areas, Chunk
  <1> QED BY <1>1, GetenvCases

\* What the user relies on is a value for each variable.
LEMMA KnownType ==
    ASSUME NEW area \in Areas
    PROVE  [v \in Vars |-> getenv(area, v)] \in [Vars -> Values \cup {Torn, None}]
  BY GetenvType

\* Replacing one chunk of an area leaves the others.
LEMMA PutChunk ==
    ASSUME NEW area \in Areas, NEW t \in Chunks, NEW c \in Chunk
    PROVE  LET new == [area EXCEPT !.chunk[t] = c]
           IN  /\ new \in Areas
               /\ new.id = area.id
               /\ new.chunk[t] = c
               /\ \A i \in Chunks : i # t => new.chunk[i] = area.chunk[i]
  BY DEF Areas

\* Deleting a variable clears the first byte of its chunk only.
LEMMA ClearChunk ==
    ASSUME NEW area \in Areas, NEW t \in Chunks
    PROVE  LET new == [area EXCEPT !.chunk[t].live = FALSE]
           IN  /\ new \in Areas
               /\ new.id = area.id
               /\ ~new.chunk[t].live
               /\ new.chunk[t].var = area.chunk[t].var
               /\ \A i \in Chunks : i # t => new.chunk[i] = area.chunk[i]
  BY DEF Areas, Chunk

\* An area filled with one chunk.
LEMMA FilledType ==
    ASSUME NEW id \in BOOLEAN, NEW c \in Chunk
    PROVE  /\ Filled(id, c) \in Areas
           /\ Filled(id, c).id = id
           /\ \A i \in Chunks : Filled(id, c).chunk[i] = c
  BY DEF Areas, Filled

\* Neither a cleared nor an erased chunk holds a variable.
LEMMA EmptyChunks ==
    /\ Blank \in Chunk /\ Noise \in Chunk /\ Blank # Noise
    /\ ~Blank.live /\ Blank.var = None /\ Noise.live /\ Noise.var = None
    /\ \A v \in Vars : v # None
  BY EnvironmentAssumption DEF Blank, Noise, Chunk

\* Two areas are equal when they agree on the marker and in every chunk.
LEMMA AreasEqual ==
    ASSUME NEW area \in Areas, NEW other \in Areas, area.id = other.id,
           \A i \in Chunks : area.chunk[i] = other.chunk[i]
    PROVE  area = other
  BY DEF Areas

\* Where setenv puts a variable: its own first chunk or, when it has none,
\* the first free one.
LEMMA TargetCases ==
    ASSUME NEW v, Target(v) \in Chunks
    PROVE  \/ /\ InArea(environ, Target(v), v)
              /\ \A j \in Chunks : InArea(environ, j, v) => Target(v) <= j
           \/ /\ ~environ.chunk[Target(v)].live
              /\ \A j \in Chunks : ~InArea(environ, j, v)
              /\ \A j \in Chunks : ~environ.chunk[j].live => Target(v) <= j
  <1>1. CASE Holds(environ, v) # {}
    <2>1. Holds(environ, v) \in SUBSET Nat
      BY ChunksNat DEF Holds
    <2> QED BY <1>1, <2>1, MinNat DEF Target, Holds, InArea
  <1>2. CASE Holds(environ, v) = {}
    <2>1. Free \cup {NVARS} \in SUBSET Nat /\ Free \cup {NVARS} # {}
      BY ChunksNat, EnvironmentAssumption DEF Free
    <2>2. Target(v) \in Free \cup {NVARS} /\ \A y \in Free \cup {NVARS} : Target(v) <= y
      BY <1>2, <2>1, MinNat DEF Target
    <2>3. Target(v) # NVARS
      BY ChunksNat, EnvironmentAssumption
    <2> QED BY <1>2, <2>2, <2>3 DEF Holds, InArea, Free
  <1> QED BY <1>1, <1>2

\* How a save begins: in battery-backed RAM with writing, in flash with
\* erasing, and not at all when there is no block.
LEMMA StartSaveCases ==
    ASSUME TypeOK, ProgressInv, StartSave
    PROVE  /\ at' = 0 /\ pc' \in {"idle", "erase", "write"}
           /\ pc' = "erase" => kind = "flash"
           /\ pc' = "write" => kind = "nvram"
           /\ pc' # "idle" <=> found
  BY DEF TypeOK, ProgressInv, StartSave

\* What a chunk holds when writing it was cut short.
LEMMA CutShortCases ==
    ASSUME NEW old \in Chunk, NEW new \in Chunk, NEW c \in CutShort(old, new)
    PROVE  /\ c \in Chunk
           /\ \/ c = old \/ c = new \/ c = Noise
              \/ /\ c.live /\ new.live /\ c.var = new.var /\ c.val = Torn
              \/ /\ old.var # None /\ c.live /\ c.var = old.var /\ c.val = old.val
  BY EmptyChunks DEF CutShort, Chunk

\* Text written over other text is still a chunk.
LEMMA OverType ==
    ASSUME NEW old \in Chunk, NEW new \in Chunk, NEW c \in Over(old, new)
    PROVE  c \in Chunk
  <1> DEFINE texts == {old, new, Noise, Damaged(old), Damaged(new)}
  <1>1. texts \subseteq Chunk
    BY EmptyChunks DEF Damaged, Chunk
  <1>2. \A t \in Chunk : [t EXCEPT !.live = FALSE] \in Chunk
    BY DEF Chunk
  <1>3. c \in {new} \cup texts \cup { [t EXCEPT !.live = FALSE] : t \in texts }
    BY DEF Over
  <1> HIDE DEF texts
  <1> QED BY <1>1, <1>2, <1>3
-----------------------------------------------------------------------------
(* One lemma per action: it preserves the inductive invariant. *)

LEMMA InitInv == Init => EnvironmentInv
  <1> SUFFICES ASSUME Init PROVE EnvironmentInv
    OBVIOUS
  <1>1. /\ environ \in Areas /\ environ.id /\ store = environ
        /\ \A i \in Chunks : environ.chunk[i] = Blank
    BY FilledType, EmptyChunks DEF Init
  <1>2. \A v \in Vars, i \in Chunks : ~InArea(environ, i, v)
    BY <1>1, EmptyChunks DEF InArea
  <1>3. TypeOK
    <2>1. known \in [Vars -> Values \cup {Torn, None}]
      BY DEF Init
    <2>2. 0 \in 0 .. NVARS
      BY EnvironmentAssumption
    <2>3. /\ kind \in {"nvram", "flash"} /\ pc = "idle" /\ at = 0 /\ next = "idle"
          /\ fault = "none" /\ cuts = 0
      BY DEF Init
    <2>4. power \in BOOLEAN /\ found \in BOOLEAN /\ changing \subseteq Vars
      BY DEF Init
    <2> QED BY <1>1, <2>1, <2>2, <2>3, <2>4 DEF TypeOK
  <1>4. ProgressInv
    BY EnvironmentAssumption DEF Init, ProgressInv
  <1>5. UncutInv
    BY <1>1, <1>2 DEF Init, UncutInv, Unique, GhostsBehind
  <1>6. KnownInv
    BY <1>2, GetenvCases DEF Init, KnownInv
  <1>7. NvramInv
    BY <1>1, <1>2 DEF Init, NvramInv, GhostsBehind
  <1>8. FlashInv
    BY <1>1, <1>2 DEF Init, FlashInv, Prefix
  <1>9. OthersSurvive /\ SavedIsCurrent
    BY DEF Init, OthersSurvive, SavedIsCurrent
  <1> QED BY <1>3, <1>4, <1>5, <1>6, <1>7, <1>8, <1>9 DEF EnvironmentInv

\* A change to the chunk of one variable, or to a free one that takes it,
\* and the beginning of the save.
LEMMA EditStep ==
    ASSUME EnvironmentInv, Ready, NEW v \in Vars, NEW t \in Chunks,
           environ' \in Areas, environ'.id = environ.id,
           \A i \in Chunks : i # t => environ'.chunk[i] = environ.chunk[i],
           environ.chunk[t].live => environ.chunk[t].var = v,
           environ'.chunk[t].live => environ'.chunk[t].var = v,
           Unique(environ) => Unique(environ'),
           Unique(environ) /\ GhostsBehind(environ, Vars) => GhostsBehind(environ', Vars),
           StartSave, Note({v}),
           UNCHANGED <<kind, power, store, found, next, cuts>>
    PROVE  EnvironmentInv'
  <1> USE DEF EnvironmentInv
  <1>1. \A u \in Vars \ {v}, i \in Chunks :
            /\ InArea(environ', i, u) <=> InArea(environ, i, u)
            /\ InArea(environ, i, u) => environ'.chunk[i] = environ.chunk[i]
    BY DEF InArea
  <1>2. TypeOK'
    BY KnownType, EnvironmentAssumption DEF TypeOK, StartSave, Note
  <1>3. ProgressInv'
    BY ChunksNat, EnvironmentAssumption DEF TypeOK, ProgressInv, StartSave, Ready
  <1>4. UncutInv'
    BY DEF UncutInv, StartSave, Ready, TypeOK
  <1>5. KnownInv'
    <2>1. ASSUME NEW u \in Vars \ {v}
          PROVE  getenv(environ', u) = getenv(environ, u)
      BY <1>1, GetenvSame
    <2> QED BY <2>1 DEF KnownInv, Note
  <1>6. NvramInv'
    <2> SUFFICES ASSUME kind = "nvram" PROVE NvramInv'
      BY DEF NvramInv
    <2>1. store = environ /\ pc' = "write"
      BY DEF NvramInv, Ready, StartSave
    <2>2. \A i \in Chunks : \/ store'.chunk[i] = environ'.chunk[i]
                            \/ \A u \in Vars \ {v} : ~InArea(store', i, u) /\ ~InArea(environ', i, u)
      BY <2>1 DEF InArea
    <2>3. cuts = 0 => GhostsBehind(store, Vars \ {v})
      BY <2>1 DEF UncutInv, GhostsBehind
    <2> QED BY <2>1, <2>2, <2>3 DEF NvramInv, Note, GhostsBehind, InArea
  <1>7. FlashInv'
    <2> SUFFICES ASSUME kind = "flash" PROVE FlashInv'
      BY DEF FlashInv
    <2>1. ASSUME found, fault # "erase", NEW u \in Vars \ {v} PROVE Prefix(u)'
      <3>1. Prefix(u)
        BY <2>1 DEF FlashInv, Ready
      <3> QED BY <1>1, <3>1 DEF Prefix, InArea
    <2>2. fault' # "erase" => fault # "erase"
      BY DEF StartSave
    <2>3. CASE found
      <3>1. pc' = "erase" /\ changing' = {v}
        BY <2>3 DEF StartSave, Note
      <3> QED BY <2>1, <2>2, <2>3, <3>1 DEF FlashInv
    <2>4. CASE ~found
      <3>1. pc' = "idle"
        BY <2>4 DEF StartSave
      <3> QED BY <2>4, <3>1 DEF FlashInv
    <2> QED BY <2>3, <2>4
  <1>8. OthersSurvive' /\ SavedIsCurrent'
    BY StartSaveCases DEF Ready, OthersSurvive, SavedIsCurrent
  <1> QED BY <1>2, <1>3, <1>4, <1>5, <1>6, <1>7, <1>8

LEMMA SetenvStep ==
    ASSUME EnvironmentInv, NEW v \in Vars, NEW x \in Values, setenv(v, x)
    PROVE  EnvironmentInv'
  <1> DEFINE t == Target(v)
  <1> DEFINE c == [live |-> TRUE, var |-> v, val |-> x]
  <1>1. t \in Chunks /\ environ' = [environ EXCEPT !.chunk[t] = c]
    BY DEF setenv
  <1>2. c \in Chunk
    BY DEF Chunk
  <1>3. environ \in Areas
    BY DEF EnvironmentInv, TypeOK
  <1> HIDE DEF t
  <1>4. /\ environ' \in Areas /\ environ'.id = environ.id /\ environ'.chunk[t] = c
        /\ \A i \in Chunks : i # t => environ'.chunk[i] = environ.chunk[i]
    <2> HIDE DEF c
    <2> QED BY <1>1, <1>2, <1>3, PutChunk
  <1>5. \/ /\ InArea(environ, t, v)
        \/ /\ ~environ.chunk[t].live
           /\ \A j \in Chunks : ~InArea(environ, j, v)
           /\ \A j \in Chunks : ~environ.chunk[j].live => t <= j
    BY <1>1, TargetCases DEF t
  <1>6. Unique(environ) => Unique(environ')
    BY <1>1, <1>4, <1>5 DEF Unique, InArea
  <1>7. ASSUME Unique(environ), GhostsBehind(environ, Vars) PROVE GhostsBehind(environ', Vars)
    <2> SUFFICES ASSUME NEW u \in Vars, NEW g \in Chunks, NEW i \in Chunks,
                        ~environ'.chunk[g].live, environ'.chunk[g].var = u, InArea(environ', i, u)
                 PROVE  i < g
      BY DEF GhostsBehind
    <2>1. g # t /\ environ'.chunk[g] = environ.chunk[g]
      BY <1>4
    <2>2. CASE i # t
      BY <1>4, <1>7, <2>1, <2>2 DEF GhostsBehind, InArea
    <2>3. CASE i = t
      <3>1. u = v
        BY <1>4, <2>3 DEF InArea
      <3>2. CASE InArea(environ, t, v)
        BY <1>7, <2>1, <2>3, <3>1, <3>2 DEF GhostsBehind
      <3>3. CASE \A j \in Chunks : ~environ.chunk[j].live => t <= j
        BY <2>1, <2>3, <3>3, ChunksNat
      <3> QED BY <1>5, <3>2, <3>3
    <2> QED BY <2>2, <2>3
  <1>8. /\ Ready /\ StartSave /\ Note({v})
        /\ UNCHANGED <<kind, power, store, found, next, cuts>>
    BY DEF setenv
  <1>9. /\ environ.chunk[t].live => environ.chunk[t].var = v
        /\ environ'.chunk[t].live => environ'.chunk[t].var = v
    BY <1>4, <1>5 DEF InArea
  <1> HIDE DEF c
  <1> QED BY <1>1, <1>4, <1>6, <1>7, <1>8, <1>9, EditStep

LEMMA UnsetenvStep ==
    ASSUME EnvironmentInv, NEW v \in Vars, unsetenv(v)
    PROVE  EnvironmentInv'
  <1> DEFINE t == Min(Holds(environ, v))
  <1>1. t \in Chunks /\ InArea(environ, t, v)
    <2>1. Holds(environ, v) \in SUBSET Nat /\ Holds(environ, v) # {}
      BY ChunksNat DEF Holds, unsetenv
    <2> QED BY <2>1, MinNat DEF Holds, InArea
  <1>2. environ' = [environ EXCEPT !.chunk[t].live = FALSE]
    BY DEF unsetenv
  <1>3. environ \in Areas
    BY DEF EnvironmentInv, TypeOK
  <1> HIDE DEF t
  <1>4. /\ environ' \in Areas /\ environ'.id = environ.id
        /\ ~environ'.chunk[t].live /\ environ'.chunk[t].var = environ.chunk[t].var
        /\ \A i \in Chunks : i # t => environ'.chunk[i] = environ.chunk[i]
    BY <1>1, <1>2, <1>3, ClearChunk
  <1>5. Unique(environ) => Unique(environ')
    BY <1>4 DEF Unique, InArea
  <1>6. ASSUME Unique(environ), GhostsBehind(environ, Vars) PROVE GhostsBehind(environ', Vars)
    <2> SUFFICES ASSUME NEW u \in Vars, NEW g \in Chunks, NEW i \in Chunks,
                        ~environ'.chunk[g].live, environ'.chunk[g].var = u, InArea(environ', i, u)
                 PROVE  i < g
      BY DEF GhostsBehind
    <2>1. i # t /\ InArea(environ, i, u)
      BY <1>4 DEF InArea
    <2>2. g # t
      BY <1>1, <1>4, <1>6, <2>1 DEF Unique, InArea
    <2> QED BY <1>4, <1>6, <2>1, <2>2 DEF GhostsBehind
  <1>7. /\ Ready /\ StartSave /\ Note({v})
        /\ UNCHANGED <<kind, power, store, found, next, cuts>>
    BY DEF unsetenv
  <1>8. environ.chunk[t].live => environ.chunk[t].var = v
    BY <1>1 DEF InArea
  <1> QED BY <1>1, <1>4, <1>5, <1>6, <1>7, <1>8, EditStep

LEMMA ResetenvStep == EnvironmentInv /\ resetenv => EnvironmentInv'
  <1> SUFFICES ASSUME EnvironmentInv, resetenv PROVE EnvironmentInv'
    OBVIOUS
  <1> USE DEF EnvironmentInv
  <1>1. /\ environ' = Filled(FALSE, Noise) /\ environ' \in Areas /\ ~environ'.id
        /\ \A i \in Chunks : environ'.chunk[i] = Noise
        /\ Ready /\ StartSave /\ next' = "reset" /\ changing' = Vars
        /\ UNCHANGED <<kind, power, store, found, cuts>>
    BY FilledType, EmptyChunks DEF resetenv, Note
  <1>2. \A v \in Vars, i \in Chunks : ~InArea(environ', i, v)
    BY <1>1, EmptyChunks DEF InArea
  <1>3. TypeOK'
    <2>1. known' \in [Vars -> Values \cup {Torn, None}]
      BY KnownType DEF resetenv, Note, TypeOK
    <2>2. /\ pc' \in {"idle", "erase", "write"} /\ at' \in 0 .. NVARS
          /\ fault' \in {"none", "write", "erase"}
      BY <1>1, EnvironmentAssumption DEF StartSave, TypeOK
    <2> QED BY <1>1, <2>1, <2>2 DEF TypeOK
  <1>4. ProgressInv'
    <2>1. \A i \in Chunks : ~(i < 0)
      BY ChunksNat
    <2>2. /\ at' = 0
          /\ pc' = "erase" => kind = "flash"
          /\ pc' # "idle" => found
      BY <1>1, StartSaveCases
    <2>3. kind = "nvram" => fault' = "none"
      BY <1>1 DEF ProgressInv, StartSave
    <2> QED BY <1>1, <2>1, <2>2, <2>3, EnvironmentAssumption DEF ProgressInv, Filled
  <1>5. UncutInv'
    <2>1. Unique(environ') /\ GhostsBehind(environ', Vars)
      BY <1>2 DEF Unique, GhostsBehind
    <2>2. cuts = 0 => fault' = "none"
      BY <1>1 DEF UncutInv, Ready, StartSave
    <2> QED BY <1>1, <2>1, <2>2 DEF UncutInv, Ready
  <1>6. KnownInv' /\ OthersSurvive' /\ SavedIsCurrent'
    BY <1>1 DEF KnownInv, OthersSurvive, SavedIsCurrent, Ready
  <1>7. NvramInv'
    BY <1>1 DEF NvramInv, GhostsBehind
  <1>8. FlashInv'
    <2> SUFFICES ASSUME kind = "flash" PROVE FlashInv'
      BY <1>1 DEF FlashInv
    <2>1. pc' = IF found THEN "erase" ELSE "idle"
      BY <1>1 DEF StartSave
    <2> QED BY <1>1, <2>1 DEF FlashInv
  <1> QED BY <1>3, <1>4, <1>5, <1>6, <1>7, <1>8

LEMMA FinishResetStep == EnvironmentInv /\ FinishReset => EnvironmentInv'
  <1> SUFFICES ASSUME EnvironmentInv, FinishReset PROVE EnvironmentInv'
    OBVIOUS
  <1> USE DEF EnvironmentInv
  <1>1. /\ environ' \in Areas /\ environ'.id
        /\ \A i \in Chunks : ~environ'.chunk[i].live
        /\ power /\ pc = "idle" /\ StartSave /\ next' = "idle"
        /\ UNCHANGED <<kind, power, store, found, changing, known>>
    <2> DEFINE c(i) == IF found THEN [store.chunk[i] EXCEPT !.live = FALSE] ELSE Blank
    <2>1. \A i \in Chunks : store.chunk[i] \in Chunk
      BY DEF TypeOK, Areas
    <2>2. \A i \in Chunks : c(i) \in Chunk /\ ~c(i).live
      BY <2>1, EmptyChunks DEF Chunk
    <2>3. environ' = [id |-> TRUE, chunk |-> [i \in Chunks |-> c(i)]]
      BY DEF FinishReset
    <2> HIDE DEF c
    <2>4. environ' \in Areas /\ environ'.id /\ \A i \in Chunks : ~environ'.chunk[i].live
      BY <2>2, <2>3 DEF Areas
    <2> QED BY <2>4 DEF FinishReset
  <1>2. \A v \in Vars, i \in Chunks : ~InArea(environ', i, v)
    BY <1>1 DEF InArea
  <1>3. changing' = Vars
    BY DEF FinishReset, ProgressInv
  <1>4. TypeOK'
    <2>1. cuts' \in 0 .. 2
      BY DEF TypeOK, FinishReset
    <2> QED BY <1>1, <2>1, EnvironmentAssumption DEF TypeOK, StartSave
  <1>5. ProgressInv'
    BY <1>1, ChunksNat, EnvironmentAssumption DEF TypeOK, ProgressInv, StartSave
  <1>6. UncutInv'
    <2>1. Unique(environ') /\ GhostsBehind(environ', Vars)
      BY <1>2 DEF Unique, GhostsBehind
    <2>2. cuts' = 0 => found
      BY DEF FinishReset, UncutInv
    <2>3. found => pc' # "idle"
      BY <1>1 DEF StartSave, TypeOK
    <2>4. found /\ pc' # "erase" => fault' = "none"
      BY <1>1 DEF StartSave, TypeOK, ProgressInv
    <2> QED BY <1>1, <2>1, <2>2, <2>3, <2>4 DEF UncutInv
  <1>7. KnownInv' /\ OthersSurvive' /\ SavedIsCurrent'
    BY <1>1, <1>3, StartSaveCases DEF KnownInv, OthersSurvive, SavedIsCurrent
  <1>8. NvramInv'
    BY <1>1, <1>3 DEF NvramInv, GhostsBehind, StartSave
  <1>9. FlashInv'
    <2> SUFFICES ASSUME kind = "flash" PROVE FlashInv'
      BY <1>1 DEF FlashInv
    <2>1. pc' = IF found THEN "erase" ELSE "idle"
      BY <1>1 DEF StartSave
    <2> QED BY <1>1, <1>3, <2>1 DEF FlashInv
  <1> QED BY <1>4, <1>5, <1>6, <1>7, <1>8, <1>9

LEMMA EraseStep == EnvironmentInv /\ delete_flash_block => EnvironmentInv'
  <1> SUFFICES ASSUME EnvironmentInv, delete_flash_block PROVE EnvironmentInv'
    OBVIOUS
  <1> USE DEF EnvironmentInv
  <1>1. /\ store' \in Areas /\ ~store'.id
        /\ \A i \in Chunks : store'.chunk[i] = Noise
        /\ power /\ pc = "erase" /\ pc' = "write" /\ fault' = "none"
        /\ UNCHANGED <<kind, power, environ, found, at, next, changing, known, cuts>>
    BY FilledType, EmptyChunks DEF delete_flash_block
  <1>2. \A v \in Vars, i \in Chunks : ~InArea(store', i, v)
    BY <1>1, EmptyChunks DEF InArea
  <1>3. kind = "flash" /\ at = 0 /\ found
    BY <1>1 DEF ProgressInv
  <1>4. TypeOK'
    BY <1>1 DEF TypeOK
  <1>5. ProgressInv'
    <2>1. \A i \in Chunks : ~(i < 0)
      BY ChunksNat
    <2> QED BY <1>1, <1>3, <2>1, EnvironmentAssumption DEF ProgressInv, Filled
  <1>6. UncutInv'
    <2>1. /\ Unique(environ)' <=> Unique(environ)
          /\ GhostsBehind(environ, Vars)' <=> GhostsBehind(environ, Vars)
      BY <1>1 DEF Unique, GhostsBehind, InArea
    <2> QED BY <1>1, <2>1 DEF UncutInv
  <1>7. KnownInv'
    BY <1>1 DEF KnownInv, getenv, Holds
  <1>8. NvramInv' /\ OthersSurvive' /\ SavedIsCurrent'
    BY <1>1, <1>3 DEF NvramInv, OthersSurvive, SavedIsCurrent
  <1>9. FlashInv'
    BY <1>1, <1>2, <1>3 DEF FlashInv, Prefix
  <1> QED BY <1>4, <1>5, <1>6, <1>7, <1>8, <1>9

\* The count of saves cut short goes up, and stays at 2.
LEMMA CutsCount ==
    ASSUME TypeOK
    PROVE  Min({cuts + 1, 2}) \in 1 .. 2 /\ (cuts # 0 => Min({cuts + 1, 2}) = 2)
  <1>1. cuts \in 0 .. 2 /\ {cuts + 1, 2} \in SUBSET Nat /\ {cuts + 1, 2} # {}
    BY DEF TypeOK
  <1>2. /\ Min({cuts + 1, 2}) \in {cuts + 1, 2}
        /\ \A y \in {cuts + 1, 2} : Min({cuts + 1, 2}) <= y
    BY <1>1, MinNat
  <1> QED BY <1>1, <1>2

\* The block after an erase that stopped early is still an area.
LEMMA StopErasingType ==
    ASSUME store \in Areas, StopErasing
    PROVE  store' \in Areas /\ fault' = "erase" /\ (store'.id => store.id)
  <1>1. PICK id \in {store.id, FALSE}, f \in [Chunks -> 1 .. 4] :
           store' = [id |-> id, chunk |-> [i \in Chunks |->
               <<store.chunk[i], Damaged(store.chunk[i]), Noise, Blank>>[f[i]]]]
    BY DEF StopErasing
  <1> DEFINE c(i) == <<store.chunk[i], Damaged(store.chunk[i]), Noise, Blank>>[f[i]]
  <1>2. ASSUME NEW i \in Chunks PROVE c(i) \in Chunk
    <2>1. store.chunk[i] \in Chunk /\ f[i] \in 1 .. 4
      BY DEF Areas
    <2>2. Damaged(store.chunk[i]) \in Chunk
      BY <2>1, EmptyChunks DEF Damaged, Chunk
    <2> QED BY <2>1, <2>2, EmptyChunks
  <1>3. store' = [id |-> id, chunk |-> [i \in Chunks |-> c(i)]]
    BY <1>1
  <1> HIDE DEF c
  <1>4. id \in BOOLEAN /\ (id => store.id)
    BY DEF Areas
  <1> QED BY <1>2, <1>3, <1>4 DEF Areas, StopErasing

\* After an erase that failed there is nothing to rely on.
LEMMA EraseFailsStep == EnvironmentInv /\ EraseFails => EnvironmentInv'
  <1> SUFFICES ASSUME EnvironmentInv, EraseFails PROVE EnvironmentInv'
    OBVIOUS
  <1> USE DEF EnvironmentInv
  <1>1. /\ power /\ pc = "erase" /\ pc' = "write" /\ StopErasing /\ OneMoreCut
        /\ UNCHANGED <<kind, power, environ, found, at, next, changing, known>>
    BY DEF EraseFails
  <1>2. store' \in Areas /\ fault' = "erase" /\ (store'.id => store.id)
    BY <1>1, StopErasingType DEF TypeOK
  <1>3. cuts' \in 1 .. 2 /\ cuts' # 0
    BY <1>1, CutsCount DEF OneMoreCut
  <1>4. kind = "flash" /\ at = 0 /\ found
    BY <1>1 DEF ProgressInv
  <1>5. TypeOK'
    BY <1>1, <1>2, <1>3 DEF TypeOK
  <1>6. ProgressInv'
    BY <1>1, <1>2, <1>4, EnvironmentAssumption DEF ProgressInv, Filled
  <1>7. KnownInv'
    BY <1>1 DEF KnownInv, getenv, Holds
  <1>8. UncutInv' /\ NvramInv' /\ OthersSurvive' /\ SavedIsCurrent'
    BY <1>1, <1>2, <1>3, <1>4 DEF UncutInv, NvramInv, OthersSurvive, SavedIsCurrent
  <1>9. FlashInv'
    BY <1>1, <1>2, <1>4 DEF FlashInv
  <1> QED BY <1>5, <1>6, <1>7, <1>8, <1>9

\* One chunk is written, over what may be left of an old text.
LEMMA WriteChunkEffect ==
    ASSUME EnvironmentInv, WriteChunk
    PROVE  /\ store' \in Areas
           /\ fault # "erase" =>
                /\ store'.id = environ.id
                /\ \A i \in Chunks : store'.chunk[i] =
                       IF i = at THEN environ.chunk[i] ELSE store.chunk[i]
  <1> USE DEF EnvironmentInv
  <1>1. /\ at \in Nat /\ at < NVARS /\ (at # 0 => at \in Chunks)
        /\ environ \in Areas /\ store \in Areas /\ power /\ pc = "write"
    BY EnvironmentAssumption DEF WriteChunk, TypeOK, ProgressInv, Chunks
  <1>2. CASE at = 0
    <2>1. PICK id \in WrittenId : store' = [store EXCEPT !.id = id]
      BY <1>2 DEF WriteChunk
    <2>2. id \in BOOLEAN /\ (fault # "erase" => id = environ.id)
      BY <1>1 DEF WrittenId, Areas
    <2> QED BY <1>1, <1>2, <2>1, <2>2, ChunksNat DEF Areas
  <1>3. CASE at # 0
    <2>1. PICK c \in Written(store.chunk[at], environ.chunk[at]) :
              store' = [store EXCEPT !.chunk[at] = c]
      BY <1>3 DEF WriteChunk
    <2>2. at \in Chunks /\ store.chunk[at] \in Chunk /\ environ.chunk[at] \in Chunk
      BY <1>1, <1>3 DEF Areas
    <2>3. c \in Chunk /\ (fault # "erase" => c = environ.chunk[at])
      BY <2>2, OverType DEF Written
    <2>4. fault # "erase" => store.id = environ.id
      BY <1>1, <1>3 DEF ProgressInv
    <2> QED BY <1>1, <2>1, <2>2, <2>3, <2>4, PutChunk
  <1> QED BY <1>2, <1>3

\* Over a block that was not erased a save writes what it may.
LEMMA WriteOverStep ==
    ASSUME EnvironmentInv, WriteChunk, fault = "erase"
    PROVE  EnvironmentInv'
  <1> USE DEF EnvironmentInv
  <1>1. /\ power /\ pc = "write" /\ at' = at + 1
        /\ pc' = IF at = NVARS - 1 THEN "idle" ELSE "write"
        /\ UNCHANGED <<kind, power, environ, found, next, changing, known, fault, cuts>>
    BY DEF WriteChunk, LastChunk, history
  <1>2. at \in Nat /\ at < NVARS
    BY <1>1, EnvironmentAssumption DEF TypeOK, ProgressInv
  <1>3. kind = "flash" /\ found /\ cuts # 0
    BY <1>1 DEF ProgressInv, UncutInv, TypeOK
  <1>4. TypeOK'
    <2>1. at' \in 0 .. NVARS
      BY <1>1, <1>2, EnvironmentAssumption
    <2> QED BY <1>1, <2>1, WriteChunkEffect DEF TypeOK
  <1>5. ProgressInv'
    <2>1. at + 1 < NVARS \/ pc' = "idle"
      BY <1>1, <1>2, EnvironmentAssumption
    <2> QED BY <1>1, <1>3, <2>1 DEF ProgressInv, Filled
  <1>6. KnownInv'
    BY <1>1 DEF KnownInv, getenv, Holds
  <1>7. UncutInv' /\ NvramInv' /\ OthersSurvive' /\ SavedIsCurrent'
    BY <1>1, <1>3 DEF UncutInv, NvramInv, OthersSurvive, SavedIsCurrent
  <1>8. FlashInv'
    BY <1>1, <1>3 DEF FlashInv
  <1> QED BY <1>4, <1>5, <1>6, <1>7, <1>8

LEMMA WriteCleanStep ==
    ASSUME EnvironmentInv, WriteChunk, fault # "erase"
    PROVE  EnvironmentInv'
  <1> USE DEF EnvironmentInv
  <1>1. /\ power /\ pc = "write" /\ at' = at + 1
        /\ pc' = IF at = NVARS - 1 THEN "idle" ELSE "write"
        /\ UNCHANGED <<kind, power, environ, found, next, changing, known, fault, cuts>>
    BY DEF WriteChunk, LastChunk, history
  <1>2. /\ at \in Nat /\ at < NVARS /\ (at # 0 => at \in Chunks)
        /\ environ \in Areas /\ store \in Areas
    BY <1>1, EnvironmentAssumption DEF TypeOK, ProgressInv, Chunks
  <1>3. /\ store' \in Areas /\ store'.id = environ.id
        /\ \A i \in Chunks : store'.chunk[i] =
               IF i = at THEN environ.chunk[i] ELSE store.chunk[i]
    BY WriteChunkEffect
  <1>4. \A i \in Chunks : i <= at => store'.chunk[i] = environ.chunk[i]
    BY <1>1, <1>2, <1>3, ChunksNat DEF ProgressInv
  <1>5. pc' = "idle" => store' = environ
    <2> SUFFICES ASSUME at = NVARS - 1 PROVE store' = environ
      BY <1>1
    <2>1. \A i \in Chunks : i <= at
      BY <1>2 DEF Chunks
    <2> QED BY <1>2, <1>3, <1>4, <2>1, AreasEqual
  <1>6. TypeOK'
    BY <1>1, <1>2, <1>3, EnvironmentAssumption DEF TypeOK
  <1>7. ProgressInv'
    <2>1. \A i \in Chunks : i < at + 1 => store'.chunk[i] = environ.chunk[i]
      BY <1>2, <1>4, ChunksNat
    <2>2. at + 1 < NVARS \/ pc' = "idle"
      BY <1>1, <1>2, EnvironmentAssumption
    <2> QED BY <1>1, <1>2, <1>3, <2>1, <2>2 DEF ProgressInv, Filled
  <1>8. UncutInv'
    <2>1. /\ Unique(environ)' <=> Unique(environ)
          /\ GhostsBehind(environ, Vars)' <=> GhostsBehind(environ, Vars)
      BY <1>1 DEF Unique, GhostsBehind, InArea
    <2> QED BY <1>1, <1>5, <2>1 DEF UncutInv
  <1>9. KnownInv' /\ OthersSurvive' /\ SavedIsCurrent'
    BY <1>1, <1>5 DEF KnownInv, getenv, Holds, OthersSurvive, SavedIsCurrent
  <1>10. NvramInv'
    <2> SUFFICES ASSUME kind = "nvram" PROVE NvramInv'
      BY <1>1 DEF NvramInv
    <2>1. \A i \in Chunks :
              \/ store'.chunk[i] = environ.chunk[i]
              \/ \A v \in Vars \ changing : ~InArea(store', i, v) /\ ~InArea(environ, i, v)
      BY <1>1, <1>3 DEF NvramInv, InArea
    <2>2. ASSUME cuts = 0 PROVE GhostsBehind(store', Vars \ changing)
      <3> SUFFICES ASSUME NEW v \in Vars \ changing, NEW g \in Chunks, NEW i \in Chunks,
                          ~store'.chunk[g].live, store'.chunk[g].var = v, InArea(store', i, v)
                   PROVE  i < g
        BY DEF GhostsBehind
      <3>1. InArea(store, i, v) /\ InArea(environ, i, v)
        BY <1>1, <1>3 DEF NvramInv, InArea
      <3>2. CASE store'.chunk[g] = environ.chunk[g]
        BY <2>2, <3>1, <3>2 DEF UncutInv, GhostsBehind
      <3>3. CASE store'.chunk[g] = store.chunk[g]
        BY <1>1, <2>2, <3>1, <3>3 DEF NvramInv, GhostsBehind
      <3> QED BY <1>3, <3>2, <3>3
    <2>3. GhostsBehind(store', Vars \ changing) => GhostsBehind(store, Vars \ changing)'
      BY <1>1 DEF GhostsBehind, InArea
    <2> QED BY <1>1, <1>5, <2>1, <2>2, <2>3 DEF NvramInv, InArea
  <1>11. FlashInv'
    <2> SUFFICES ASSUME kind = "flash" PROVE FlashInv'
      BY <1>1 DEF FlashInv
    <2>1. \A i \in Chunks : at < i => store'.chunk[i] = Noise
      <3>1. \A i \in Chunks : at <= i => store.chunk[i] = Noise
        BY <1>1 DEF FlashInv
      <3> QED BY <1>2, <1>3, <3>1, ChunksNat
    <2>2. \A v \in Vars, i \in Chunks : InArea(store', i, v) => i <= at /\ InArea(environ, i, v)
      <3> SUFFICES ASSUME NEW v \in Vars, NEW i \in Chunks, InArea(store', i, v)
                   PROVE  i <= at /\ InArea(environ, i, v)
        OBVIOUS
      <3>1. ~(at < i)
        BY <2>1, EmptyChunks DEF InArea
      <3>2. i <= at
        BY <1>2, <3>1, ChunksNat
      <3> QED BY <1>4, <3>2 DEF InArea
    <2>3. ASSUME NEW v \in Vars PROVE Prefix(v)'
      BY <1>1, <1>2, <1>4, <2>2, ChunksNat DEF Prefix, InArea
    <2>4. at' # 0 /\ \A i \in Chunks : at' <= i => store'.chunk[i] = Noise
      <3>1. at + 1 # 0 /\ \A i \in Chunks : at + 1 <= i => at < i
        BY <1>2, ChunksNat
      <3>2. at' # 0 /\ \A i \in Chunks : at' <= i => at < i
        BY <1>1, <3>1
      <3> QED BY <2>1, <3>2
    <2>5. found
      BY <1>1 DEF ProgressInv
    <2> QED BY <1>1, <2>3, <2>4, <2>5 DEF FlashInv
  <1> QED BY <1>6, <1>7, <1>8, <1>9, <1>10, <1>11

LEMMA WriteChunkStep == EnvironmentInv /\ WriteChunk => EnvironmentInv'
  BY WriteOverStep, WriteCleanStep

\* Writing that stops touches no chunk but the one it was at.
LEMMA StopWritingEffect ==
    ASSUME EnvironmentInv, pc = "write", StopWriting
    PROVE  /\ store' \in Areas /\ (store'.id => store.id)
           /\ \A i \in Chunks : i # at => store'.chunk[i] = store.chunk[i]
           /\ at \in Chunks /\ fault # "erase" =>
                store'.chunk[at] \in CutShort(store.chunk[at], environ.chunk[at])
  <1> USE DEF EnvironmentInv
  <1>1. environ \in Areas /\ store \in Areas
    BY DEF TypeOK
  <1>2. CASE at \in Chunks
    <2>1. PICK c \in Stopped(store.chunk[at], environ.chunk[at]) :
              store' = [store EXCEPT !.chunk[at] = c]
      BY <1>2, ChunksNat DEF StopWriting
    <2>2. store.chunk[at] \in Chunk /\ environ.chunk[at] \in Chunk
      BY <1>1, <1>2 DEF Areas
    <2>3. /\ c \in Chunk
          /\ fault # "erase" => c \in CutShort(store.chunk[at], environ.chunk[at])
      BY <2>2, CutShortCases, OverType DEF Stopped
    <2> QED BY <1>1, <1>2, <2>1, <2>3, PutChunk
  <1>3. CASE at = 0
    <2>1. PICK id \in {store.id, store.id /\ environ.id} : store' = [store EXCEPT !.id = id]
      BY <1>3 DEF StopWriting
    <2>2. id \in BOOLEAN /\ (id => store.id)
      BY <1>1 DEF Areas
    <2> QED BY <1>1, <1>3, <2>1, <2>2, ChunksNat DEF Areas
  <1>4. at = 0 \/ at \in Chunks
    BY EnvironmentAssumption DEF TypeOK, ProgressInv, Chunks
  <1> QED BY <1>2, <1>3, <1>4

\* A save to flash that stops leaves the beginning of the working area.
LEMMA FlashCut ==
    ASSUME EnvironmentInv, kind = "flash", power, pc = "write", fault # "erase",
           StopWriting, UNCHANGED environ
    PROVE  \A v \in Vars : Prefix(v)'
  <1> USE DEF EnvironmentInv
  <1>1. /\ environ \in Areas /\ store \in Areas /\ at \in Nat
        /\ \A i \in Chunks : i < at => store.chunk[i] = environ.chunk[i]
        /\ \A i \in Chunks : at <= i => store.chunk[i] = Noise
    BY DEF TypeOK, ProgressInv, FlashInv
  <1>2. /\ \A i \in Chunks : i # at => store'.chunk[i] = store.chunk[i]
        /\ at \in Chunks => store'.chunk[at] \in CutShort(store.chunk[at], environ.chunk[at])
    BY StopWritingEffect
  <1>3. ASSUME at \in Chunks, NEW v \in Vars, InArea(store', at, v)
        PROVE  InArea(environ, at, v) /\ store'.chunk[at].val \in {environ.chunk[at].val, Torn}
    <2>1. store.chunk[at] = Noise /\ environ.chunk[at] \in Chunk /\ Noise \in Chunk
      BY <1>1, <1>3, EmptyChunks DEF Areas
    <2>2. \/ store'.chunk[at] = Noise \/ store'.chunk[at] = environ.chunk[at]
          \/ /\ environ.chunk[at].live /\ store'.chunk[at].var = environ.chunk[at].var
             /\ store'.chunk[at].val = Torn
      BY <1>2, <1>3, <2>1, CutShortCases, EmptyChunks
    <2> QED BY <1>3, <2>2, EmptyChunks DEF InArea
  <1>4. ASSUME NEW v \in Vars, NEW i \in Chunks, InArea(store', i, v)
        PROVE  i <= at
    <2> SUFFICES ASSUME at < i PROVE FALSE
      BY <1>1, ChunksNat
    <2>1. i # at /\ at <= i
      BY <1>1, ChunksNat
    <2> QED BY <1>1, <1>2, <1>4, <2>1, EmptyChunks DEF InArea
  <1>5. ASSUME NEW v \in Vars, NEW i \in Chunks, InArea(store', i, v)
        PROVE  InArea(environ, i, v) /\ store'.chunk[i].val \in {environ.chunk[i].val, Torn}
    <2>1. CASE i = at
      BY <1>3, <1>5, <2>1
    <2>2. CASE i # at
      <3>1. i < at
        BY <1>1, <1>4, <1>5, <2>2, ChunksNat
      <3> QED BY <1>1, <1>2, <1>5, <2>2, <3>1 DEF InArea
    <2> QED BY <2>1, <2>2
  <1>6. ASSUME NEW v \in Vars PROVE Prefix(v)'
    <2> SUFFICES ASSUME NEW i \in Chunks, InArea(store', i, v)
                 PROVE  /\ InArea(environ, i, v)
                        /\ store'.chunk[i].val \in {environ.chunk[i].val, Torn}
                        /\ \A j \in Chunks : j < i /\ InArea(environ, j, v) => InArea(store', j, v)
      BY DEF Prefix, InArea
    <2>1. ASSUME NEW j \in Chunks, j < i, InArea(environ, j, v) PROVE InArea(store', j, v)
      <3>1. j < at /\ j # at
        BY <1>1, <1>4, <2>1, ChunksNat
      <3> QED BY <1>1, <1>2, <2>1, <3>1 DEF InArea
    <2> QED BY <1>5, <2>1
  <1> QED BY <1>6

\* A save to battery-backed RAM that stops costs no variable but the one
\* being changed: a deleted one that comes back is behind the others.
LEMMA NvramCut ==
    ASSUME EnvironmentInv, kind = "nvram", power, pc = "write", cuts = 0, StopWriting,
           NEW v \in Vars \ changing, known[v] # None
    PROVE  getenv(store', v) = known[v]
  <1> USE DEF EnvironmentInv
  <1>1. PICK k \in Chunks : /\ InArea(environ, k, v)
                            /\ \A j \in Chunks : InArea(environ, j, v) => k <= j
                            /\ known[v] = environ.chunk[k].val
    BY GetenvCases DEF KnownInv
  <1>2. /\ \A i \in Chunks : i # at => store'.chunk[i] = store.chunk[i]
        /\ at \in Chunks => store'.chunk[at] \in CutShort(store.chunk[at], environ.chunk[at])
    BY StopWritingEffect DEF ProgressInv
  <1>3. \A i \in Chunks : \/ store.chunk[i] = environ.chunk[i]
                          \/ ~InArea(store, i, v) /\ ~InArea(environ, i, v)
    BY DEF NvramInv
  <1>4. store.chunk[k] = environ.chunk[k]
    BY <1>1, <1>3
  <1>5. store'.chunk[k] = environ.chunk[k]
    <2>1. CASE k = at
      <3>1. CutShort(store.chunk[at], environ.chunk[at]) = {environ.chunk[at]}
        BY <1>4, <2>1 DEF CutShort
      <3> QED BY <1>2, <2>1, <3>1
    <2> QED BY <1>2, <1>4, <2>1
  <1>6. ASSUME NEW i \in Chunks, InArea(store', i, v) PROVE k <= i
    <2>1. CASE InArea(store, i, v)
      BY <1>1, <1>3, <2>1 DEF InArea
    <2>2. CASE InArea(environ, i, v)
      BY <1>1, <2>2
    <2>3. CASE ~InArea(store, i, v) /\ ~InArea(environ, i, v)
      <3>1. i = at
        BY <1>2, <1>6, <2>3 DEF InArea
      <3>2. store.chunk[i] \in Chunk /\ environ.chunk[i] \in Chunk
        BY DEF TypeOK, Areas
      <3>3. store.chunk[i].var = v
        BY <1>2, <1>6, <2>3, <3>1, <3>2, CutShortCases, EmptyChunks DEF InArea
      <3>4. ~store.chunk[i].live
        BY <2>3, <3>3 DEF InArea
      <3>5. InArea(store, k, v)
        BY <1>1, <1>4 DEF InArea
      <3>6. k < i
        BY <3>3, <3>4, <3>5 DEF NvramInv, GhostsBehind
      <3> QED BY <3>6, ChunksNat
    <2> QED BY <2>1, <2>2, <2>3
  <1>7. InArea(store', k, v)
    BY <1>1, <1>5 DEF InArea
  <1>8. getenv(store', v) = store'.chunk[k].val
    BY <1>6, <1>7, GetenvFirst
  <1> QED BY <1>1, <1>5, <1>8

LEMMA WriteFailsStep == EnvironmentInv /\ WriteFails => EnvironmentInv'
  <1> SUFFICES ASSUME EnvironmentInv, WriteFails PROVE EnvironmentInv'
    OBVIOUS
  <1> USE DEF EnvironmentInv
  <1>1. /\ power /\ pc = "write" /\ kind = "flash" /\ StopWriting /\ pc' = "idle"
        /\ cuts' \in 1 .. 2 /\ cuts' # 0 /\ found
        /\ fault' \in {"write", "erase"} /\ (fault' # "erase" => fault # "erase")
        /\ UNCHANGED <<kind, power, environ, found, at, next, changing, known>>
    BY CutsCount DEF WriteFails, ProgressInv, OneMoreCut
  <1>2. store' \in Areas /\ (store'.id => store.id)
    BY <1>1, StopWritingEffect
  <1>3. fault' # "erase" => \A v \in Vars : Prefix(v)'
    BY <1>1, FlashCut
  <1>4. TypeOK'
    BY <1>1, <1>2 DEF TypeOK
  <1>5. ProgressInv'
    BY <1>1 DEF ProgressInv, Filled
  <1>6. UncutInv' /\ NvramInv' /\ OthersSurvive' /\ SavedIsCurrent'
    BY <1>1 DEF UncutInv, NvramInv, OthersSurvive, SavedIsCurrent
  <1>7. KnownInv'
    BY <1>1 DEF KnownInv, getenv, Holds
  <1>8. FlashInv'
    BY <1>1, <1>2, <1>3 DEF FlashInv
  <1> QED BY <1>4, <1>5, <1>6, <1>7, <1>8

LEMMA PowerFailsStep == EnvironmentInv /\ PowerFails => EnvironmentInv'
  <1> SUFFICES ASSUME EnvironmentInv, PowerFails PROVE EnvironmentInv'
    OBVIOUS
  <1> USE DEF EnvironmentInv
  <1>1. /\ power /\ ~power' /\ power' \in BOOLEAN
        /\ \/ pc = "write" /\ StopWriting /\ UNCHANGED fault
           \/ pc = "erase" /\ StopErasing
           \/ pc # "write" /\ UNCHANGED <<store, fault>>
        /\ cuts' \in 0 .. 2
        /\ pc # "idle" \/ next # "idle" => cuts' # 0 /\ (cuts # 0 => cuts' = 2)
        /\ pc = "idle" /\ next = "idle" => cuts' = cuts
        /\ UNCHANGED <<kind, environ, found, pc, at, next, changing, known>>
    <2>1. Min({cuts + 1, 2}) \in 1 .. 2 /\ (cuts # 0 => Min({cuts + 1, 2}) = 2)
      BY CutsCount
    <2>2. cuts \in 0 .. 2
      BY DEF TypeOK
    <2> DEFINE more == Min({cuts + 1, 2})
    <2>3. cuts' = IF pc # "idle" \/ next # "idle" THEN more ELSE cuts
      BY DEF PowerFails
    <2> HIDE DEF more
    <2>4. more \in 1 .. 2 /\ (cuts # 0 => more = 2)
      BY <2>1 DEF more
    <2>5. /\ cuts' \in 0 .. 2
          /\ pc # "idle" \/ next # "idle" => cuts' # 0 /\ (cuts # 0 => cuts' = 2)
          /\ pc = "idle" /\ next = "idle" => cuts' = cuts
      BY <2>2, <2>3, <2>4
    <2> QED BY <2>5 DEF PowerFails
  <1>2. store' \in Areas /\ (store'.id => store.id) /\ fault' \in {fault, "erase"}
    BY <1>1, StopWritingEffect, StopErasingType DEF TypeOK
  <1>3. TypeOK'
    BY <1>1, <1>2 DEF TypeOK
  <1>4. ProgressInv'
    <2>1. kind = "nvram" => fault' = "none"
      BY <1>1 DEF ProgressInv
    <2> QED BY <1>1, <2>1 DEF ProgressInv, Filled
  <1>5. UncutInv'
    <2>1. /\ Unique(environ)' <=> Unique(environ)
          /\ GhostsBehind(environ, Vars)' <=> GhostsBehind(environ, Vars)
      BY <1>1 DEF Unique, GhostsBehind, InArea
    <2> SUFFICES ASSUME cuts' = 0 PROVE UncutInv'
      BY DEF UncutInv
    <2>2. pc = "idle" /\ next = "idle" /\ cuts = 0 /\ store' = store /\ fault' = fault
      BY <1>1
    <2> QED BY <1>1, <2>1, <2>2 DEF UncutInv
  <1>6. KnownInv'
    BY <1>1 DEF KnownInv, getenv, Holds
  <1>7. NvramInv' /\ SavedIsCurrent'
    BY <1>1 DEF NvramInv, SavedIsCurrent
  <1>8. FlashInv'
    <2> SUFFICES ASSUME kind = "flash" PROVE FlashInv'
      BY <1>1 DEF FlashInv
    <2>1. CASE pc = "write"
      <3>1. fault' = fault
        BY <1>1, <2>1
      <3>2. fault' # "erase" => \A v \in Vars : Prefix(v)'
        BY <1>1, <2>1, <3>1, FlashCut
      <3> QED BY <1>1, <1>2, <3>2 DEF FlashInv
    <2>2. CASE fault' = "erase"
      BY <1>1, <1>2, <2>2 DEF FlashInv
    <2>3. CASE pc # "write" /\ fault' # "erase"
      <3>1. store' = store /\ environ' = environ /\ fault' = fault
        BY <1>1, <2>3, StopErasingType DEF TypeOK
      <3>2. \A v \in Vars : Prefix(v) <=> Prefix(v)'
        BY <3>1 DEF Prefix, InArea
      <3> QED BY <1>1, <3>1, <3>2 DEF FlashInv
    <2> QED BY <2>1, <2>2, <2>3
  <1>9. OthersSurvive'
    <2> SUFFICES ASSUME kind = "nvram", cuts' <= 1, NEW v \in Vars \ changing, known[v] # None
                 PROVE  getenv(store', v) = known[v]
      BY <1>1 DEF OthersSurvive, getenv, Holds
    <2>1. next = "idle"
      BY DEF ProgressInv, TypeOK
    <2>2. CASE pc = "write"
      <3>1. cuts = 0
        BY <1>1, <2>2
      <3> QED BY <1>1, <2>2, <3>1, NvramCut
    <2>3. CASE pc = "idle"
      <3>1. store' = environ
        BY <1>1, <2>1, <2>3 DEF NvramInv
      <3> QED BY <3>1 DEF KnownInv
    <2>4. pc # "erase"
      BY DEF ProgressInv
    <2> QED BY <2>2, <2>3, <2>4 DEF TypeOK
  <1> QED BY <1>3, <1>4, <1>5, <1>6, <1>7, <1>8, <1>9

LEMMA EnvInitStep == EnvironmentInv /\ env_init => EnvironmentInv'
  <1> SUFFICES ASSUME EnvironmentInv, env_init PROVE EnvironmentInv'
    OBVIOUS
  <1> USE DEF EnvironmentInv
  <1>1. /\ ~power /\ power' = TRUE
        /\ found' = (kind = "nvram" \/ store.id)
        /\ environ' = IF kind = "nvram" \/ store.id THEN store ELSE Filled(FALSE, Blank)
        /\ pc' = "idle" /\ at' = 0 /\ next' = "idle" /\ fault' = "none"
        /\ changing' = {} /\ known' = [v \in Vars |-> getenv(environ', v)]
        /\ UNCHANGED <<kind, store, cuts>>
    BY DEF env_init, NextRunShows
  <1>2. environ' \in Areas /\ store \in Areas /\ store.id \in BOOLEAN
    BY <1>1, FilledType, EmptyChunks DEF TypeOK, Areas
  <1>3. TypeOK'
    <2>1. found' \in BOOLEAN
      BY <1>1
    <2>2. known' \in [Vars -> Values \cup {Torn, None}]
      BY <1>1, <1>2, KnownType
    <2>3. power' \in BOOLEAN /\ at' \in 0 .. NVARS /\ changing' \subseteq Vars
      BY <1>1, EnvironmentAssumption
    <2>4. pc' \in {"idle", "erase", "write"} /\ next' \in {"idle", "reset"}
      BY <1>1
    <2> QED BY <1>1, <1>2, <2>1, <2>2, <2>3, <2>4 DEF TypeOK
  <1>4. ProgressInv'
    BY <1>1 DEF ProgressInv
  <1>5. cuts = 0 => store = environ /\ found' /\ environ' = environ /\ environ.id
    BY <1>1 DEF UncutInv
  <1>6. UncutInv'
    <2> SUFFICES ASSUME cuts = 0 PROVE UncutInv'
      BY <1>1 DEF UncutInv
    <2>1. /\ Unique(environ)' <=> Unique(environ)
          /\ GhostsBehind(environ, Vars)' <=> GhostsBehind(environ, Vars)
      BY <1>5 DEF Unique, GhostsBehind, InArea
    <2> QED BY <1>1, <1>5, <2>1 DEF UncutInv
  <1>7. KnownInv'
    BY <1>1 DEF KnownInv, getenv, Holds
  <1>8. NvramInv'
    <2> SUFFICES ASSUME kind = "nvram" PROVE NvramInv'
      BY <1>1 DEF NvramInv
    <2>1. environ' = store
      BY <1>1
    <2>2. cuts = 0 => GhostsBehind(store, Vars \ changing)'
      BY <1>1, <1>5 DEF UncutInv, GhostsBehind, InArea
    <2> QED BY <1>1, <2>1, <2>2 DEF NvramInv
  <1>9. FlashInv'
    <2> SUFFICES ASSUME kind = "flash" PROVE FlashInv'
      BY <1>1 DEF FlashInv
    <2>1. CASE store.id
      <3>1. environ' = store /\ store' = store
        BY <1>1, <2>1
      <3>2. \A v \in Vars : Prefix(v)'
        BY <3>1 DEF Prefix, InArea
      <3> QED BY <1>1, <2>1, <3>1, <3>2 DEF FlashInv
    <2>2. CASE ~store.id
      BY <1>1, <2>2 DEF FlashInv
    <2> QED BY <2>1, <2>2
  <1>10. OthersSurvive' /\ SavedIsCurrent'
    BY <1>1 DEF OthersSurvive, SavedIsCurrent
  <1> QED BY <1>3, <1>4, <1>6, <1>7, <1>8, <1>9, <1>10

LEMMA NextInv == EnvironmentInv /\ [Next]_vars => EnvironmentInv'
  <1> SUFFICES ASSUME EnvironmentInv, [Next]_vars PROVE EnvironmentInv'
    OBVIOUS
  <1>1. CASE UNCHANGED vars
    <2>1. TypeOK' /\ ProgressInv' /\ SavedIsCurrent'
      BY <1>1 DEF EnvironmentInv, vars, history, TypeOK, ProgressInv, SavedIsCurrent, Filled
    <2>2. UncutInv' /\ NvramInv'
      BY <1>1 DEF EnvironmentInv, vars, history, UncutInv, NvramInv, Unique, GhostsBehind, InArea
    <2>3. KnownInv' /\ OthersSurvive'
      BY <1>1 DEF EnvironmentInv, vars, history, KnownInv, OthersSurvive, getenv, Holds
    <2>4. FlashInv'
      BY <1>1 DEF EnvironmentInv, vars, history, FlashInv, Prefix, InArea
    <2> QED BY <2>1, <2>2, <2>3, <2>4 DEF EnvironmentInv
  <1>2. CASE Next
    BY <1>2, UnsetenvStep, SetenvStep, ResetenvStep, FinishResetStep, EraseStep, EraseFailsStep,
       WriteChunkStep, WriteFailsStep, PowerFailsStep, EnvInitStep
       DEF Next, nvram_copyout
  <1> QED BY <1>1, <1>2

-----------------------------------------------------------------------------
(* The theorems. *)

\* The inductive invariant, types included, holds of env.c and nvram.c for
\* every number of chunks, variables and values, whatever the first letters
\* of the names.
THEOREM EnvironmentCorrect == Spec => []EnvironmentInv
  BY InitInv, NextInv, PTL DEF Spec

\* setenv and unsetenv never leave a variable in two chunks unless a save
\* was cut short.
THEOREM VariablesAreUnique == Spec => []OneChunkPerVariable
  <1>1. EnvironmentInv => OneChunkPerVariable
    <2> SUFFICES ASSUME EnvironmentInv, cuts = 0, NEW v \in Vars
                 PROVE  Cardinality(Holds(environ, v)) <= 1
      BY DEF OneChunkPerVariable
    <2>1. \A i, j \in Holds(environ, v) : i = j
      BY DEF EnvironmentInv, UncutInv, Unique, InArea, Holds
    <2>2. CASE Holds(environ, v) = {}
      BY <2>2, FS_EmptySet
    <2>3. CASE Holds(environ, v) # {}
      <3>1. PICK i : Holds(environ, v) = {i}
        BY <2>1, <2>3
      <3>2. Cardinality(Holds(environ, v)) = 1
        BY <3>1, FS_Singleton, Zenon
      <3> QED BY <3>2
    <2> QED BY <2>2, <2>3
  <1> QED BY <1>1, EnvironmentCorrect, PTL

\* A save whose erase and writes went through leaves the store equal to the
\* working area, whatever erases, writes and power failures came before it.
THEOREM SavesAreComplete == Spec => []SavedIsCurrent
  <1>1. EnvironmentInv => SavedIsCurrent
    BY DEF EnvironmentInv
  <1> QED BY <1>1, EnvironmentCorrect, PTL

\* The first power failure on battery-backed RAM loses no variable but the
\* one being changed, wherever it strikes.
THEOREM NvramLosesNoOther == Spec => []OthersSurvive
  <1>1. EnvironmentInv => OthersSurvive
    BY DEF EnvironmentInv
  <1> QED BY <1>1, EnvironmentCorrect, PTL

\* No number of power failures, failed writes and failed erases brings back
\* a replaced value on flash, once the block has been erased after all.
THEOREM FlashShowsNoOldValue == Spec => []FlashNeverStale
  <1>1. EnvironmentInv => FlashNeverStale
    <2> SUFFICES ASSUME EnvironmentInv, ~power, kind = "flash", fault # "erase",
                        NEW v \in Vars \ changing
                 PROVE  getenv(NextRunShows, v) \in {known[v], Torn, None}
      BY DEF FlashNeverStale
    <2>1. CASE ~store.id
      <3>1. NextRunShows = Filled(FALSE, Blank)
        BY <2>1 DEF NextRunShows
      <3>2. \A i \in Chunks : ~NextRunShows.chunk[i].live
        BY <3>1 DEF Filled, Blank
      <3>3. \A i \in Chunks : ~InArea(NextRunShows, i, v)
        BY <3>2 DEF InArea
      <3> QED BY <3>3, GetenvCases
    <2>2. CASE store.id
      <3>1. NextRunShows = store
        BY <2>2 DEF NextRunShows
      <3>2. Prefix(v)
        BY <2>2 DEF EnvironmentInv, FlashInv
      <3>3. ASSUME NEW i \in Chunks, InArea(store, i, v),
                   \A j \in Chunks : InArea(store, j, v) => i <= j,
                   getenv(store, v) = store.chunk[i].val
            PROVE  getenv(store, v) \in {known[v], Torn, None}
        <4>1. InArea(environ, i, v) /\ store.chunk[i].val \in {environ.chunk[i].val, Torn}
          BY <3>2, <3>3 DEF Prefix
        <4>2. ASSUME NEW j \in Chunks, InArea(environ, j, v) PROVE i <= j
          <5>1. j < i => InArea(store, j, v)
            BY <3>2, <3>3, <4>2 DEF Prefix
          <5> QED BY <3>3, <5>1, ChunksNat
        <4>3. getenv(environ, v) = environ.chunk[i].val
          BY <4>1, <4>2, GetenvFirst
        <4> QED BY <3>3, <4>1, <4>3 DEF EnvironmentInv, KnownInv
      <3> QED BY <3>1, <3>3, GetenvCases
    <2> QED BY <2>1, <2>2
  <1> QED BY <1>1, EnvironmentCorrect, PTL
===============================================================================
