----------------------------- MODULE PromptProofs -----------------------------
(***************************************************************************)
(* Proofs about Prompt, for any environments, command lines and menus:     *)
(* what a restart boots, and which image and options the menu does.        *)
(***************************************************************************)
EXTENDS Prompt, WellFoundedInduction, TLAPS

-----------------------------------------------------------------------------
(* The inductive invariant. *)

Fields == {"valid", "reboot", "console", "dev", "file", "string"}

\* The reboot block holds what was last handed to Linux, as far as it fits,
\* and only a restart that kept it boots from it.
BlockInv ==
    /\ DOMAIN block = Fields
    /\ block.reboot => /\ block.dev = booted.dev
                       /\ block.file = StoredFile(booted)
                       /\ block.string = StoredString(booted)

RequestInv ==
    pc \in {"countdown", "boot"} /\ cause = "reboot" =>
        /\ block.reboot
        /\ request = Request(block.dev, block.file, block.string)

RebootInv == BlockInv /\ RequestInv

\* The image of the choice, from its own device, unless it was tried before.
ChosenImage ==
    pc = "boot" /\ cause = "menu" /\ ~choice[3] =>
        LET image == Config[choice[1]]
        IN  request.file = image.file /\ (image.dev # None => request.dev = image.dev)

-----------------------------------------------------------------------------
LEMMA Counting ==
    ASSUME NEW t, NEW why, do_timeout(t, why)
    PROVE  cause' = why /\ pc' = "countdown"
  BY DEF do_timeout

\* A valid block is kept; a new one says nothing about a reboot.
LEMMA StartBlock ==
    ASSUME BlockInv, Start
    PROVE  DOMAIN block' = Fields /\ (block'.reboot => block' = block)
  <1>1. block' = IF block.valid THEN block
                 ELSE [Fresh EXCEPT !.valid = TRUE, !.console = (arc # NoArgs)]
    BY DEF Start, setup_boot_arguments
  <1>2. CASE block' = block
    BY <1>2 DEF BlockInv
  <1>3. CASE block' = [Fresh EXCEPT !.valid = TRUE, !.console = (arc # NoArgs)]
    BY <1>3 DEF Fresh, Fields
  <1> QED BY <1>1, <1>2, <1>3

LEMMA BootBlock ==
    ASSUME BlockInv, boot_cmd
    PROVE  /\ DOMAIN block' = Fields /\ booted' = request /\ pc' = "linux"
           /\ block'.dev = request.dev
           /\ block'.file = StoredFile(request) /\ block'.string = StoredString(request)
  BY DEF BlockInv, boot_cmd, Fields

LEMMA InitReboot == Init => RebootInv
  BY DEF Init, Fresh, Fields, RebootInv, BlockInv, RequestInv

\* Most actions leave the block and what was handed to Linux alone.
LEMMA SameBlock ==
    ASSUME BlockInv, UNCHANGED <<block, booted>>
    PROVE  BlockInv'
  BY DEF BlockInv, Fields, StoredFile, StoredString, Text

LEMMA NextReboot == RebootInv /\ [Next]_vars => RebootInv'
  <1> SUFFICES ASSUME RebootInv, [Next]_vars PROVE RebootInv'
    OBVIOUS
  <1> USE DEF RebootInv
  <1>1. CASE Start
    <2>1. DOMAIN block' = Fields /\ (block'.reboot => block' = block) /\ booted' = booted
      BY <1>1, StartBlock DEF Start, history
    <2>2. BlockInv'
      BY <2>1 DEF BlockInv, Fields, StoredFile, StoredString, Text
    <2>3. CASE /\ block'.reboot
               /\ request' = Request(block.dev, block.file, block.string)
      BY <2>1, <2>2, <2>3 DEF RequestInv, Request
    <2>4. CASE pc' = "run"
      BY <2>2, <2>4 DEF RequestInv
    <2> QED BY <1>1, <2>2, <2>3, <2>4 DEF Start
  <1>2. CASE autoboot
    <2>1. pc' = pc \/ cause' = "autoboot"
      BY <1>2, Counting DEF autoboot
    <2>2. pc = "run" /\ UNCHANGED <<block, booted>>
      BY <1>2 DEF autoboot, history
    <2> QED BY <2>1, <2>2, SameBlock DEF RequestInv
  <1>3. CASE Second \/ CountdownEnds
    <2>1. pc = "countdown" /\ UNCHANGED <<block, booted, cause, request>>
      BY <1>3 DEF Second, CountdownEnds, Expired, history
    <2> QED BY <2>1, SameBlock DEF RequestInv, Request
  <1>4. CASE KeyPressed
    <2>1. pc = "countdown" /\ UNCHANGED <<block, booted, cause, request>>
      BY <1>4 DEF KeyPressed, history
    <2> QED BY <2>1, SameBlock DEF RequestInv, Request
  <1>5. CASE parse_command
    <2>1. pc = "run" /\ UNCHANGED <<block, booted>>
      BY <1>5 DEF parse_command, history
    <2>2. pc' = pc \/ pc' = "menu" \/ cause' \in {"menu", "command"}
      BY <1>5, Counting DEF parse_command, boot_parse, OpenMenu
    <2> QED BY <2>1, <2>2, SameBlock DEF RequestInv
  <1>6. CASE boot_fails
    BY <1>6, SameBlock DEF boot_fails, RequestInv
  <1>7. CASE boot_cmd
    <2>1. BlockInv'
      BY <1>7, BootBlock DEF BlockInv, Fields, StoredFile, StoredString, Text
    <2> QED BY <1>7, <2>1, BootBlock DEF RequestInv
  <1>8. CASE ReadLine
    BY <1>8, SameBlock DEF ReadLine, history, RequestInv
  <1>9. CASE boot_via_config
    BY <1>9, SameBlock DEF boot_via_config, boot_config, RequestInv
  <1>10. CASE LeaveMenu
    BY <1>10, SameBlock DEF LeaveMenu, history, RequestInv
  <1>11. CASE Restart
    <2>1. UNCHANGED <<block, booted>> \/ block' = Fresh
      BY <1>11 DEF Restart
    <2>2. BlockInv'
      BY <2>1, SameBlock DEF BlockInv, Fresh, Fields
    <2> QED BY <1>11, <2>2 DEF Restart, RequestInv
  <1>12. CASE UNCHANGED vars
    BY <1>12, SameBlock DEF vars, history, RequestInv, Request
  <1> QED BY <1>1, <1>2, <1>3, <1>4, <1>5, <1>6, <1>7, <1>8, <1>9, <1>10, <1>11, <1>12
           DEF Next, Milo

-----------------------------------------------------------------------------
\* A boot from the menu is a step of boot_config, or nothing has happened
\* since.
LEMMA NextChosen == ChosenImage /\ [Next]_vars => ChosenImage'
  <1> SUFFICES ASSUME ChosenImage, [Next]_vars PROVE ChosenImage'
    OBVIOUS
  <1>1. CASE boot_via_config
    <2>1. PICK k, typed : boot_config(k, typed)
      BY <1>1 DEF boot_via_config
    <2>2. PICK string : request' = ImageRequest(k, string)
      BY <2>1 DEF boot_config
    <2>3. choice'[1] = k /\ choice'[3] = (k \in again)
      BY <2>1 DEF boot_config
    <2>4. k \notin again => /\ request'.file = Config[k].file
                            /\ Config[k].dev # None => request'.dev = Config[k].dev
      BY <2>2 DEF ImageRequest, Request
    <2> QED BY <2>3, <2>4 DEF ChosenImage
  <1>2. CASE pc' # "boot" \/ cause' # "menu"
    BY <1>2 DEF ChosenImage
  <1>3. CASE pc' = pc /\ UNCHANGED <<cause, choice, request>>
    BY <1>3 DEF ChosenImage
  <1>4. CASE Start \/ autoboot
    BY <1>2, <1>4, Counting DEF Start, autoboot
  <1>5. CASE Second \/ CountdownEnds \/ KeyPressed
    BY <1>2, <1>5 DEF Second, CountdownEnds, Expired, KeyPressed
  <1>6. CASE parse_command
    BY <1>2, <1>6, Counting DEF parse_command, boot_parse, OpenMenu
  <1>7. CASE boot_fails \/ boot_cmd \/ ReadLine \/ LeaveMenu \/ Restart
    BY <1>2, <1>7 DEF boot_fails, boot_cmd, ReadLine, LeaveMenu, Restart
  <1>8. CASE UNCHANGED vars
    BY <1>3, <1>8 DEF vars, history
  <1> QED BY <1>1, <1>4, <1>5, <1>6, <1>7, <1>8 DEF Next, Milo

-----------------------------------------------------------------------------
(* boot_config's loop over the options.                                    *)

\* A non-empty set of naturals has a least member.
LEMMA LeastNumber ==
    ASSUME NEW S \in SUBSET Nat, S # {}
    PROVE  \E n \in S : \A x \in S : n <= x
  <1>1. \E n \in S : \A x \in S : ~(<<x, n>> \in OpToRel(<, Nat))
    BY NatLessThanWellFounded, WFMin, Zenon
  <1>2. ASSUME NEW n \in Nat, NEW x \in Nat, ~(<<x, n>> \in OpToRel(<, Nat))
        PROVE  n <= x
    BY <1>2 DEF OpToRel
  <1> QED BY <1>1, <1>2

\* One turn: g[k - 1] is the list before option k.
Turn(g, given, k) == IF k = 0 THEN <<>> ELSE Added(g[k - 1], given[k])

\* The loop's equation has a solution for every number of options.
LEMMA LoopExists ==
    ASSUME NEW given, NEW n \in Nat
    PROVE  \E g : g = [k \in 0 .. n |-> Turn(g, given, k)]
  <1> DEFINE Wrong == {x \in Nat : ~\E g : g = [k \in 0 .. x |-> Turn(g, given, k)]}
  <1>1. SUFFICES ASSUME Wrong # {} PROVE FALSE
    OBVIOUS
  <1>2. PICK x \in Wrong : \A y \in Wrong : x <= y
    BY <1>1, LeastNumber
  <1>3. x \in Nat
    OBVIOUS
  <1>4. CASE x = 0
    <2> DEFINE h == [k \in 0 .. x |-> <<>>]
    <2>1. \A k \in 0 .. x : Turn(h, given, k) = <<>>
      BY <1>4 DEF Turn
    <2>2. h = [k \in 0 .. x |-> Turn(h, given, k)]
      BY <2>1
    <2> QED BY <2>2
  <1>5. CASE x # 0
    <2>1. x - 1 \in Nat /\ x - 1 \notin Wrong
      BY <1>2, <1>3, <1>5
    <2>2. PICK g : g = [k \in 0 .. (x - 1) |-> Turn(g, given, k)]
      BY <2>1
    <2> DEFINE h == [k \in 0 .. x |-> IF k = x THEN Added(g[x - 1], given[x]) ELSE g[k]]
    <2>3. ASSUME NEW k \in 0 .. x PROVE h[k] = Turn(h, given, k)
      <3>1. CASE k = 0
        <4>1. h[k] = g[k] /\ k \in 0 .. (x - 1)
          BY <3>1, <1>3, <1>5
        <4>2. g[k] = <<>>
          BY <2>2, <3>1, <4>1 DEF Turn
        <4> QED BY <3>1, <4>1, <4>2 DEF Turn
      <3>2. CASE k # 0
        <4>1. k - 1 \in 0 .. (x - 1) /\ k - 1 \in 0 .. x /\ k - 1 # x
          BY <3>2, <1>3
        <4>2. h[k - 1] = g[k - 1]
          BY <4>1
        <4>3. CASE k = x
          BY <3>2, <4>2, <4>3 DEF Turn
        <4>4. CASE k # x
          <5>1. k \in 0 .. (x - 1)
            BY <4>4, <1>3
          <5>2. g[k] = Turn(g, given, k)
            BY <2>2, <5>1
          <5> QED BY <3>2, <4>2, <4>4, <5>2 DEF Turn
        <4> QED BY <4>3, <4>4
      <3> QED BY <3>1, <3>2
    <2>4. h = [k \in 0 .. x |-> Turn(h, given, k)]
      BY <2>3
    <2> QED BY <2>4
  <1> QED BY <1>4, <1>5

\* So Merged is what the loop has after the last turn.
LEMMA MergedLoop ==
    ASSUME NEW given, Len(given) \in Nat
    PROVE  \E g : /\ Merged(given) = g[Len(given)]
                  /\ g[0] = <<>>
                  /\ \A k \in 1 .. Len(given) : g[k] = Added(g[k - 1], given[k])
  <1> DEFINE g == CHOOSE f : f = [k \in 0 .. Len(given) |->
                      IF k = 0 THEN <<>> ELSE Added(f[k - 1], given[k])]
  <1>1. \E f : f = [k \in 0 .. Len(given) |-> IF k = 0 THEN <<>> ELSE Added(f[k - 1], given[k])]
    BY LoopExists DEF Turn
  <1>2. g = [k \in 0 .. Len(given) |-> IF k = 0 THEN <<>> ELSE Added(g[k - 1], given[k])]
    BY <1>1
  <1>3. Merged(given) = g[Len(given)]
    BY DEF Merged
  <1> HIDE DEF g
  <1>4. g[0] = <<>>
    BY <1>2
  <1>5. ASSUME NEW k \in 1 .. Len(given) PROVE g[k] = Added(g[k - 1], given[k])
    <2>1. k \in 0 .. Len(given) /\ k # 0
      OBVIOUS
    <2> QED BY <1>2, <2>1
  <1> QED BY <1>3, <1>4, <1>5

\* One option: it replaces an entry its name is a prefix of, or comes last;
\* every other entry stays where it is.
Placed(new, m, o) ==
    \/ new = Append(m, o)
    \/ /\ Len(new) = Len(m)
       /\ \E q \in DOMAIN m : /\ Matches(o, m[q]) /\ new[q] = o
                              /\ \A p \in DOMAIN m \ {q} : new[p] = m[p]

LEMMA AddedOne ==
    ASSUME NEW O, NEW m \in Seq(O), NEW o \in O
    PROVE  Added(m, o) \in Seq(O) /\ Placed(Added(m, o), m, o)
  <1>1. CASE ~\E k \in DOMAIN m : Matches(o, m[k])
    BY <1>1 DEF Added, Placed
  <1>2. CASE \E k \in DOMAIN m : Matches(o, m[k])
    <2> DEFINE S == {k \in DOMAIN m : Matches(o, m[k])}
               First(k) == Matches(o, m[k]) /\ \A j \in 1 .. (k - 1) : ~Matches(o, m[j])
               q == CHOOSE k \in DOMAIN m : First(k)
    <2>1. S \in SUBSET Nat /\ S # {}
      BY <1>2
    <2>2. PICK k \in S : \A x \in S : k <= x
      BY <2>1, LeastNumber
    <2>3. k \in DOMAIN m /\ First(k)
      <3>1. ASSUME NEW j \in 1 .. (k - 1) PROVE ~Matches(o, m[j])
        <4>1. j \in DOMAIN m /\ ~(k <= j)
          BY <2>2
        <4> QED BY <2>2, <4>1
      <3> QED BY <3>1
    <2>4. q \in DOMAIN m /\ First(q)
      BY <2>3
    <2>5. Added(m, o) = [m EXCEPT ![q] = o]
      BY <1>2 DEF Added
    <2> HIDE DEF q
    <2> QED BY <2>4, <2>5 DEF Placed
  <1> QED BY <1>1, <1>2

\* What the loop keeps: every option so far is in the list, and no further
\* back than it was read, unless a later one has a prefix of its name.
Kept(m, given, k) ==
    /\ \A i \in 1 .. k : \/ \E p \in DOMAIN m : p <= i /\ m[p] = given[i]
                         \/ \E j \in (i + 1) .. k : Matches(given[j], given[i])
    /\ Len(m) <= k

LEMMA KeptAppended ==
    ASSUME NEW O, NEW given \in Seq(O), NEW k \in Nat, k < Len(given),
           NEW m \in Seq(O), Kept(m, given, k),
           NEW o \in O, o = given[k + 1], NEW new \in Seq(O),
           new = Append(m, o)
    PROVE  Kept(new, given, k + 1)
  <1>1. /\ Len(new) = Len(m) + 1 /\ new[Len(m) + 1] = o
        /\ \A p \in 1 .. Len(m) : new[p] = m[p]
    OBVIOUS
  <1>2. /\ Len(m) \in Nat /\ Len(new) \in Nat
        /\ DOMAIN m = 1 .. Len(m) /\ DOMAIN new = 1 .. Len(new)
    OBVIOUS
  <1>3. Len(m) <= k
    BY DEF Kept
  <1>4. Len(new) <= k + 1
    BY <1>1, <1>2, <1>3
  <1>5. ASSUME NEW i \in 1 .. (k + 1)
        PROVE  \/ \E p \in DOMAIN new : p <= i /\ new[p] = given[i]
               \/ \E j \in (i + 1) .. (k + 1) : Matches(given[j], given[i])
    <2>1. CASE i = k + 1
      <3>1. Len(new) \in DOMAIN new /\ Len(new) <= i
        BY <1>1, <1>2, <1>4, <2>1
      <3>2. new[Len(new)] = given[i]
        BY <1>1, <2>1
      <3> QED BY <3>1, <3>2
    <2>2. CASE i # k + 1
      <3>1. i \in 1 .. k /\ (i + 1) .. k \subseteq (i + 1) .. (k + 1)
        BY <2>2
      <3>2. \/ \E p \in DOMAIN m : p <= i /\ m[p] = given[i]
            \/ \E j \in (i + 1) .. k : Matches(given[j], given[i])
        BY <3>1 DEF Kept
      <3>3. \A p \in DOMAIN m : p \in DOMAIN new /\ new[p] = m[p]
        BY <1>1, <1>2
      <3> QED BY <3>1, <3>2, <3>3
    <2> QED BY <2>1, <2>2
  <1> QED BY <1>4, <1>5, Zenon DEF Kept

LEMMA KeptReplaced ==
    ASSUME NEW O, NEW given \in Seq(O), NEW k \in Nat, k < Len(given),
           NEW m \in Seq(O), Kept(m, given, k),
           NEW o \in O, o = given[k + 1], NEW new \in Seq(O),
           Len(new) = Len(m), NEW q \in DOMAIN m, Matches(o, m[q]), new[q] = o,
           \A p \in DOMAIN m \ {q} : new[p] = m[p]
    PROVE  Kept(new, given, k + 1)
  <1>1. DOMAIN m = 1 .. Len(m) /\ Len(m) \in Nat /\ DOMAIN new = 1 .. Len(new)
    OBVIOUS
  <1>2. /\ Len(new) = Len(m) /\ new[q] = o /\ Matches(o, m[q])
        /\ \A p \in DOMAIN m \ {q} : new[p] = m[p]
    OBVIOUS
  <1>3. DOMAIN new = DOMAIN m
    BY <1>1, <1>2
  <1>4. Len(m) <= k
    BY DEF Kept
  <1>5. Len(new) <= k + 1 /\ q \in Nat /\ q <= k + 1
    BY <1>1, <1>2, <1>4
  <1>6. ASSUME NEW i \in 1 .. (k + 1)
        PROVE  \/ \E p \in DOMAIN new : p <= i /\ new[p] = given[i]
               \/ \E j \in (i + 1) .. (k + 1) : Matches(given[j], given[i])
    <2>1. CASE i = k + 1
      BY <1>2, <1>3, <1>5, <2>1
    <2>2. CASE i # k + 1
      <3>1. i \in 1 .. k /\ (i + 1) .. k \subseteq (i + 1) .. (k + 1)
            /\ k + 1 \in (i + 1) .. (k + 1)
        BY <2>2
      <3>2. \/ \E p \in DOMAIN m : p <= i /\ m[p] = given[i]
            \/ \E j \in (i + 1) .. k : Matches(given[j], given[i])
        BY <3>1 DEF Kept
      <3>3. ASSUME NEW p \in DOMAIN m, m[p] = given[i]
            PROVE  new[p] = given[i] \/ Matches(given[k + 1], given[i])
        BY <1>2, <3>3
      <3> QED BY <1>3, <3>1, <3>2, <3>3
    <2> QED BY <2>1, <2>2
  <1> QED BY <1>5, <1>6, Zenon DEF Kept

LEMMA KeptTurn ==
    ASSUME NEW O, NEW given \in Seq(O), NEW k \in Nat, k < Len(given),
           NEW m \in Seq(O), Kept(m, given, k),
           NEW o \in O, o = given[k + 1]
    PROVE  Added(m, o) \in Seq(O) /\ Kept(Added(m, o), given, k + 1)
  <1>1. Added(m, o) \in Seq(O) /\ Placed(Added(m, o), m, o)
    BY AddedOne
  <1>2. CASE Added(m, o) = Append(m, o)
    BY <1>1, <1>2, KeptAppended, Zenon
  <1>3. CASE /\ Len(Added(m, o)) = Len(m)
             /\ \E q \in DOMAIN m : /\ Matches(o, m[q]) /\ Added(m, o)[q] = o
                                    /\ \A p \in DOMAIN m \ {q} : Added(m, o)[p] = m[p]
    BY <1>1, <1>3, KeptReplaced, Zenon
  <1> QED BY <1>1, <1>2, <1>3, Zenon DEF Placed

LEMMA MergedKeeps ==
    ASSUME NEW O, NEW given \in Seq(O)
    PROVE  Merged(given) \in Seq(O) /\ Kept(Merged(given), given, Len(given))
  <1>0. Len(given) \in Nat
    OBVIOUS
  <1>1. PICK g : /\ Merged(given) = g[Len(given)]
                 /\ g[0] = <<>>
                 /\ \A k \in 1 .. Len(given) : g[k] = Added(g[k - 1], given[k])
    BY <1>0, MergedLoop
  <1> DEFINE Good(k) == g[k] \in Seq(O) /\ Kept(g[k], given, k)
             Wrong == {k \in 0 .. Len(given) : ~Good(k)}
  <1>2. CASE Wrong = {}
    <2>1. Good(Len(given))
      BY <1>0, <1>2
    <2> QED BY <1>1, <2>1
  <1>3. CASE Wrong # {}
    <2>1. PICK k \in Wrong : \A x \in Wrong : k <= x
      <3>1. Wrong \in SUBSET Nat
        BY <1>0
      <3> QED BY <1>3, <3>1, LeastNumber
    <2>2. k \in 0 .. Len(given) /\ ~Good(k)
      OBVIOUS
    <2>3. CASE k = 0
      <3>1. g[k] = <<>>
        BY <1>1, <2>3
      <3>2. <<>> \in Seq(O) /\ Kept(<<>>, given, 0)
        BY DEF Kept
      <3> QED BY <2>2, <2>3, <3>1, <3>2
    <2>4. CASE k # 0
      <3>1. k \in 1 .. Len(given) /\ k - 1 \in 0 .. Len(given) /\ ~(k <= k - 1)
        BY <1>0, <2>2, <2>4
      <3>2. Good(k - 1)
        BY <2>1, <3>1
      <3>3. k - 1 \in Nat /\ k - 1 < Len(given) /\ (k - 1) + 1 = k
        BY <1>0, <3>1
      <3>4. /\ Added(g[k - 1], given[k]) \in Seq(O)
            /\ Kept(Added(g[k - 1], given[k]), given, k)
        <4> HIDE DEF Wrong
        <4>1. g[k - 1] \in Seq(O) /\ Kept(g[k - 1], given, k - 1)
          BY <3>2
        <4>2. given[k] \in O /\ given[(k - 1) + 1] = given[k]
          BY <3>1, <3>3
        <4>3. /\ Added(g[k - 1], given[k]) \in Seq(O)
              /\ Kept(Added(g[k - 1], given[k]), given, (k - 1) + 1)
          BY <3>3, <4>1, <4>2, KeptTurn, Zenon
        <4> QED BY <3>3, <4>3
      <3>5. g[k] = Added(g[k - 1], given[k])
        BY <1>1, <3>1
      <3> QED BY <2>2, <3>4, <3>5
    <2> QED BY <2>3, <2>4
  <1> QED BY <1>2, <1>3

-----------------------------------------------------------------------------
(* What becomes of the configuration's options.                            *)

\* A function over the first numbers is a sequence.
LEMMA FunctionIsSeq ==
    ASSUME NEW S, NEW n \in Nat, NEW f \in [1 .. n -> S]
    PROVE  f \in Seq(S)
  OBVIOUS

\* Whatever BootStrings loses of the merged list, an option of the image is
\* in it, unless a later word has a prefix of its name: the list holds it no
\* further back than the text did, and there nothing is lost.
LEMMA OwnOptions ==
    ASSUME NEW image, image.root \in Seq(Options), image.append \in Seq(Options),
           NEW typed \in Seq(Options), NEW words \in Seq(Options),
           NEW string \in BootStrings(image, typed, words),
           NEW k \in DOMAIN (image.root \o image.append)
    PROVE  \/ (image.root \o image.append)[k] \in Range(Text(string))
           \/ \E j \in (k + 1) .. Len(Given(image, typed) \o words) :
                 IsPrefix(Name((Given(image, typed) \o words)[j]),
                          Name((image.root \o image.append)[k]))
  <1> DEFINE own == image.root \o image.append
             given == Given(image, typed)
             scan == given \o words
             m == Merged(scan)
             Losing(lost) == [p \in DOMAIN m |-> IF p \in lost THEN Junk ELSE m[p]]
  <1>1. /\ own \in Seq(Options) /\ given = own \o typed /\ given \in Seq(Options)
        /\ scan \in Seq(Options)
    BY DEF Given
  <1>2. m \in Seq(Options) /\ Kept(m, scan, Len(scan))
    BY <1>1, MergedKeeps, Zenon
  <1>3. \/ m = <<>>
        \/ \E lost \in SUBSET {p \in DOMAIN m : p > Len(given)} : string = Losing(lost)
    BY DEF BootStrings
  <1> HIDE DEF m
  <1>4. /\ k \in 1 .. Len(scan) /\ k \in Nat /\ scan[k] = own[k]
        /\ k <= Len(given) /\ Len(given) \in Nat
    <2> HIDE DEF own, given
    <2>1. k \in 1 .. Len(own)
      <3>1. k \in DOMAIN own
        BY DEF own
      <3> QED BY <1>1, <3>1
    <2>2. k \in 1 .. Len(given) /\ given[k] = own[k] /\ Len(given) \in Nat
      BY <1>1, <2>1
    <2> QED BY <1>1, <2>2
  <1>5. CASE \E j \in (k + 1) .. Len(scan) : Matches(scan[j], scan[k])
    BY <1>4, <1>5 DEF Matches
  <1>6. CASE ~\E j \in (k + 1) .. Len(scan) : Matches(scan[j], scan[k])
    <2>1. PICK p \in DOMAIN m : p <= k /\ m[p] = own[k]
      <3> HIDE DEF own, given, scan
      <3> QED BY <1>2, <1>4, <1>6, Zenon DEF Kept
    <2>2. p \in Nat /\ ~(p > Len(given))
      <3> HIDE DEF own, given, scan
      <3>1. p \in Nat
        BY <1>2
      <3> QED BY <1>4, <2>1, <3>1
    <2>3. PICK lost \in SUBSET {x \in DOMAIN m : x > Len(given)} : string = Losing(lost)
      <3> HIDE DEF Losing
      <3>1. m # <<>>
        BY <2>1
      <3> QED BY <1>3, <3>1
    <2>4. p \in DOMAIN string /\ string[p] = own[k]
      BY <2>1, <2>2, <2>3
    <2>5. string \in Seq(Options \cup {Junk})
      <3>1. \A x \in DOMAIN m : m[x] \in Options
        BY <1>2
      <3>2. DOMAIN m = 1 .. Len(m) /\ Len(m) \in Nat
        BY <1>2
      <3>3. string \in [1 .. Len(m) -> Options \cup {Junk}]
        BY <2>3, <3>1, <3>2
      <3> QED BY <3>2, <3>3, FunctionIsSeq, Zenon
    <2>6. Text(string) = string
      BY <2>5, PromptAssumption, Zenon DEF Text, PromptAssumption
    <2> QED BY <2>4, <2>6 DEF Range
  <1> QED BY <1>5, <1>6

\* The string that is booted is one of those boot_config may make of the
\* choice and of what lies behind its text.
ChosenOptions ==
    pc = "boot" /\ cause = "menu" =>
        /\ choice[1] \in DOMAIN Config /\ choice[2] \in Typed \cup {<<>>}
        /\ choice[4] \in Leftovers \cup {<<>>}
        /\ request.string \in BootStrings(Config[choice[1]], choice[2], choice[4])

LEMMA NextOptions == ChosenOptions /\ [Next]_vars => ChosenOptions'
  <1> SUFFICES ASSUME ChosenOptions, [Next]_vars PROVE ChosenOptions'
    OBVIOUS
  <1>1. CASE boot_via_config
    <2>1. PICK k \in DOMAIN Config, typed \in Typed \cup {<<>>} : boot_config(k, typed)
      <3>1. 1 \in DOMAIN Config
        BY PromptAssumption DEF PromptAssumption
      <3> QED BY <1>1, <3>1, Zenon DEF boot_via_config
    <2>2. PICK words \in Leftovers \cup {<<>>} :
              /\ \E string \in BootStrings(Config[k], typed, Scanned(typed, words)) :
                     request' = ImageRequest(k, string)
              /\ choice' = <<k, typed, k \in again, Scanned(typed, words)>>
      BY <2>1 DEF boot_config
    <2>3. PICK string \in BootStrings(Config[k], typed, Scanned(typed, words)) :
              request' = ImageRequest(k, string)
      BY <2>2
    <2>4. /\ choice'[1] = k /\ choice'[2] = typed /\ choice'[4] = Scanned(typed, words)
          /\ Scanned(typed, words) \in Leftovers \cup {<<>>}
      BY <2>2 DEF Scanned
    <2>5. request'.string = string
      BY <2>3 DEF ImageRequest, Request
    <2>6. request'.string \in BootStrings(Config[choice'[1]], choice'[2], choice'[4])
      BY <2>3, <2>4, <2>5
    <2> QED BY <2>4, <2>6 DEF ChosenOptions
  <1>2. CASE pc' # "boot" \/ cause' # "menu"
    BY <1>2 DEF ChosenOptions
  <1>3. CASE pc' = pc /\ UNCHANGED <<cause, choice, request>>
    BY <1>3 DEF ChosenOptions
  <1>4. CASE Start \/ autoboot
    BY <1>2, <1>4, Counting DEF Start, autoboot
  <1>5. CASE Second \/ CountdownEnds \/ KeyPressed
    BY <1>2, <1>5 DEF Second, CountdownEnds, Expired, KeyPressed
  <1>6. CASE parse_command
    BY <1>2, <1>6, Counting DEF parse_command, boot_parse, OpenMenu
  <1>7. CASE boot_fails \/ boot_cmd \/ ReadLine \/ LeaveMenu \/ Restart
    BY <1>2, <1>7 DEF boot_fails, boot_cmd, ReadLine, LeaveMenu, Restart
  <1>8. CASE UNCHANGED vars
    BY <1>3, <1>8 DEF vars, history
  <1> QED BY <1>1, <1>4, <1>5, <1>6, <1>7, <1>8 DEF Next, Milo

-----------------------------------------------------------------------------
(* The theorems. *)

\* A restart boots again what was last handed to Linux (boot_cmd writes the
\* reboot block, setup_boot_arguments keeps it, milo() boots from it),
\* whatever was tried, refused or set in between.
THEOREM RestartRepeats == Spec => []RebootRepeats
  <1>1. RebootInv => RebootRepeats
    BY DEF RebootInv, BlockInv, RequestInv, RebootRepeats, Request, StoredString, Text
  <1> QED BY <1>1, InitReboot, NextReboot, PTL DEF Spec

\* The menu boots the image that was chosen, and from the device it names,
\* when it has not been tried before (boot_config and boot_via_config); and
\* whatever is typed behind the label, and whatever words of a freed block
\* lie behind the text, an option of the configuration reaches Linux unless a
\* later word has a prefix of its name (boot_config's loop over options[],
\* and the string it makes of them).
THEOREM MenuBootsImageAndOptions == Spec => []MenuBootsChoice
  <1>1. Init => ChosenImage /\ ChosenOptions
    BY DEF Init, ChosenImage, ChosenOptions
  <1>2. ASSUME ChosenImage, ChosenOptions PROVE MenuBootsChoice
    <2> DEFINE image == Config[choice[1]]
               own == image.root \o image.append
               scan == Given(image, choice[2]) \o choice[4]
    <2>1. SUFFICES ASSUME pc = "boot", cause = "menu", NEW k \in DOMAIN own
                   PROVE  \/ own[k] \in Range(Text(request.string))
                          \/ \E j \in (k + 1) .. Len(scan) : IsPrefix(Name(scan[j]), Name(own[k]))
      BY <1>2 DEF MenuBootsChoice, ChosenImage
    <2>2. /\ choice[1] \in DOMAIN Config /\ choice[2] \in Typed \cup {<<>>}
          /\ choice[4] \in Leftovers \cup {<<>>}
          /\ request.string \in BootStrings(image, choice[2], choice[4])
      BY <1>2, <2>1 DEF ChosenOptions
    <2>3. /\ image.root \in Seq(Options) /\ image.append \in Seq(Options)
          /\ choice[2] \in Seq(Options) /\ choice[4] \in Seq(Options)
      <3>1. <<>> \in Seq(Options)
        OBVIOUS
      <3>2. Config[choice[1]].root \in Seq(Options) /\ Config[choice[1]].append \in Seq(Options)
        BY <2>2, PromptAssumption, Zenon DEF PromptAssumption
      <3>3. choice[2] \in Seq(Options) /\ choice[4] \in Seq(Options)
        BY <2>2, <3>1, PromptAssumption, Zenon DEF PromptAssumption
      <3> QED BY <3>2, <3>3
    <2> HIDE DEF image
    <2> QED BY <2>2, <2>3, OwnOptions
  <1> QED BY <1>1, <1>2, NextChosen, NextOptions, PTL DEF Spec
===============================================================================
