----------------------------- MODULE TimersProofs -----------------------------
(***************************************************************************)
(* Proofs about Timers, for any number of timers, tasks and ticks: the     *)
(* list of pending timers is one ring through timer_head, sorted by        *)
(* expiry, and implements the queue of TimerQueue.  The one condition is   *)
(* that no timer is used both with add_timer and with mod_timer, whose     *)
(* slots know nothing of the list.                                         *)
(***************************************************************************)
EXTENDS Timers, WellFoundedInduction, TLAPS

UsedOneWay == AddTimers \cap ModTimers = {}

-----------------------------------------------------------------------------
(* The inductive invariant. *)

\* r lists the n members of L in the order the links nx and pv give them,
\* between two mentions of timer_head.
IsRing(nx, pv, ex, L, n, r) ==
    /\ r \in [0 .. n + 1 -> L \cup {Head}]
    /\ r[0] = Head /\ r[n + 1] = Head
    /\ \A i \in 1 .. n : r[i] \in L
    /\ \A i \in 0 .. n : nx[r[i]] = r[i + 1] /\ pv[r[i + 1]] = r[i]
    /\ \A i, j \in 1 .. n : r[i] = r[j] => i = j
    /\ \A t \in L : \E i \in 1 .. n : r[i] = t
    /\ \A i, j \in 1 .. n : i <= j => ex[r[i]] <= ex[r[j]]

RingInv ==
    \E n \in Nat : \E r \in [0 .. n + 1 -> Listed \cup {Head}] :
        IsRing(next, prev, expires, Listed, n, r)

\* The wheel's links stay among its slots and mod_timer's timers.
Wheel == ModTimers \cup Slots

WheelInv ==
    \A m \in Wheel : next[m] \in Wheel \cup {NULL} /\ prev[m] \in Wheel \cup {NULL}

\* Only timer_head expires never.
ExpiryInv ==
    /\ expires[Head] = Forever
    /\ \A t \in Timers : expires[t] \in TimesOfDay

TimersInv ==
    /\ TypeOK /\ RingInv /\ WheelInv /\ ExpiryInv
    /\ running # NULL => tick = "timers"

-----------------------------------------------------------------------------
(* Lemmas about lists. *)

\* A set of numbers that is not empty has a least one.
LEMMA LeastNat ==
    ASSUME NEW S \in SUBSET Nat, S # {}
    PROVE  \E x \in S : \A y \in S : x <= y
  <1>1. \E x \in S : \A y \in S : ~(<<y, x>> \in OpToRel(<, Nat))
    BY NatLessThanWellFounded, WFMin, Zenon
  <1>2. ASSUME NEW x \in Nat, NEW y \in Nat, ~(<<y, x>> \in OpToRel(<, Nat))
        PROVE  x <= y
    BY <1>2 DEF OpToRel
  <1> QED BY <1>1, <1>2

\* Expiry times are numbers, and every time comes before timer_head's.
LEMMA TimesNat ==
    /\ TimesOfDay \subseteq Nat /\ Forever \in Nat
    /\ \A e \in TimesOfDay : e < Forever
  BY TimersAssumption DEF TimesOfDay, Forever

\* The members' expiry times.
LEMMA RingExpires ==
    ASSUME TypeOK, ExpiryInv, NEW n \in Nat, NEW r,
           IsRing(next, prev, expires, Listed, n, r)
    PROVE  /\ \A i \in 1 .. n : expires[r[i]] \in TimesOfDay /\ expires[r[i]] \in Nat
           /\ \A i \in 0 .. n + 1 : expires[r[i]] \in Nat /\ r[i] \in Listed \cup {Head}
  BY TimesNat, TimersAssumption DEF IsRing, TypeOK, ExpiryInv, Listed, Plain, Timers

\* Where add_timer's loop stops: at the first member that does not expire
\* before e, or at timer_head.
LEMMA PlaceFinds ==
    ASSUME TypeOK, ExpiryInv, NEW n \in Nat, NEW r,
           IsRing(next, prev, expires, Listed, n, r), NEW e \in TimesOfDay
    PROVE  \E k \in 1 .. n + 1 :
              /\ Place(e) = r[k]
              /\ e <= expires[r[k]]
              /\ \A i \in 1 .. k - 1 : expires[r[i]] < e
  <1> DEFINE S == Listed \cup {Head}
  <1> DEFINE Stops == { i \in 1 .. n + 1 : e <= expires[r[i]] }
  <1>1. /\ e \in Nat
        /\ \A i \in 0 .. n + 1 : expires[r[i]] \in Nat /\ r[i] \in S
    BY RingExpires, TimesNat
  <1>2. n + 1 \in Stops
    <2>1. r[n + 1] = Head /\ expires[Head] = Forever
      BY DEF IsRing, ExpiryInv
    <2> QED BY <2>1, TimesNat
  <1>3. PICK k \in Stops : \A i \in Stops : k <= i
    <2>1. Stops \in SUBSET Nat /\ Stops # {}
      BY <1>2
    <2> QED BY <2>1, LeastNat
  <1>4. k \in 1 .. n + 1 /\ k \in Nat /\ e <= expires[r[k]]
    BY <1>3
  <1>5. \A i \in 1 .. k - 1 : expires[r[i]] < e
    <2> SUFFICES ASSUME NEW i \in 1 .. k - 1, ~(expires[r[i]] < e) PROVE FALSE
      OBVIOUS
    <2>1. i \in 1 .. n + 1 /\ ~(k <= i)
      BY <1>4
    <2>2. e <= expires[r[i]]
      BY <1>1, <2>1
    <2> QED BY <1>3, <2>1, <2>2
  <1> HIDE DEF Stops, S
  <1> DEFINE Loop(f) == [p \in S |-> IF e > expires[p] THEN f[next[p]] ELSE p]
  <1> DEFINE g == [p \in S |-> IF e > expires[p] THEN r[k] ELSE p]
  <1>6. \A p \in S : e > expires[p] => g[next[p]] = r[k]
    <2> SUFFICES ASSUME NEW p \in S, e > expires[p] PROVE g[next[p]] = r[k]
      OBVIOUS
    <2>1. p # Head
      BY <1>1, TimesNat DEF ExpiryInv
    <2>2. PICK i \in 1 .. n : r[i] = p
      BY <2>1 DEF IsRing, S
    <2>3. next[p] = r[i + 1] /\ i + 1 \in 0 .. n + 1
      BY <2>2 DEF IsRing
    <2>4. r[i + 1] \in S /\ expires[r[i + 1]] \in Nat
      BY <1>1, <2>3
    <2>5. i < k
      <3> SUFFICES ASSUME k <= i PROVE FALSE
        BY <1>4
      <3>1. k \in 1 .. n
        BY <1>4
      <3>2. expires[r[k]] <= expires[r[i]]
        BY <3>1 DEF IsRing
      <3>3. expires[r[k]] \in Nat /\ expires[r[i]] \in Nat
        BY <1>1, <1>4
      <3> QED BY <1>1, <1>4, <2>2, <3>2, <3>3
    <2>6. CASE i + 1 = k
      <3>1. ~(e > expires[r[k]])
        BY <1>1, <1>4, <2>4, <2>6
      <3> QED BY <2>3, <2>4, <2>6, <3>1
    <2>7. CASE i + 1 # k
      <3>1. i + 1 \in 1 .. k - 1
        BY <1>4, <2>5, <2>7
      <3>2. e > expires[r[i + 1]]
        BY <1>1, <1>5, <2>4, <3>1
      <3> QED BY <2>3, <2>4, <3>2
    <2> QED BY <2>6, <2>7
  <1>7. g = Loop(g)
    BY <1>6
  <1> DEFINE from == CHOOSE f : f = Loop(f)
  <1>8. from = Loop(from)
    <2>1. \E f : f = Loop(f)
      <3> HIDE DEF g, Loop
      <3> QED BY <1>7
    <2> HIDE DEF Loop
    <2> QED BY <2>1
  <1>9. Place(e) = from[next[Head]]
    BY DEF Place, S
  <1> HIDE DEF from, g
  <1>10. from[r[k]] = r[k]
    <2>1. r[k] \in S /\ ~(e > expires[r[k]])
      BY <1>1, <1>4
    <2> QED BY <1>8, <2>1
  <1>11. ASSUME NEW i \in 1 .. k - 1 PROVE from[r[i]] = from[r[i + 1]]
    <2>1. r[i] \in S /\ e > expires[r[i]] /\ next[r[i]] = r[i + 1]
      BY <1>1, <1>4, <1>5 DEF IsRing
    <2> QED BY <1>8, <2>1
  <1>12. from[r[1]] = r[k]
    <2> DEFINE Bad == { d \in 0 .. k - 1 : from[r[k - d]] # r[k] }
    <2>1. Bad = {}
      <3> SUFFICES ASSUME Bad # {} PROVE FALSE
        OBVIOUS
      <3>1. Bad \in SUBSET Nat
        BY <1>4
      <3>2. PICK d \in Bad : \A b \in Bad : d <= b
        BY <3>1, LeastNat
      <3>3. d \in 0 .. k - 1 /\ d # 0
        BY <1>4, <1>10, <3>2
      <3>4. d - 1 \notin Bad /\ d - 1 \in 0 .. k - 1
        BY <1>4, <3>2, <3>3
      <3>5. from[r[k - (d - 1)]] = r[k]
        BY <3>4
      <3>6. k - d \in 1 .. k - 1 /\ k - (d - 1) = k - d + 1
        BY <1>4, <3>3
      <3>7. from[r[k - d]] = from[r[k - d + 1]]
        BY <1>11, <3>6
      <3> QED BY <3>2, <3>5, <3>6, <3>7
    <2>2. k - 1 \in 0 .. k - 1 /\ k - (k - 1) = 1
      BY <1>4
    <2> QED BY <2>1, <2>2
  <1>13. next[Head] = r[1]
    BY DEF IsRing
  <1> QED BY <1>4, <1>5, <1>9, <1>12, <1>13

\* Linking t in before the k-th member keeps the ring, if t fits there.
LEMMA RingInsert ==
    ASSUME TypeOK, ExpiryInv, NEW n \in Nat, NEW r,
           IsRing(next, prev, expires, Listed, n, r),
           NEW k \in 1 .. n + 1, NEW t \in Plain \ Listed, NEW e \in TimesOfDay,
           e <= expires[r[k]], \A i \in 1 .. k - 1 : expires[r[i]] < e,
           NEW nx, nx = [next EXCEPT ![t] = r[k], ![prev[r[k]]] = t],
           NEW pv, pv = [prev EXCEPT ![t] = prev[r[k]], ![r[k]] = t],
           NEW ex, ex = [expires EXCEPT ![t] = e]
    PROVE  \E q \in [0 .. (n + 1) + 1 -> (Listed \cup {t}) \cup {Head}] :
              IsRing(nx, pv, ex, Listed \cup {t}, n + 1, q)
  <1> DEFINE q == [i \in 0 .. (n + 1) + 1 |-> IF i < k THEN r[i] ELSE IF i = k THEN t ELSE r[i - 1]]
  <1>1. /\ k \in Nat /\ t \notin Listed \cup {Head} /\ t \in Timers
        /\ Listed \subseteq Timers /\ Head \notin Listed
    BY TimersAssumption DEF Plain, Listed, Timers
  <1>2. /\ r[0] = Head /\ r[n + 1] = Head
        /\ \A i \in 0 .. n + 1 : r[i] \in Listed \cup {Head}
        /\ \A i \in 1 .. n : r[i] \in Listed
        /\ \A i \in 0 .. n : next[r[i]] = r[i + 1] /\ prev[r[i + 1]] = r[i]
        /\ \A i, j \in 1 .. n : r[i] = r[j] => i = j
        /\ \A u \in Listed : \E i \in 1 .. n : r[i] = u
        /\ \A i, j \in 1 .. n : i <= j => expires[r[i]] <= expires[r[j]]
    BY DEF IsRing
  <1>3. prev[r[k]] = r[k - 1] /\ k - 1 \in 0 .. n
    BY <1>1, <1>2
  <1>4. /\ next \in [Nodes -> Nodes \cup {NULL}] /\ prev \in [Nodes -> Nodes \cup {NULL}]
        /\ expires \in [Timers \cup {Head} -> TimesOfDay \cup {Forever}]
        /\ \A u \in Listed \cup {Head, t} : u \in Nodes /\ u \in Timers \cup {Head}
    BY <1>1 DEF TypeOK, Nodes
  <1>5. /\ nx[t] = r[k] /\ nx[r[k - 1]] = t
        /\ \A u \in Listed \cup {Head} : u # r[k - 1] => nx[u] = next[u]
    BY <1>1, <1>2, <1>3, <1>4
  <1>6. /\ pv[t] = r[k - 1] /\ pv[r[k]] = t
        /\ \A u \in Listed \cup {Head} : u # r[k] => pv[u] = prev[u]
    BY <1>1, <1>2, <1>3, <1>4
  <1>7. ex[t] = e /\ \A u \in Listed : ex[u] = expires[u]
    BY <1>1, <1>4
  <1>8. \A i, j \in 0 .. n : r[i] = r[j] => i = j
    <2> SUFFICES ASSUME NEW i \in 0 .. n, NEW j \in 0 .. n, r[i] = r[j] PROVE i = j
      OBVIOUS
    <2>1. \A a \in 1 .. n : r[a] # Head
      BY <1>1, <1>2
    <2>2. i # 0 => i \in 1 .. n
      OBVIOUS
    <2>3. j # 0 => j \in 1 .. n
      OBVIOUS
    <2> QED BY <1>2, <2>1, <2>2, <2>3
  <1>9. \A i, j \in 1 .. n + 1 : r[i] = r[j] => i = j
    <2> SUFFICES ASSUME NEW i \in 1 .. n + 1, NEW j \in 1 .. n + 1, r[i] = r[j] PROVE i = j
      OBVIOUS
    <2>1. \A a \in 1 .. n : r[a] # Head
      BY <1>1, <1>2
    <2>2. i # n + 1 => i \in 1 .. n
      OBVIOUS
    <2>3. j # n + 1 => j \in 1 .. n
      OBVIOUS
    <2> QED BY <1>2, <2>1, <2>2, <2>3
  <1>10. /\ \A i \in 0 .. n + 2 : i < k => q[i] = r[i]
         /\ q[k] = t
         /\ \A i \in 0 .. n + 2 : i > k => q[i] = r[i - 1]
    BY <1>1
  <1>11. q \in [0 .. (n + 1) + 1 -> (Listed \cup {t}) \cup {Head}]
    <2> SUFFICES ASSUME NEW i \in 0 .. (n + 1) + 1
                 PROVE  (IF i < k THEN r[i] ELSE IF i = k THEN t ELSE r[i - 1])
                            \in (Listed \cup {t}) \cup {Head}
      OBVIOUS
    <2>1. i < k => i \in 0 .. n + 1
      BY <1>1
    <2>2. ~(i < k) /\ i # k => i - 1 \in 0 .. n + 1
      BY <1>1
    <2> QED BY <1>2, <2>1, <2>2
  <1> HIDE DEF q
  <1>12. q[0] = Head /\ q[(n + 1) + 1] = Head
    <2>1. 0 \in 0 .. n + 2 /\ 0 < k /\ n + 2 \in 0 .. n + 2 /\ n + 2 > k /\ (n + 1) + 1 = n + 2
          /\ (n + 2) - 1 = n + 1
      BY <1>1
    <2> QED BY <1>2, <1>10, <2>1
  <1>13. ASSUME NEW i \in 1 .. n + 1 PROVE q[i] \in Listed \cup {t}
    <2>1. CASE i < k
      <3>1. i \in 0 .. n + 2 /\ i \in 1 .. n
        BY <1>1, <2>1
      <3> QED BY <1>2, <1>10, <2>1, <3>1
    <2>2. CASE i = k
      BY <1>10, <2>2
    <2>3. CASE i > k
      <3>1. i \in 0 .. n + 2 /\ i - 1 \in 1 .. n
        BY <1>1, <2>3
      <3> QED BY <1>2, <1>10, <2>3, <3>1
    <2> QED BY <1>1, <2>1, <2>2, <2>3
  <1>14. ASSUME NEW i \in 0 .. n + 1 PROVE nx[q[i]] = q[i + 1] /\ pv[q[i + 1]] = q[i]
    <2>1. CASE i + 1 < k
      <3>1. /\ i \in 0 .. n + 2 /\ i < k /\ i + 1 \in 0 .. n + 2
            /\ i \in 0 .. n /\ i # k - 1 /\ i + 1 \in 1 .. n + 1 /\ i + 1 # k
        BY <1>1, <2>1
      <3>2. q[i] = r[i] /\ q[i + 1] = r[i + 1]
        BY <1>10, <2>1, <3>1
      <3>3. r[i] # r[k - 1] /\ r[i + 1] # r[k]
        BY <1>3, <1>8, <1>9, <3>1
      <3>4. r[i] \in Listed \cup {Head} /\ r[i + 1] \in Listed \cup {Head}
        BY <1>2, <3>1
      <3>5. next[r[i]] = r[i + 1] /\ prev[r[i + 1]] = r[i]
        BY <1>2, <3>1
      <3> QED BY <1>5, <1>6, <3>2, <3>3, <3>4, <3>5
    <2>2. CASE i + 1 = k
      <3>1. i \in 0 .. n + 2 /\ i < k /\ i = k - 1
        BY <1>1, <2>2
      <3> QED BY <1>5, <1>6, <1>10, <2>2, <3>1
    <2>3. CASE i = k
      <3>1. i + 1 \in 0 .. n + 2 /\ i + 1 > k /\ (i + 1) - 1 = k
        BY <1>1, <2>3
      <3>2. q[i] = t /\ q[i + 1] = r[k]
        BY <1>10, <2>3, <3>1
      <3> QED BY <1>5, <1>6, <3>2
    <2>4. CASE i > k
      <3>1. /\ i \in 0 .. n + 2 /\ i + 1 \in 0 .. n + 2 /\ i + 1 > k /\ (i + 1) - 1 = i
            /\ i - 1 \in 0 .. n /\ (i - 1) + 1 = i /\ i - 1 # k - 1
            /\ i \in 1 .. n + 1 /\ i # k /\ i - 1 \in 0 .. n + 1
        BY <1>1, <2>4
      <3>2. q[i] = r[i - 1] /\ q[i + 1] = r[i]
        BY <1>10, <2>4, <3>1
      <3>3. r[i - 1] # r[k - 1] /\ r[i] # r[k]
        BY <1>3, <1>8, <1>9, <3>1
      <3>4. r[i - 1] \in Listed \cup {Head} /\ r[i] \in Listed \cup {Head}
        BY <1>2, <3>1
      <3>5. next[r[i - 1]] = r[i] /\ prev[r[i]] = r[i - 1]
        BY <1>2, <3>1
      <3> QED BY <1>5, <1>6, <3>2, <3>3, <3>4, <3>5
    <2> QED BY <1>1, <2>1, <2>2, <2>3, <2>4
  <1>15. ASSUME NEW i \in 1 .. n + 1, NEW j \in 1 .. n + 1, q[i] = q[j] PROVE i = j
    <2> DEFINE pos(a) == IF a < k THEN a ELSE a - 1
    <2>1. ASSUME NEW a \in 1 .. n + 1, a # k
          PROVE  pos(a) \in 1 .. n /\ q[a] = r[pos(a)]
      <3>1. a \in 0 .. n + 2 /\ (a < k \/ a > k)
        BY <1>1, <2>1
      <3>2. pos(a) \in 1 .. n
        BY <1>1, <2>1
      <3> QED BY <1>1, <1>10, <3>1, <3>2
    <2>2. CASE i = k \/ j = k
      BY <1>1, <1>2, <1>10, <1>15, <2>1, <2>2
    <2>3. CASE i # k /\ j # k
      <3>1. pos(i) = pos(j)
        <4> HIDE DEF pos
        <4> QED BY <1>2, <1>15, <2>1, <2>3
      <3> QED BY <1>1, <2>3, <3>1
    <2> QED BY <2>2, <2>3
  <1>16. ASSUME NEW u \in Listed \cup {t} PROVE \E i \in 1 .. n + 1 : q[i] = u
    <2>1. CASE u = t
      BY <1>10, <2>1
    <2>2. CASE u \in Listed
      <3>1. PICK i \in 1 .. n : r[i] = u
        BY <1>2, <2>2
      <3>2. CASE i < k
        <4>1. i \in 0 .. n + 2 /\ i \in 1 .. n + 1
          OBVIOUS
        <4> QED BY <1>10, <3>1, <3>2, <4>1
      <3>3. CASE ~(i < k)
        <4>1. i + 1 \in 0 .. n + 2 /\ i + 1 \in 1 .. n + 1 /\ i + 1 > k /\ (i + 1) - 1 = i
          BY <1>1, <3>3
        <4> QED BY <1>10, <3>1, <4>1
      <3> QED BY <3>2, <3>3
    <2> QED BY <2>1, <2>2
  <1>17. ASSUME NEW i \in 1 .. n + 1, NEW j \in 1 .. n + 1, i <= j PROVE ex[q[i]] <= ex[q[j]]
    <2>1. e \in Nat /\ \A a \in 1 .. n : expires[r[a]] \in Nat
      BY RingExpires, TimesNat
    <2>2. ASSUME NEW a \in 1 .. n + 1, a < k
          PROVE  a \in 1 .. n /\ q[a] = r[a] /\ ex[q[a]] = expires[r[a]] /\ expires[r[a]] < e
      <3>1. a \in 0 .. n + 2 /\ a \in 1 .. n /\ a \in 1 .. k - 1
        BY <1>1, <2>2
      <3> QED BY <1>2, <1>7, <1>10, <2>2, <3>1
    <2>3. ASSUME NEW a \in 1 .. n + 1, a > k
          PROVE  a - 1 \in 1 .. n /\ q[a] = r[a - 1] /\ ex[q[a]] = expires[r[a - 1]]
                 /\ e <= expires[r[a - 1]]
      <3>1. a \in 0 .. n + 2 /\ a - 1 \in 1 .. n /\ k \in 1 .. n /\ k <= a - 1
        BY <1>1, <2>3
      <3>2. expires[r[k]] <= expires[r[a - 1]]
        BY <1>2, <3>1
      <3>3. e <= expires[r[a - 1]]
        BY <2>1, <3>1, <3>2
      <3> QED BY <1>2, <1>7, <1>10, <2>3, <3>1, <3>3
    <2>4. ex[q[k]] = e
      BY <1>7, <1>10
    <2>5. CASE i < k /\ j < k
      BY <1>2, <1>17, <2>2, <2>5
    <2>6. CASE i < k /\ j = k
      BY <2>1, <2>2, <2>4, <2>6
    <2>7. CASE i < k /\ j > k
      BY <2>1, <2>2, <2>3, <2>7
    <2>8. CASE i = k /\ j = k
      BY <2>1, <2>4, <2>8
    <2>9. CASE i = k /\ j > k
      BY <2>3, <2>4, <2>9
    <2>10. CASE i > k /\ j > k
      <3>1. i - 1 <= j - 1
        BY <1>17
      <3> QED BY <1>2, <2>3, <2>10, <3>1
    <2> QED BY <1>1, <1>17, <2>5, <2>6, <2>7, <2>8, <2>9, <2>10
  <1>18. IsRing(nx, pv, ex, Listed \cup {t}, n + 1, q)
    BY <1>11, <1>12, <1>13, <1>14, <1>15, <1>16, <1>17 DEF IsRing
  <1> QED BY <1>11, <1>18

\* Unlinking the k-th member keeps the ring of the others.
LEMMA RingRemove ==
    ASSUME TypeOK, ExpiryInv, NEW n \in Nat, NEW r,
           IsRing(next, prev, expires, Listed, n, r),
           NEW k \in 1 .. n, NEW t, t = r[k],
           NEW nx, nx = [next EXCEPT ![prev[t]] = next[t], ![t] = NULL],
           NEW pv, pv = [prev EXCEPT ![next[t]] = prev[t], ![t] = NULL]
    PROVE  \E q \in [0 .. (n - 1) + 1 -> (Listed \ {t}) \cup {Head}] :
              IsRing(nx, pv, expires, Listed \ {t}, n - 1, q)
  <1> DEFINE q == [i \in 0 .. (n - 1) + 1 |-> IF i < k THEN r[i] ELSE r[i + 1]]
  <1>1. k \in Nat /\ Listed \subseteq Timers /\ Head \notin Listed
    BY TimersAssumption DEF Plain, Listed, Timers
  <1>2. /\ r[0] = Head /\ r[n + 1] = Head
        /\ \A i \in 0 .. n + 1 : r[i] \in Listed \cup {Head}
        /\ \A i \in 1 .. n : r[i] \in Listed
        /\ \A i \in 0 .. n : next[r[i]] = r[i + 1] /\ prev[r[i + 1]] = r[i]
        /\ \A i, j \in 1 .. n : r[i] = r[j] => i = j
        /\ \A u \in Listed : \E i \in 1 .. n : r[i] = u
        /\ \A i, j \in 1 .. n : i <= j => expires[r[i]] <= expires[r[j]]
    BY DEF IsRing
  <1>3. next[t] = r[k + 1] /\ prev[t] = r[k - 1]
    <2>1. k \in 0 .. n /\ k - 1 \in 0 .. n /\ (k - 1) + 1 = k
      BY <1>1
    <2> QED BY <1>2, <2>1
  <1>4. t \in Listed /\ t # Head
    BY <1>1, <1>2
  <1>5. /\ next \in [Nodes -> Nodes \cup {NULL}] /\ prev \in [Nodes -> Nodes \cup {NULL}]
        /\ \A u \in Listed \cup {Head} : u \in Nodes
    BY <1>1 DEF TypeOK, Nodes
  <1>6. \A i, j \in 0 .. n : r[i] = r[j] => i = j
    <2> SUFFICES ASSUME NEW i \in 0 .. n, NEW j \in 0 .. n, r[i] = r[j] PROVE i = j
      OBVIOUS
    <2>1. \A a \in 1 .. n : r[a] # Head
      BY <1>1, <1>2
    <2>2. i # 0 => i \in 1 .. n
      OBVIOUS
    <2>3. j # 0 => j \in 1 .. n
      OBVIOUS
    <2> QED BY <1>2, <2>1, <2>2, <2>3
  <1>7. \A i, j \in 1 .. n + 1 : r[i] = r[j] => i = j
    <2> SUFFICES ASSUME NEW i \in 1 .. n + 1, NEW j \in 1 .. n + 1, r[i] = r[j] PROVE i = j
      OBVIOUS
    <2>1. \A a \in 1 .. n : r[a] # Head
      BY <1>1, <1>2
    <2>2. i # n + 1 => i \in 1 .. n
      OBVIOUS
    <2>3. j # n + 1 => j \in 1 .. n
      OBVIOUS
    <2> QED BY <1>2, <2>1, <2>2, <2>3
  <1>8. r[k - 1] # t /\ r[k + 1] # t /\ r[k - 1] \in Listed \cup {Head} /\ r[k + 1] \in Listed \cup {Head}
    <2>1. /\ k - 1 \in 0 .. n /\ k \in 0 .. n /\ k - 1 # k /\ k + 1 \in 1 .. n + 1 /\ k \in 1 .. n + 1
          /\ k + 1 # k /\ k - 1 \in 0 .. n + 1 /\ k + 1 \in 0 .. n + 1
      BY <1>1
    <2> QED BY <1>2, <1>6, <1>7, <2>1
  <1>9. /\ nx[r[k - 1]] = r[k + 1] /\ pv[r[k + 1]] = r[k - 1]
        /\ \A u \in Listed \cup {Head} : u # r[k - 1] /\ u # t => nx[u] = next[u]
        /\ \A u \in Listed \cup {Head} : u # r[k + 1] /\ u # t => pv[u] = prev[u]
    BY <1>3, <1>4, <1>5, <1>8
  <1>10. \A i \in 0 .. n : q[i] = IF i < k THEN r[i] ELSE r[i + 1]
    OBVIOUS
  <1>11. q \in [0 .. (n - 1) + 1 -> (Listed \ {t}) \cup {Head}]
    <2> SUFFICES ASSUME NEW i \in 0 .. (n - 1) + 1
                 PROVE  (IF i < k THEN r[i] ELSE r[i + 1]) \in (Listed \ {t}) \cup {Head}
      OBVIOUS
    <2>1. CASE i < k
      <3>1. i \in 0 .. n /\ k \in 0 .. n /\ i # k /\ i \in 0 .. n + 1
        BY <1>1, <2>1
      <3> QED BY <1>2, <1>6, <2>1, <3>1
    <2>2. CASE ~(i < k)
      <3>1. i + 1 \in 1 .. n + 1 /\ k \in 1 .. n + 1 /\ i + 1 # k /\ i + 1 \in 0 .. n + 1
        BY <1>1, <2>2
      <3> QED BY <1>2, <1>7, <2>2, <3>1
    <2> QED BY <2>1, <2>2
  <1> HIDE DEF q
  <1>12. q[0] = Head /\ q[(n - 1) + 1] = Head
    <2>1. 0 \in 0 .. n /\ 0 < k /\ n \in 0 .. n /\ ~(n < k) /\ (n - 1) + 1 = n
      BY <1>1
    <2> QED BY <1>2, <1>10, <2>1
  <1> DEFINE pos(a) == IF a < k THEN a ELSE a + 1
  <1>13. ASSUME NEW a \in 1 .. n - 1
         PROVE  /\ a \in 0 .. n /\ pos(a) \in 1 .. n /\ pos(a) # k /\ q[a] = r[pos(a)]
                /\ q[a] \in Listed \ {t}
    <2>1. a \in 0 .. n /\ pos(a) \in 1 .. n /\ pos(a) # k
      BY <1>1
    <2>2. q[a] = r[pos(a)]
      BY <1>10, <2>1
    <2> QED BY <1>2, <2>1, <2>2
  <1>14. ASSUME NEW i \in 0 .. n - 1 PROVE nx[q[i]] = q[i + 1] /\ pv[q[i + 1]] = q[i]
    <2>1. CASE i + 1 < k
      <3>1. /\ i \in 0 .. n /\ i < k /\ i + 1 \in 0 .. n /\ i # k - 1 /\ k - 1 \in 0 .. n /\ k \in 0 .. n
            /\ i # k /\ i + 1 # k /\ i + 1 \in 1 .. n + 1 /\ k + 1 \in 1 .. n + 1 /\ i + 1 # k + 1
            /\ i \in 0 .. n + 1 /\ i + 1 \in 0 .. n + 1
        BY <1>1, <2>1
      <3>2. q[i] = r[i] /\ q[i + 1] = r[i + 1]
        BY <1>10, <2>1, <3>1
      <3>3. r[i] # r[k - 1] /\ r[i] # t /\ r[i + 1] # t /\ r[i + 1] # r[k + 1]
        BY <1>6, <1>7, <3>1
      <3>4. r[i] \in Listed \cup {Head} /\ r[i + 1] \in Listed \cup {Head}
        BY <1>2, <3>1
      <3>5. next[r[i]] = r[i + 1] /\ prev[r[i + 1]] = r[i]
        BY <1>2, <3>1
      <3> QED BY <1>9, <3>2, <3>3, <3>4, <3>5
    <2>2. CASE i + 1 = k
      <3>1. i \in 0 .. n /\ i < k /\ i = k - 1 /\ k \in 0 .. n /\ ~(k < k)
        BY <1>1, <2>2
      <3>2. q[i] = r[k - 1] /\ q[i + 1] = r[k + 1]
        BY <1>10, <2>2, <3>1
      <3> QED BY <1>9, <3>2
    <2>3. CASE i + 1 > k
      <3>1. /\ i \in 0 .. n /\ i + 1 \in 0 .. n /\ ~(i < k) /\ ~(i + 1 < k)
            /\ k - 1 \in 0 .. n /\ k \in 0 .. n /\ i + 1 # k - 1 /\ i + 1 # k
            /\ k \in 1 .. n + 1 /\ k + 1 \in 1 .. n + 1 /\ (i + 1) + 1 \in 1 .. n + 1
            /\ (i + 1) + 1 # k + 1 /\ (i + 1) + 1 # k
            /\ i + 1 \in 0 .. n + 1 /\ (i + 1) + 1 \in 0 .. n + 1
        BY <1>1, <2>3
      <3>2. q[i] = r[i + 1] /\ q[i + 1] = r[(i + 1) + 1]
        BY <1>10, <3>1
      <3>3. /\ r[i + 1] # r[k - 1] /\ r[i + 1] # t
            /\ r[(i + 1) + 1] # t /\ r[(i + 1) + 1] # r[k + 1]
        BY <1>6, <1>7, <3>1
      <3>4. r[i + 1] \in Listed \cup {Head} /\ r[(i + 1) + 1] \in Listed \cup {Head}
        BY <1>2, <3>1
      <3>5. next[r[i + 1]] = r[(i + 1) + 1] /\ prev[r[(i + 1) + 1]] = r[i + 1]
        BY <1>2, <3>1
      <3> QED BY <1>9, <3>2, <3>3, <3>4, <3>5
    <2> QED BY <1>1, <2>1, <2>2, <2>3
  <1>15. ASSUME NEW i \in 1 .. n - 1, NEW j \in 1 .. n - 1, q[i] = q[j] PROVE i = j
    <2>1. pos(i) = pos(j)
      <3> HIDE DEF pos
      <3> QED BY <1>2, <1>13, <1>15
    <2> QED BY <1>1, <2>1
  <1>16. ASSUME NEW u \in Listed \ {t} PROVE \E i \in 1 .. n - 1 : q[i] = u
    <2>1. PICK i \in 1 .. n : r[i] = u
      BY <1>2
    <2>2. CASE i < k
      <3>1. i \in 0 .. n /\ i \in 1 .. n - 1
        BY <1>1, <2>2
      <3> QED BY <1>10, <2>1, <2>2, <3>1
    <2>3. CASE i > k
      <3>1. i - 1 \in 0 .. n /\ i - 1 \in 1 .. n - 1 /\ ~(i - 1 < k) /\ (i - 1) + 1 = i
        BY <1>1, <2>3
      <3>2. q[i - 1] = r[i]
        BY <1>10, <3>1
      <3> QED BY <2>1, <3>1, <3>2
    <2>4. i # k
      BY <2>1
    <2> QED BY <1>1, <2>2, <2>3, <2>4
  <1>17. ASSUME NEW i \in 1 .. n - 1, NEW j \in 1 .. n - 1, i <= j
         PROVE  expires[q[i]] <= expires[q[j]]
    <2>1. pos(i) <= pos(j)
      BY <1>1, <1>17
    <2> HIDE DEF pos
    <2> QED BY <1>2, <1>13, <2>1
  <1>18. n - 1 \in Nat /\ (n - 1) + 1 = n
    BY <1>1
  <1>19. IsRing(nx, pv, expires, Listed \ {t}, n - 1, q)
    BY <1>11, <1>12, <1>13, <1>14, <1>15, <1>16, <1>17, <1>18 DEF IsRing
  <1> QED BY <1>11, <1>19

-----------------------------------------------------------------------------
(* The steps. *)

\* The parts of the heap: the list, the wheel and timer_head are disjoint.
LEMMA Parts ==
    ASSUME UsedOneWay
    PROVE  /\ Plain = AddTimers /\ AddTimers \subseteq Nodes /\ Wheel \subseteq Nodes /\ Head \in Nodes
           /\ NULL \notin Nodes /\ Head \notin Wheel /\ Head \notin AddTimers
           /\ \A t \in AddTimers : t \notin Wheel
           /\ Listed \subseteq AddTimers
  BY TimersAssumption, SlotsAssumption DEF UsedOneWay, Plain, Nodes, Wheel, Timers, Listed

LEMMA InitInv == ASSUME UsedOneWay PROVE Init => TimersInv
  <1> SUFFICES ASSUME Init PROVE TimersInv
    OBVIOUS
  <1>1. /\ next = [n \in Nodes |-> IF n = Head THEN Head ELSE NULL] /\ prev = next
        /\ expires = [n \in Timers \cup {Head} |-> IF n = Head THEN Forever ELSE 0]
        /\ Head \notin Timers
    BY TimersAssumption DEF Init
  <1>2. Listed = {} /\ next[Head] = Head /\ prev[Head] = Head
    BY <1>1, Parts DEF Listed
  <1>3. 0 \in TimesOfDay
    BY TimersAssumption DEF TimesOfDay
  <1>4. TypeOK
    <2>1. next \in [Nodes -> Nodes \cup {NULL}]
      BY <1>1, Parts
    <2>2. expires \in [Timers \cup {Head} -> TimesOfDay \cup {Forever}]
      BY <1>1, <1>3
    <2> QED BY <1>1, <1>3, <2>1, <2>2 DEF Init, TypeOK
  <1>5. RingInv
    <2> DEFINE r == [i \in 0 .. 0 + 1 |-> Head]
    <2>1. IsRing(next, prev, expires, Listed, 0, r)
      BY <1>2 DEF IsRing
    <2>2. r \in [0 .. 0 + 1 -> Listed \cup {Head}]
      OBVIOUS
    <2> QED BY <2>1, <2>2 DEF RingInv
  <1>6. WheelInv
    BY <1>1, Parts DEF WheelInv
  <1>7. ExpiryInv
    BY <1>1, <1>3 DEF ExpiryInv
  <1> QED BY <1>4, <1>5, <1>6, <1>7 DEF TimersInv, Init

LEMMA AddTimerStep ==
    ASSUME UsedOneWay, TimersInv, NEW t \in AddTimers, NEW e \in ExpiryTimes, add_timer(t, e)
    PROVE  TimersInv' /\ Listed' = Listed \cup {t} /\ t \notin Listed
  <1> USE DEF TimersInv
  <1>1. e \in TimesOfDay
    BY DEF ExpiryTimes
  <1>2. t \in Plain \ Listed /\ t \in Timers
    BY Parts DEF add_timer, Listed, Timers
  <1>3. PICK n \in Nat : \E r \in [0 .. n + 1 -> Listed \cup {Head}] :
            IsRing(next, prev, expires, Listed, n, r)
    BY DEF RingInv
  <1>4. PICK r \in [0 .. n + 1 -> Listed \cup {Head}] : IsRing(next, prev, expires, Listed, n, r)
    BY <1>3
  <1>5. PICK k \in 1 .. n + 1 : /\ Place(e) = r[k]
                                /\ e <= expires[r[k]]
                                /\ \A i \in 1 .. k - 1 : expires[r[i]] < e
    BY <1>1, <1>4, PlaceFinds
  <1>6. /\ next' = [next EXCEPT ![t] = r[k], ![prev[r[k]]] = t]
        /\ prev' = [prev EXCEPT ![t] = prev[r[k]], ![r[k]] = t]
        /\ expires' = [expires EXCEPT ![t] = e]
        /\ UNCHANGED <<jiffies, tq_timer, tick, running, taken>>
    BY <1>5 DEF add_timer
  <1>7. \E q \in [0 .. (n + 1) + 1 -> (Listed \cup {t}) \cup {Head}] :
            IsRing(next', prev', expires', Listed \cup {t}, n + 1, q)
    <2> DEFINE nx == next'
    <2> DEFINE pv == prev'
    <2> DEFINE ex == expires'
    <2>1. /\ nx = [next EXCEPT ![t] = r[k], ![prev[r[k]]] = t]
          /\ pv = [prev EXCEPT ![t] = prev[r[k]], ![r[k]] = t]
          /\ ex = [expires EXCEPT ![t] = e]
      BY <1>6
    <2> HIDE DEF nx, pv, ex
    <2>2. \E q \in [0 .. (n + 1) + 1 -> (Listed \cup {t}) \cup {Head}] :
              IsRing(nx, pv, ex, Listed \cup {t}, n + 1, q)
      BY <1>1, <1>2, <1>4, <1>5, <2>1, RingInsert
    <2> QED BY <2>2 DEF nx, pv, ex
  <1>8. prev[r[k]] \in Listed \cup {Head} /\ r[k] \in Listed \cup {Head}
    <2>1. k - 1 \in 0 .. n /\ (k - 1) + 1 = k /\ k \in 0 .. n + 1 /\ k - 1 \in 0 .. n + 1
      OBVIOUS
    <2>2. prev[r[k]] = r[k - 1]
      BY <1>4, <2>1 DEF IsRing
    <2> QED BY <1>4, <2>1, <2>2
  <1>9. /\ next \in [Nodes -> Nodes \cup {NULL}] /\ prev \in [Nodes -> Nodes \cup {NULL}]
        /\ t \in Nodes /\ t # NULL /\ prev[r[k]] \in Nodes /\ r[k] \in Nodes /\ r[k] # NULL
    BY <1>8, Parts DEF TypeOK
  <1>10. Listed' = Listed \cup {t}
    <2>1. /\ next'[t] # NULL
          /\ \A u \in Plain \ {t} : u # prev[r[k]] => next'[u] = next[u]
          /\ next'[prev[r[k]]] # NULL
      BY <1>6, <1>9, Parts
    <2>2. \A u \in Plain \ {t} : next'[u] # NULL <=> next[u] # NULL
      BY <1>8, <2>1, Parts DEF Listed
    <2> QED BY <1>2, <2>1, <2>2 DEF Listed
  <1>11. RingInv'
    <2>1. n + 1 \in Nat
      OBVIOUS
    <2> QED BY <1>7, <1>10, <2>1 DEF RingInv
  <1>12. WheelInv'
    <2>1. ASSUME NEW m \in Wheel PROVE next'[m] = next[m] /\ prev'[m] = prev[m]
      BY <1>6, <1>8, <1>9, Parts
    <2> QED BY <2>1 DEF WheelInv, Wheel, Slots, Slot, TimesOfDay
  <1>13. TypeOK'
    <2>1. next' \in [Nodes -> Nodes \cup {NULL}] /\ prev' \in [Nodes -> Nodes \cup {NULL}]
      BY <1>6, <1>9
    <2>2. expires' \in [Timers \cup {Head} -> TimesOfDay \cup {Forever}]
      BY <1>1, <1>2, <1>6 DEF TypeOK
    <2> QED BY <1>6, <2>1, <2>2 DEF TypeOK
  <1>14. ExpiryInv'
    BY <1>1, <1>2, <1>6, TimersAssumption DEF ExpiryInv, TypeOK
  <1> QED BY <1>2, <1>6, <1>10, <1>11, <1>12, <1>13, <1>14

LEMMA UnlinkStep ==
    ASSUME UsedOneWay, TimersInv, NEW t \in Listed, Unlink(t), expires' = expires
    PROVE  /\ RingInv' /\ WheelInv' /\ ExpiryInv' /\ Listed' = Listed \ {t}
           /\ next' \in [Nodes -> Nodes \cup {NULL}] /\ prev' \in [Nodes -> Nodes \cup {NULL}]
  <1> USE DEF TimersInv
  <1>1. PICK n \in Nat : \E r \in [0 .. n + 1 -> Listed \cup {Head}] :
            IsRing(next, prev, expires, Listed, n, r)
    BY DEF RingInv
  <1>2. PICK r \in [0 .. n + 1 -> Listed \cup {Head}] : IsRing(next, prev, expires, Listed, n, r)
    BY <1>1
  <1>3. PICK k \in 1 .. n : t = r[k]
    BY <1>2 DEF IsRing
  <1>4. /\ next' = [next EXCEPT ![prev[t]] = next[t], ![t] = NULL]
        /\ prev' = [prev EXCEPT ![next[t]] = prev[t], ![t] = NULL]
    BY DEF Unlink
  <1>5. \E q \in [0 .. (n - 1) + 1 -> (Listed \ {t}) \cup {Head}] :
            IsRing(next', prev', expires, Listed \ {t}, n - 1, q)
    <2> DEFINE nx == next'
    <2> DEFINE pv == prev'
    <2>1. /\ nx = [next EXCEPT ![prev[t]] = next[t], ![t] = NULL]
          /\ pv = [prev EXCEPT ![next[t]] = prev[t], ![t] = NULL]
      BY <1>4
    <2> HIDE DEF nx, pv
    <2>2. \E q \in [0 .. (n - 1) + 1 -> (Listed \ {t}) \cup {Head}] :
              IsRing(nx, pv, expires, Listed \ {t}, n - 1, q)
      BY <1>2, <1>3, <2>1, RingRemove
    <2> QED BY <2>2 DEF nx, pv
  <1>6. prev[t] \in Listed \cup {Head} /\ next[t] \in Listed \cup {Head}
    <2>1. k - 1 \in 0 .. n /\ (k - 1) + 1 = k /\ k \in 0 .. n /\ k - 1 \in 0 .. n + 1 /\ k + 1 \in 0 .. n + 1
      OBVIOUS
    <2>2. prev[t] = r[k - 1] /\ next[t] = r[k + 1]
      BY <1>2, <1>3, <2>1 DEF IsRing
    <2> QED BY <1>2, <2>1, <2>2
  <1>7. /\ next \in [Nodes -> Nodes \cup {NULL}] /\ prev \in [Nodes -> Nodes \cup {NULL}]
        /\ t \in Nodes /\ prev[t] \in Nodes /\ next[t] \in Nodes /\ NULL \notin Nodes
    BY <1>6, Parts DEF TypeOK
  <1>8. next' \in [Nodes -> Nodes \cup {NULL}] /\ prev' \in [Nodes -> Nodes \cup {NULL}]
    BY <1>4, <1>7
  <1>9. Listed' = Listed \ {t}
    <2>1. /\ next'[t] = NULL
          /\ \A u \in Plain \ {t} : u # prev[t] => next'[u] = next[u]
          /\ prev[t] # t => next'[prev[t]] # NULL
      BY <1>4, <1>7, Parts
    <2>2. \A u \in Plain \ {t} : next'[u] # NULL <=> next[u] # NULL
      BY <1>6, <2>1, Parts DEF Listed
    <2> QED BY <2>1, <2>2 DEF Listed
  <1>10. RingInv'
    <2>1. n - 1 \in Nat
      BY <1>3
    <2> QED BY <1>5, <1>9, <2>1 DEF RingInv
  <1>11. WheelInv'
    <2>1. ASSUME NEW m \in Wheel PROVE next'[m] = next[m] /\ prev'[m] = prev[m]
      BY <1>4, <1>6, <1>7, Parts
    <2> QED BY <2>1 DEF WheelInv, Wheel, Slots, Slot, TimesOfDay
  <1>12. ExpiryInv'
    BY DEF ExpiryInv
  <1> QED BY <1>8, <1>9, <1>10, <1>11, <1>12

\* A step that leaves the links and times of the list's timers alone.
LEMMA ListUntouched ==
    ASSUME UsedOneWay, TimersInv,
           \A u \in AddTimers \cup {Head} :
               next'[u] = next[u] /\ prev'[u] = prev[u] /\ expires'[u] = expires[u]
    PROVE  RingInv' /\ Listed' = Listed /\ \A u \in Listed : expires'[u] = expires[u]
  <1>1. Listed' = Listed
    BY Parts DEF Listed
  <1>2. PICK n \in Nat : \E r \in [0 .. n + 1 -> Listed \cup {Head}] :
            IsRing(next, prev, expires, Listed, n, r)
    BY DEF RingInv, TimersInv
  <1>3. PICK r \in [0 .. n + 1 -> Listed \cup {Head}] : IsRing(next, prev, expires, Listed, n, r)
    BY <1>2
  <1>4. \A i \in 0 .. n + 1 : r[i] \in AddTimers \cup {Head}
    BY <1>3, Parts
  <1>5. \A i \in 0 .. n : next'[r[i]] = r[i + 1] /\ prev'[r[i + 1]] = r[i]
    <2> SUFFICES ASSUME NEW i \in 0 .. n
                 PROVE  next'[r[i]] = r[i + 1] /\ prev'[r[i + 1]] = r[i]
      OBVIOUS
    <2>1. i \in 0 .. n + 1 /\ i + 1 \in 0 .. n + 1
      OBVIOUS
    <2> QED BY <1>3, <1>4, <2>1 DEF IsRing
  <1>6. \A i, j \in 1 .. n : i <= j => expires'[r[i]] <= expires'[r[j]]
    <2> SUFFICES ASSUME NEW i \in 1 .. n, NEW j \in 1 .. n, i <= j
                 PROVE  expires'[r[i]] <= expires'[r[j]]
      OBVIOUS
    <2>1. i \in 0 .. n + 1 /\ j \in 0 .. n + 1
      OBVIOUS
    <2> QED BY <1>3, <1>4, <2>1 DEF IsRing
  <1>7. IsRing(next', prev', expires', Listed, n, r)
    BY <1>3, <1>5, <1>6 DEF IsRing
  <1> QED BY <1>1, <1>3, <1>7, Parts DEF RingInv

LEMMA ModTimerStep ==
    ASSUME UsedOneWay, TimersInv, NEW t \in ModTimers, NEW e \in ExpiryTimes, mod_timer(t, e)
    PROVE  TimersInv' /\ Listed' = Listed /\ \A u \in Listed : expires'[u] = expires[u]
  <1> USE DEF TimersInv
  <1> DEFINE slot == Slot(e)
  <1> DEFINE next1 == IF prev[t] # NULL /\ prev[t] # NULL THEN [next EXCEPT ![prev[t]] = next[t]] ELSE next
  <1> DEFINE prev1 == IF prev[t] # NULL /\ next[t] # NULL
                      THEN [prev EXCEPT ![next[t]] = prev[t]] ELSE prev
  <1> DEFINE first == next1[slot]
  <1>1. /\ next' = [next1 EXCEPT ![t] = first, ![slot] = t]
        /\ prev' = [m \in Nodes |-> IF m = t THEN slot ELSE IF m = first THEN t ELSE prev1[m]]
        /\ expires' = [expires EXCEPT ![t] = e]
        /\ UNCHANGED <<jiffies, tq_timer, tick, running, taken>>
    BY DEF mod_timer
  <1>2. e \in TimesOfDay /\ slot \in Slots
    BY DEF ExpiryTimes, Slots
  <1> HIDE DEF slot
  <1>3. /\ t \in Wheel /\ slot \in Wheel /\ t \in Timers /\ t \in Nodes /\ slot \in Nodes
        /\ t \notin AddTimers \cup {Head} /\ slot \notin AddTimers \cup {Head}
        /\ next \in [Nodes -> Nodes \cup {NULL}] /\ prev \in [Nodes -> Nodes \cup {NULL}]
        /\ next[t] \in Wheel \cup {NULL} /\ prev[t] \in Wheel \cup {NULL}
    BY <1>2, Parts DEF Wheel, Timers, WheelInv, TypeOK, UsedOneWay
  <1>4. /\ next1 \in [Nodes -> Nodes \cup {NULL}]
        /\ \A u \in AddTimers \cup {Head} : next1[u] = next[u]
        /\ \A m \in Wheel : next1[m] \in Wheel \cup {NULL}
    BY <1>3, Parts DEF WheelInv
  <1>5. /\ prev1 \in [Nodes -> Nodes \cup {NULL}]
        /\ \A u \in AddTimers \cup {Head} : prev1[u] = prev[u]
        /\ \A m \in Wheel : prev1[m] \in Wheel \cup {NULL}
    BY <1>3, Parts DEF WheelInv
  <1> HIDE DEF next1, prev1
  <1>6. first \in Wheel \cup {NULL}
    BY <1>3, <1>4
  <1> HIDE DEF first
  <1>7. /\ next' \in [Nodes -> Nodes \cup {NULL}]
        /\ \A u \in AddTimers \cup {Head} : next'[u] = next[u]
        /\ \A m \in Wheel : next'[m] \in Wheel \cup {NULL}
    BY <1>1, <1>3, <1>4, <1>6, Parts
  <1>8. /\ prev' \in [Nodes -> Nodes \cup {NULL}]
        /\ \A u \in AddTimers \cup {Head} : prev'[u] = prev[u]
        /\ \A m \in Wheel : prev'[m] \in Wheel \cup {NULL}
    BY <1>1, <1>3, <1>5, <1>6, Parts
  <1>9. /\ expires' \in [Timers \cup {Head} -> TimesOfDay \cup {Forever}]
        /\ \A u \in AddTimers \cup {Head} : expires'[u] = expires[u]
        /\ \A u \in Timers : expires'[u] \in TimesOfDay
    BY <1>1, <1>2, <1>3 DEF TypeOK, ExpiryInv, Timers
  <1>10. RingInv' /\ Listed' = Listed /\ \A u \in Listed : expires'[u] = expires[u]
    BY <1>7, <1>8, <1>9, ListUntouched
  <1>11. TypeOK'
    BY <1>1, <1>7, <1>8, <1>9 DEF TypeOK
  <1>12. WheelInv' /\ ExpiryInv'
    BY <1>7, <1>8, <1>9 DEF WheelInv, ExpiryInv, Wheel, Slots, Slot, TimesOfDay
  <1> QED BY <1>1, <1>10, <1>11, <1>12

\* The steps that do not touch the links.
LEMMA OtherStep ==
    ASSUME UsedOneWay, TimersInv, UNCHANGED links, TypeOK', running' # NULL => tick' = "timers"
    PROVE  TimersInv' /\ Listed' = Listed
  <1>1. RingInv' /\ Listed' = Listed
    BY ListUntouched DEF links
  <1>2. WheelInv' /\ ExpiryInv'
    BY DEF links, TimersInv, WheelInv, ExpiryInv, Wheel, Slots, Slot, TimesOfDay
  <1> QED BY <1>1, <1>2 DEF TimersInv

\* The first timer is the one that expires first.
LEMMA FirstTimer ==
    ASSUME UsedOneWay, TimersInv
    PROVE  /\ next[Head] \in Listed \cup {Head}
           /\ next[Head] # Head => \A u \in Listed : expires[next[Head]] <= expires[u]
           /\ next[Head] = Head => Listed = {}
           /\ \A u \in Listed : expires[u] \in Nat
  <1> USE DEF TimersInv
  <1>1. PICK n \in Nat : \E r \in [0 .. n + 1 -> Listed \cup {Head}] :
            IsRing(next, prev, expires, Listed, n, r)
    BY DEF RingInv
  <1>2. PICK r \in [0 .. n + 1 -> Listed \cup {Head}] : IsRing(next, prev, expires, Listed, n, r)
    BY <1>1
  <1>3. next[Head] = r[1] /\ r[1] \in Listed \cup {Head}
    BY <1>2 DEF IsRing
  <1>4. Head \notin Listed
    BY Parts
  <1>5. ASSUME NEW u \in Listed PROVE next[Head] # Head /\ expires[next[Head]] <= expires[u]
    <2>1. PICK i \in 1 .. n : r[i] = u
      BY <1>2 DEF IsRing
    <2>2. 1 \in 1 .. n /\ 1 <= i
      OBVIOUS
    <2>3. r[1] \in Listed /\ expires[r[1]] <= expires[r[i]]
      BY <1>2, <2>2 DEF IsRing
    <2> QED BY <1>3, <1>4, <2>1, <2>3
  <1>6. \A u \in Listed : expires[u] \in Nat
    BY TimesNat, Parts DEF ExpiryInv, Timers
  <1> QED BY <1>3, <1>5, <1>6

LEMMA FireFirstStep ==
    ASSUME UsedOneWay, TimersInv, FireFirst
    PROVE  TimersInv' /\ next[Head] \in Listed /\ Listed' = Listed \ {next[Head]}
  <1>1. next[Head] \in Listed
    BY FirstTimer DEF FireFirst, Expired
  <1>2. Unlink(next[Head]) /\ expires' = expires
    BY DEF FireFirst
  <1>3. /\ RingInv' /\ WheelInv' /\ ExpiryInv' /\ Listed' = Listed \ {next[Head]}
        /\ next' \in [Nodes -> Nodes \cup {NULL}] /\ prev' \in [Nodes -> Nodes \cup {NULL}]
    BY <1>1, <1>2, UnlinkStep
  <1>4. TypeOK' /\ tick' = "timers"
    BY <1>1, <1>2, <1>3, Parts DEF TimersInv, TypeOK, FireFirst, Timers
  <1> QED BY <1>1, <1>3, <1>4 DEF TimersInv

LEMMA DelTimerStep ==
    ASSUME UsedOneWay, TimersInv, NEW t \in AddTimers, del_timer(t)
    PROVE  TimersInv' /\ t \in Listed /\ Listed' = Listed \ {t}
  <1>1. t \in Listed /\ Unlink(t) /\ expires' = expires
    BY Parts DEF del_timer, Listed
  <1>2. /\ RingInv' /\ WheelInv' /\ ExpiryInv' /\ Listed' = Listed \ {t}
        /\ next' \in [Nodes -> Nodes \cup {NULL}] /\ prev' \in [Nodes -> Nodes \cup {NULL}]
    BY <1>1, UnlinkStep
  <1>3. TypeOK'
    BY <1>1, <1>2 DEF TimersInv, TypeOK, del_timer
  <1> QED BY <1>1, <1>2, <1>3 DEF TimersInv, del_timer

\* The rest of a tick, and queue_task.
LEMMA TickSteps ==
    ASSUME UsedOneWay, TimersInv,
           \/ timer_interrupt \/ FunctionReturns \/ TakeTasks \/ Return
           \/ \E k \in Tasks : TaskReturns(k) \/ queue_task(k)
           \/ UNCHANGED vars
    PROVE  TimersInv' /\ Listed' = Listed /\ expires' = expires
  <1> USE DEF TimersInv, TypeOK
  <1>1. UNCHANGED links
    BY DEF timer_interrupt, FunctionReturns, TakeTasks, Return, TaskReturns, queue_task, vars, links
  <1>2. TypeOK'
    <2>1. CASE timer_interrupt
      BY <1>1, <2>1, TimersAssumption DEF timer_interrupt, TimesOfDay, links
    <2>2. CASE FunctionReturns \/ TakeTasks \/ Return \/ UNCHANGED vars
      BY <1>1, <2>2 DEF FunctionReturns, TakeTasks, Return, vars, links
    <2>3. ASSUME NEW k \in Tasks, TaskReturns(k) \/ queue_task(k) PROVE TypeOK'
      BY <1>1, <2>3 DEF TaskReturns, queue_task, links
    <2> QED BY <2>1, <2>2, <2>3
  <1>3. running' # NULL => tick' = "timers"
    BY DEF timer_interrupt, FunctionReturns, TakeTasks, Return, TaskReturns, queue_task, vars
  <1> QED BY <1>1, <1>2, <1>3, OtherStep DEF links

LEMMA NextInv ==
    ASSUME UsedOneWay, TimersInv, [Next]_vars
    PROVE  TimersInv'
  BY TickSteps, FireFirstStep, DelTimerStep, AddTimerStep, ModTimerStep DEF Next, do_timer

-----------------------------------------------------------------------------
(* The theorems. *)

\* The list of pending timers is one sorted ring through timer_head after
\* every call of timer.c's functions, by drivers, handlers or tasks.
THEOREM TimersCorrect == UsedOneWay => (Spec => []TimersInv)
  <1> SUFFICES ASSUME UsedOneWay PROVE Spec => []TimersInv
    OBVIOUS
  <1>1. Init => TimersInv
    BY InitInv
  <1>2. TimersInv /\ [Next]_vars => TimersInv'
    BY NextInv
  <1> QED BY <1>1, <1>2, PTL DEF Spec

\* The links agree in both directions and never lead back in time.
THEOREM ListStaysIntact == UsedOneWay => (Spec => []ListIntact)
  <1> SUFFICES ASSUME UsedOneWay PROVE Spec => []ListIntact
    OBVIOUS
  <1>1. TimersInv => ListIntact
    <2> SUFFICES ASSUME TimersInv, NEW m \in Listed \cup {Head}
                 PROVE  /\ next[m] \in Listed \cup {Head} /\ prev[next[m]] = m
                        /\ prev[m] \in Listed \cup {Head} /\ next[prev[m]] = m
                        /\ next[m] # Head => m = Head \/ expires[m] <= expires[next[m]]
      BY DEF ListIntact
    <2>1. PICK n \in Nat : \E r \in [0 .. n + 1 -> Listed \cup {Head}] :
              IsRing(next, prev, expires, Listed, n, r)
      BY DEF TimersInv, RingInv
    <2>2. PICK r \in [0 .. n + 1 -> Listed \cup {Head}] :
              IsRing(next, prev, expires, Listed, n, r)
      BY <2>1
    <2>3. PICK i \in 0 .. n : r[i] = m
      <3>1. m # Head => \E i \in 1 .. n : r[i] = m
        BY <2>2 DEF IsRing
      <3>2. 0 \in 0 .. n /\ r[0] = Head /\ \A i \in 1 .. n : i \in 0 .. n
        BY <2>2 DEF IsRing
      <3> QED BY <3>1, <3>2
    <2>4. PICK j \in 0 .. n : r[j + 1] = m
      <3>1. m # Head => \E j \in 1 .. n : r[j] = m
        BY <2>2 DEF IsRing
      <3>2. ASSUME NEW j \in 1 .. n PROVE j - 1 \in 0 .. n /\ (j - 1) + 1 = j
        OBVIOUS
      <3>3. n \in 0 .. n /\ r[n + 1] = Head
        BY <2>2 DEF IsRing
      <3> QED BY <3>1, <3>2, <3>3
    <2>5. next[m] = r[i + 1] /\ prev[r[i + 1]] = m /\ r[i + 1] \in Listed \cup {Head}
      BY <2>2, <2>3 DEF IsRing
    <2>6. prev[m] = r[j] /\ next[r[j]] = m /\ r[j] \in Listed \cup {Head}
      BY <2>2, <2>4 DEF IsRing
    <2>7. next[m] # Head => m = Head \/ expires[m] <= expires[next[m]]
      <3> SUFFICES ASSUME r[i + 1] # Head, m # Head PROVE expires[r[i]] <= expires[r[i + 1]]
        BY <2>3, <2>5
      <3>1. i + 1 \in 1 .. n /\ i \in 1 .. n /\ i <= i + 1
        BY <2>2, <2>3 DEF IsRing
      <3> QED BY <2>2, <3>1 DEF IsRing
    <2> QED BY <2>5, <2>6, <2>7
  <1> QED BY <1>1, TimersCorrect, PTL

\* timer.c implements the queue of pending timers: a tick fires every
\* expired timer once, in order of expiry, and no deleted or early one.
THEOREM TimersImplementQueue == UsedOneWay => (Spec => ImplementsQueue)
  <1> SUFFICES ASSUME UsedOneWay PROVE Spec => Queue!QueueSpec
    BY DEF ImplementsQueue
  <1> DEFINE due == [t \in Listed |-> expires[t]]
  <1>1. Init => Queue!QueueInit
    <2> SUFFICES ASSUME Init PROVE Queue!QueueInit
      OBVIOUS
    <2>1. Listed = {}
      BY Parts DEF Init, Listed
    <2>2. due = << >>
      BY <2>1
    <2> QED BY <2>2 DEF Init, Queue!QueueInit
  <1>2. TimersInv /\ [Next]_vars => [Queue!QueueNext]_(Queue!queueVars)
    <2> SUFFICES ASSUME TimersInv, [Next]_vars
                 PROVE  Queue!QueueNext \/ UNCHANGED Queue!queueVars
      OBVIOUS
    <2> USE DEF Queue!queueVars, Queue!Pending
    <2>1. Plain = AddTimers
      BY Parts
    <2>2. CASE timer_interrupt
      <3>1. due' = due
        BY <2>2, TickSteps
      <3> QED BY <2>2, <3>1 DEF timer_interrupt, Queue!QueueNext, Queue!Tick
    <2>3. CASE FireFirst
      <3>1. PICK t \in Plain : t = next[Head]
        BY <2>3, FireFirstStep DEF Listed
      <3>2. /\ t \in Listed /\ Listed' = Listed \ {t}
            /\ expires' = expires /\ expires[t] <= jiffies
            /\ \A u \in Listed : expires[t] <= expires[u]
        BY <2>3, <3>1, FireFirstStep, FirstTimer, Parts DEF FireFirst, Expired
      <3>3. due' = [u \in Listed \ {t} |-> due[u]]
        BY <3>2
      <3>4. Queue!Fire(t)
        BY <2>3, <3>1, <3>2, <3>3 DEF FireFirst, Queue!Fire, Queue!Without, Queue!Restrict
      <3> QED BY <3>4 DEF Queue!QueueNext
    <2>4. CASE FunctionReturns
      <3>1. due' = due
        BY <2>4, TickSteps
      <3> QED BY <2>4, <3>1 DEF FunctionReturns, Queue!QueueNext, Queue!Return
    <2>5. CASE TakeTasks
      <3>1. due' = due
        BY <2>5, TickSteps
      <3>2. \A u \in Listed : expires[u] > jiffies
        <4>1. next[Head] # Head => expires[next[Head]] > jiffies /\ next[Head] \in Listed
          BY <2>5, FirstTimer DEF TakeTasks, Expired, TimersInv, TypeOK, TimesOfDay
        <4>2. jiffies \in Nat
          BY TimesNat DEF TimersInv, TypeOK
        <4> QED BY <4>1, <4>2, FirstTimer
      <3> QED BY <2>5, <3>1, <3>2 DEF TakeTasks, Queue!QueueNext, Queue!EndTick
    <2>6. CASE Return \/ UNCHANGED vars
      <3>1. due' = due
        BY <2>6, TickSteps
      <3> QED BY <2>6, <3>1 DEF Return, vars
    <2>7. ASSUME NEW k \in Tasks, TaskReturns(k) \/ queue_task(k)
          PROVE  UNCHANGED Queue!queueVars
      <3>1. due' = due
        BY <2>7, TickSteps
      <3> QED BY <2>7, <3>1 DEF TaskReturns, queue_task
    <2>8. ASSUME NEW t \in AddTimers, del_timer(t) PROVE Queue!QueueNext
      <3>1. t \in Listed /\ Listed' = Listed \ {t} /\ expires' = expires
        BY <2>8, DelTimerStep DEF del_timer
      <3>2. due' = [u \in Listed \ {t} |-> due[u]]
        BY <3>1
      <3>3. Queue!Delete(t)
        BY <2>8, <3>1, <3>2 DEF del_timer, Queue!Delete, Queue!Without, Queue!Restrict
      <3> QED BY <2>1, <3>3 DEF Queue!QueueNext
    <2>9. ASSUME NEW t \in AddTimers, NEW e \in ExpiryTimes, add_timer(t, e)
          PROVE  Queue!QueueNext
      <3>1. t \notin Listed /\ Listed' = Listed \cup {t} /\ e \in TimesOfDay
        BY <2>9, AddTimerStep DEF ExpiryTimes
      <3>2. /\ expires' = [expires EXCEPT ![t] = e] /\ t \in DOMAIN expires
        BY <2>9 DEF add_timer, TimersInv, TypeOK, Timers
      <3>3. due' = [u \in Listed \cup {t} |-> IF u = t THEN e ELSE due[u]]
        BY <3>1, <3>2
      <3>4. Queue!Add(t, e)
        BY <2>9, <3>1, <3>3 DEF add_timer, Queue!Add
      <3> QED BY <2>1, <3>1, <3>4 DEF Queue!QueueNext
    <2>10. ASSUME NEW t \in ModTimers, NEW e \in ExpiryTimes, mod_timer(t, e)
           PROVE  UNCHANGED Queue!queueVars
      <3>1. due' = due
        BY <2>10, ModTimerStep
      <3> QED BY <2>10, <3>1 DEF mod_timer
    <2> HIDE DEF Queue!queueVars
    <2> QED BY <2>2, <2>3, <2>4, <2>5, <2>6, <2>7, <2>8, <2>9, <2>10 DEF Next, do_timer
  <1>3. Spec => []TimersInv
    BY TimersCorrect
  <1> QED BY <1>1, <1>2, <1>3, PTL DEF Spec, Queue!QueueSpec
===============================================================================
