---------------------------- MODULE SysvarsProofs ----------------------------
(* Theorems about Sysvars, for slot hashes of any length and warps to any  *)
(* slots.                                                                  *)
EXTENDS Sysvars, TLAPS, SequenceTheorems, FiniteSetTheorems, WellFoundedInduction

(***************************************************************************)
(* Induction over the natural numbers, for a set of numbers.               *)
(***************************************************************************)
LEMMA NaturalsInSet ==
  ASSUME NEW S, 0 \in S, \A n \in S \cap Nat : n + 1 \in S
  PROVE  Nat \subseteq S
<1>. DEFINE T == Nat \ S
<1>1. ASSUME T # {} PROVE FALSE
  <2>. DEFINE R == OpToRel(<, Nat)
  <2>1. IsWellFoundedOn(R, Nat)
    BY NatLessThanWellFounded
  <2>2. R = {p \in Nat \X Nat : p[1] < p[2]}
    BY Zenon DEF OpToRel
  <2>3. T \subseteq Nat
    OBVIOUS
  <2>. HIDE DEF R
  <2>4. PICK n \in T : \A m \in T : ~(<<m, n>> \in R)
    <3>. HIDE DEF T
    <3>. QED
      BY <1>1, <2>1, <2>3, WFMin
  <2>5. \A m \in T : ~(m < n)
    BY <2>2, <2>4
  <2>6. n # 0 /\ n - 1 \in Nat /\ n - 1 \notin T
    BY <2>5
  <2>7. n - 1 \in S \cap Nat
    BY <2>6
  <2>8. (n - 1) + 1 \in S
    BY <2>7
  <2>. QED
    BY <2>6, <2>8
<1>. QED
  BY <1>1

-----------------------------------------------------------------------------
(***************************************************************************)
(* The loop of warp_to_slot adds slot after slot: what FoldLeft yields is  *)
(* the last of a row of lists, each made of the one before it by add.      *)
(***************************************************************************)
LEMMA GreatestOfRange == \A k \in Nat \ {0} : Max(1 .. k) = k
<1>. SUFFICES ASSUME NEW k \in Nat \ {0} PROVE Max(1 .. k) = k
  OBVIOUS
<1>1. k \in 1 .. k /\ \A y \in 1 .. k : k >= y
  OBVIOUS
<1>2. \A x \in 1 .. k : (\A y \in 1 .. k : x >= y) => x = k
  OBVIOUS
<1>. QED
  BY <1>1, <1>2 DEF Max

(* f is the function that FoldLeft recurs in, for the first k slots of s.  *)
Folded(list, s, k, f) ==
  f = [t \in SUBSET (1 .. k) |->
         IF t = {} THEN list ELSE add(f[t \ {Max(t)}], s[Max(t)])]

LEMMA FoldedExists ==
  ASSUME NEW list, NEW s, NEW n \in Nat
  PROVE  \E f : Folded(list, s, n, f)
<1>. DEFINE D == {k \in Nat : \E f : Folded(list, s, k, f)}
<1>1. 0 \in D
  <2>. DEFINE f == [t \in SUBSET (1 .. 0) |-> list]
  <2>1. \A t \in SUBSET (1 .. 0) : t = {}
    OBVIOUS
  <2>2. f = [t \in SUBSET (1 .. 0) |->
               IF t = {} THEN list ELSE add(f[t \ {Max(t)}], s[Max(t)])]
    BY <2>1
  <2>. QED
    BY <2>2 DEF Folded
<1>2. ASSUME NEW k \in D \cap Nat PROVE k + 1 \in D
  <2>1. PICK f : Folded(list, s, k, f)
    OBVIOUS
  <2>. DEFINE step(t) == add(f[t \ {Max(t)}], s[Max(t)])
              g == [t \in SUBSET (1 .. k + 1) |-> IF t \in SUBSET (1 .. k) THEN f[t] ELSE step(t)]
  <2>2. ASSUME NEW t \in SUBSET (1 .. k + 1)
        PROVE  g[t] = IF t = {} THEN list ELSE add(g[t \ {Max(t)}], s[Max(t)])
    <3>1. CASE t \in SUBSET (1 .. k)
      <4>1. f[t] = IF t = {} THEN list ELSE add(f[t \ {Max(t)}], s[Max(t)])
        BY <2>1, <3>1 DEF Folded
      <4>2. t \ {Max(t)} \in SUBSET (1 .. k) /\ t \ {Max(t)} \in SUBSET (1 .. k + 1)
        BY <3>1
      <4>3. g[t] = f[t] /\ g[t \ {Max(t)}] = f[t \ {Max(t)}]
        BY <3>1, <4>2
      <4>. QED
        BY <4>1, <4>3
    <3>2. CASE t \notin SUBSET (1 .. k)
      <4>1. k + 1 \in t /\ t # {}
        BY <3>2
      <4>2. Max(t) = k + 1
        <5>1. k + 1 \in t /\ \A y \in t : k + 1 >= y
          BY <4>1
        <5>2. \A x \in t : (\A y \in t : x >= y) => x = k + 1
          BY <4>1
        <5>. QED
          BY <5>1, <5>2 DEF Max
      <4>3. t \ {Max(t)} \in SUBSET (1 .. k) /\ t \ {Max(t)} \in SUBSET (1 .. k + 1)
        BY <4>2
      <4>4. g[t] = step(t) /\ g[t \ {Max(t)}] = f[t \ {Max(t)}]
        BY <3>2, <4>3
      <4>. QED
        BY <4>1, <4>4
    <3>. QED
      BY <3>1, <3>2
  <2>3. Folded(list, s, k + 1, g)
    BY <2>2 DEF Folded
  <2>4. k + 1 \in Nat
    OBVIOUS
  <2>. HIDE DEF g
  <2>. QED
    BY <2>3, <2>4
<1>3. n \in D
  <2>. HIDE DEF D
  <2>. QED
    BY <1>1, <1>2, NaturalsInSet
<1>. QED
  BY <1>3

(* The list with the slots of s added one by one. *)
Added(list, s) == FoldLeft(add, list, s)

LEMMA FoldSteps ==
  ASSUME NEW list, NEW s \in Seq(Nat)
  PROVE  \E f : /\ Added(list, s) = f[Len(s)] /\ f[0] = list
                /\ \A k \in 1 .. Len(s) : f[k] = add(f[k - 1], s[k])
<1>. DEFINE n == Len(s)
            F == CHOOSE f : Folded(list, s, n, f)
            f == [k \in 0 .. n |-> F[1 .. k]]
<1>1. n \in Nat /\ DOMAIN s = 1 .. n
  BY LenProperties
<1>2. Folded(list, s, n, F)
  BY <1>1, FoldedExists
<1>3. Added(list, s) = F[1 .. n]
  <2>1. Added(list, s) =
          (CHOOSE iter : iter = [t \in SUBSET (DOMAIN s) |->
             IF t = {} THEN list ELSE add(iter[t \ {Max(t)}], s[Max(t)])])[DOMAIN s]
    BY Zenon DEF Added, FoldLeft, MapThenFoldSet
  <2>2. F = CHOOSE iter : iter = [t \in SUBSET (1 .. n) |->
              IF t = {} THEN list ELSE add(iter[t \ {Max(t)}], s[Max(t)])]
    BY DEF Folded
  <2>. HIDE DEF F, n
  <2>. QED
    BY <1>1, <2>1, <2>2
<1>. HIDE DEF F, n
<1>4. f[0] = list
  <2>1. 1 .. 0 = {}
    OBVIOUS
  <2>2. F[{}] = list
    BY <1>2 DEF Folded
  <2>3. 0 \in 0 .. n
    BY <1>1
  <2>. QED
    BY <2>1, <2>2, <2>3
<1>5. ASSUME NEW k \in 1 .. n PROVE f[k] = add(f[k - 1], s[k])
  <2>1. k \in Nat \ {0} /\ k - 1 \in 0 .. n /\ k \in 0 .. n /\ (1 .. k) \in SUBSET (1 .. n)
    BY <1>1
  <2>2. (1 .. k) \ {k} = 1 .. k - 1 /\ 1 .. k # {}
    BY <2>1
  <2>3. F[1 .. k] = add(F[(1 .. k) \ {Max(1 .. k)}], s[Max(1 .. k)])
    BY <1>2, <2>1, <2>2 DEF Folded
  <2>4. Max(1 .. k) = k
    BY <2>1, GreatestOfRange
  <2>5. f[k] = F[1 .. k] /\ f[k - 1] = F[1 .. k - 1]
    BY <2>1
  <2>. QED
    BY <2>2, <2>3, <2>4, <2>5
<1>6. n \in 0 .. n
  BY <1>1
<1>7. Added(list, s) = f[n]
  BY <1>3, <1>6
<1>. HIDE DEF f
<1>. QED
  BY <1>4, <1>5, <1>7 DEF n

-----------------------------------------------------------------------------
(***************************************************************************)
(* Full lists of slots without gaps, down to a padding of zeros.           *)
(***************************************************************************)
Gapless(list) ==
  /\ list \in [1 .. MaxEntries -> Nat]
  /\ \A i \in 1 .. MaxEntries - 1 :
       list[i] = list[i + 1] + 1 \/ (list[i] = 0 /\ list[i + 1] = 0)

LEMMA GaplessSeq ==
  ASSUME NEW list, Gapless(list)
  PROVE  list \in Seq(Nat) /\ Len(list) = MaxEntries /\ DOMAIN list = 1 .. MaxEntries
BY SysvarsAssumption DEF Gapless

(* The first slot of such a list is its newest. *)
LEMMA FirstIsNewest ==
  ASSUME NEW list, Gapless(list)
  PROVE  \A i \in 1 .. MaxEntries : list[i] <= list[1]
<1>. DEFINE D == {k \in Nat : k + 1 \in 1 .. MaxEntries => list[k + 1] <= list[1]}
<1>1. MaxEntries \in Nat \ {0} /\ \A i \in 1 .. MaxEntries : list[i] \in Nat
  BY SysvarsAssumption DEF Gapless
<1>2. 0 \in D
  BY <1>1
<1>3. ASSUME NEW k \in D \cap Nat PROVE k + 1 \in D
  <2>1. CASE (k + 1) + 1 \in 1 .. MaxEntries
    <3>1. k + 1 \in 1 .. MaxEntries /\ k + 1 \in 1 .. MaxEntries - 1
      BY <2>1, <1>1
    <3>2. list[k + 1] <= list[1] /\ list[k + 1] \in Nat /\ list[(k + 1) + 1] \in Nat /\ list[1] \in Nat
      BY <2>1, <3>1, <1>1
    <3>3. \/ list[k + 1] = list[(k + 1) + 1] + 1
          \/ list[k + 1] = 0 /\ list[(k + 1) + 1] = 0
      BY <3>1 DEF Gapless
    <3>4. list[(k + 1) + 1] <= list[1]
      BY <3>2, <3>3
    <3>. QED
      BY <3>4
  <2>2. CASE (k + 1) + 1 \notin 1 .. MaxEntries
    BY <2>2
  <2>. QED
    BY <2>1, <2>2
<1>4. Nat \subseteq D
  <2>. HIDE DEF D
  <2>. QED
    BY <1>2, <1>3, NaturalsInSet
<1>. SUFFICES ASSUME NEW i \in 1 .. MaxEntries PROVE list[i] <= list[1]
  OBVIOUS
<1>5. i - 1 \in Nat /\ (i - 1) + 1 = i
  BY <1>1
<1>. QED
  BY <1>4, <1>5

(* Adding the newest slot once more, or the one after it, leaves no gap.   *)
LEMMA AddNext ==
  ASSUME NEW list, Gapless(list), NEW slot, slot = list[1] \/ slot = list[1] + 1
  PROVE  Gapless(add(list, slot)) /\ add(list, slot)[1] = slot
<1>1. MaxEntries \in Nat \ {0} /\ list[1] \in Nat /\ slot \in Nat
  BY SysvarsAssumption DEF Gapless
<1>2. list \in Seq(Nat) /\ Len(list) = MaxEntries /\ DOMAIN list = 1 .. MaxEntries
  BY GaplessSeq
<1>3. CASE slot = list[1]
  <2>1. slot \in ToSet(list)
    BY <1>1, <1>2, <1>3 DEF ToSet
  <2>. QED
    BY <2>1, <1>3 DEF add
<1>4. CASE slot = list[1] + 1
  <2>1. \A i \in 1 .. MaxEntries : list[i] \in Nat /\ list[i] <= list[1]
    BY FirstIsNewest DEF Gapless
  <2>2. slot \notin ToSet(list)
    BY <2>1, <1>1, <1>2, <1>4 DEF ToSet
  <2>3. {i \in DOMAIN list : list[i] > slot} = {}
    BY <2>1, <1>1, <1>2, <1>4
  <2>4. Cardinality({i \in DOMAIN list : list[i] > slot}) = 0
    BY <2>3, FS_EmptySet
  <2>5. add(list, slot) = Truncate(InsertAt(list, 1, slot))
    BY <2>2, <2>4 DEF add
  <2>. DEFINE longer == InsertAt(list, 1, slot)
  <2>6. longer = (SubSeq(list, 1, 0) \o <<slot>>) \o SubSeq(list, 1, MaxEntries)
    BY <1>2 DEF InsertAt
  <2>7. SubSeq(list, 1, 0) = <<>> /\ SubSeq(list, 1, MaxEntries) = list
    BY <1>1, <1>2
  <2>8. longer = <<slot>> \o list
    BY <2>6, <2>7, <1>1
  <2>. HIDE DEF longer
  <2>9. /\ longer \in Seq(Nat) /\ Len(longer) = MaxEntries + 1
        /\ longer[1] = slot /\ \A i \in 1 .. MaxEntries : longer[i + 1] = list[i]
    BY <2>8, <1>1, <1>2
  <2>10. Truncate(longer) = SubSeq(longer, 1, MaxEntries)
    BY <2>9, <1>1 DEF Truncate
  <2>11. /\ SubSeq(longer, 1, MaxEntries) \in [1 .. MaxEntries -> Nat]
         /\ \A i \in 1 .. MaxEntries : SubSeq(longer, 1, MaxEntries)[i] = longer[i]
    <3>1. \A m \in Nat : m <= Len(longer) =>
            /\ SubSeq(longer, 1, m) \in Seq(Nat) /\ Len(SubSeq(longer, 1, m)) = m
            /\ \A i \in 1 .. m : SubSeq(longer, 1, m)[i] = longer[i]
      BY <2>9
    <3>2. /\ SubSeq(longer, 1, MaxEntries) \in Seq(Nat)
          /\ Len(SubSeq(longer, 1, MaxEntries)) = MaxEntries
          /\ \A i \in 1 .. MaxEntries : SubSeq(longer, 1, MaxEntries)[i] = longer[i]
      BY <3>1, <2>9, <1>1
    <3>3. \A t \in Seq(Nat) : t \in [1 .. Len(t) -> Nat]
      BY LenProperties
    <3>. QED
      BY <3>2, <3>3
  <2>. DEFINE new == add(list, slot)
  <2>12. new \in [1 .. MaxEntries -> Nat] /\ \A i \in 1 .. MaxEntries : new[i] = longer[i]
    BY <2>5, <2>10, <2>11 DEF longer
  <2>. HIDE DEF new
  <2>13. new[1] = slot
    BY <2>9, <2>12, <1>1
  <2>14. ASSUME NEW i \in 1 .. MaxEntries - 1
         PROVE  new[i] = new[i + 1] + 1 \/ (new[i] = 0 /\ new[i + 1] = 0)
    <3>1. i + 1 \in 1 .. MaxEntries /\ i \in 1 .. MaxEntries
      BY <1>1
    <3>2. new[i + 1] = list[i]
      BY <3>1, <2>9, <2>12
    <3>3. CASE i = 1
      BY <3>2, <3>3, <2>13, <1>4
    <3>4. CASE i # 1
      <4>1. i - 1 \in 1 .. MaxEntries - 1 /\ i - 1 \in 1 .. MaxEntries /\ (i - 1) + 1 = i
        BY <3>1, <3>4, <1>1
      <4>2. new[i] = list[i - 1]
        BY <3>1, <4>1, <2>9, <2>12
      <4>3. list[i - 1] = list[(i - 1) + 1] + 1 \/ (list[i - 1] = 0 /\ list[(i - 1) + 1] = 0)
        BY <4>1 DEF Gapless
      <4>. QED
        BY <4>1, <4>2, <4>3, <3>2
    <3>. QED
      BY <3>3, <3>4
  <2>. QED
    BY <2>12, <2>13, <2>14 DEF Gapless, new
<1>. QED
  BY <1>3, <1>4

(* What warp_to_slot makes of a gapless list. *)
LEMMA WarpedHashes ==
  ASSUME clock.slot \in Nat, Gapless(slot_hashes), NEW slot \in Nat
  PROVE  /\ Gapless(warped_hashes(slot))
         /\ slot > slot_hashes[1] => warped_hashes(slot)[1] = slot - 1
         /\ warped_hashes(slot)[1] = slot - 1 \/ warped_hashes(slot)[1] >= slot
<1>1. MaxEntries \in Nat \ {0} /\ slot_hashes[1] \in Nat
  BY SysvarsAssumption DEF Gapless
<1>. DEFINE new == warped_hashes(slot)
<1>2. CASE SlotDelta(slot) > MaxEntries
  <2>1. slot - MaxEntries \in Nat /\ slot - MaxEntries < slot /\ slot - (slot - MaxEntries) = MaxEntries
    BY <1>1, <1>2 DEF SlotDelta
  <2>. DEFINE up == Ascending(slot - MaxEntries, slot)
  <2>2. /\ up \in Seq(Nat) /\ Len(up) = MaxEntries
        /\ \A i \in 1 .. MaxEntries : up[i] = slot - MaxEntries + i - 1
    BY <2>1, <1>1 DEF Ascending
  <2>3. new = Reverse(up)
    BY <1>2 DEF warped_hashes, Descending
  <2>. HIDE DEF up, new
  <2>4. new = [i \in 1 .. MaxEntries |-> up[(MaxEntries - i) + 1]]
    BY <2>2, <2>3 DEF Reverse
  <2>5. ASSUME NEW i \in 1 .. MaxEntries PROVE new[i] = slot - i
    <3>1. (MaxEntries - i) + 1 \in 1 .. MaxEntries
      BY <1>1
    <3>2. new[i] = slot - MaxEntries + ((MaxEntries - i) + 1) - 1
      BY <3>1, <2>2, <2>4
    <3>. QED
      BY <3>2, <1>1
  <2>6. ASSUME NEW i \in 1 .. MaxEntries PROVE slot - i \in Nat
    BY <2>1, <1>1
  <2>7. new \in [1 .. MaxEntries -> Nat]
    BY <2>4, <2>5, <2>6
  <2>8. ASSUME NEW i \in 1 .. MaxEntries - 1 PROVE new[i] = new[i + 1] + 1
    BY <2>5, <1>1
  <2>9. new[1] = slot - 1
    BY <2>5, <1>1
  <2>. QED
    BY <2>7, <2>8, <2>9 DEF Gapless, new
<1>3. CASE ~(SlotDelta(slot) > MaxEntries)
  <2>. DEFINE h == slot_hashes
              loop == LoopSlots(slot)
              n == IF h[1] < slot THEN slot - h[1] ELSE 0
  <2>1. /\ loop \in Seq(Nat) /\ Len(loop) = n /\ n \in Nat
        /\ \A k \in 1 .. n : loop[k] = h[1] + k - 1
    <3>1. n \in Nat
      BY <1>1
    <3>2. loop = [i \in 1 .. n |-> h[1] + i - 1]
      BY DEF LoopSlots, Ascending
    <3>. HIDE DEF n, loop
    <3>. QED
      BY <3>1, <3>2, <1>1
  <2>2. new = Added(h, loop)
    BY <1>3 DEF warped_hashes, Added
  <2>. HIDE DEF loop, n, new
  <2>3. PICK f : /\ new = f[n] /\ f[0] = h
                 /\ \A k \in 1 .. n : f[k] = add(f[k - 1], loop[k])
    <3>1. loop \in Seq(Nat) /\ Len(loop) = n
      BY <2>1
    <3>. QED
      <4>0. loop \in Seq(Nat)
        BY <3>1
      <4>1. PICK f : /\ Added(h, loop) = f[Len(loop)] /\ f[0] = h
                     /\ \A k \in 1 .. Len(loop) : f[k] = add(f[k - 1], loop[k])
        <5>. HIDE DEF h
        <5>. QED
          BY <4>0, FoldSteps
      <4>. QED
        BY <2>2, <3>1, <4>1
  <2>. DEFINE D == {k \in Nat : k \in 0 .. n =>
                      Gapless(f[k]) /\ f[k][1] = IF k = 0 THEN h[1] ELSE h[1] + k - 1}
  <2>4. 0 \in D
    BY <2>3
  <2>5. ASSUME NEW k \in D \cap Nat PROVE k + 1 \in D
    <3>1. CASE k + 1 \in 1 .. n
      <4>1. k \in 0 .. n /\ (k + 1) - 1 = k
        BY <3>1, <2>1
      <4>2. Gapless(f[k]) /\ f[k][1] = IF k = 0 THEN h[1] ELSE h[1] + k - 1
        BY <4>1
      <4>3. loop[k + 1] = h[1] + k
        BY <3>1, <2>1, <1>1
      <4>4. f[k + 1] = add(f[k], h[1] + k)
        BY <3>1, <4>1, <4>3, <2>3
      <4>5. h[1] + k = f[k][1] \/ h[1] + k = f[k][1] + 1
        BY <4>2, <1>1
      <4>6. Gapless(f[k + 1]) /\ f[k + 1][1] = h[1] + k
        BY <4>2, <4>4, <4>5, AddNext
      <4>. HIDE DEF h
      <4>. QED
        BY <4>6
    <3>2. CASE k + 1 \notin 1 .. n
      BY <3>2
    <3>. QED
      BY <3>1, <3>2
  <2>6. Nat \subseteq D
    <3>. HIDE DEF D
    <3>. QED
      BY <2>4, <2>5, NaturalsInSet
  <2>7. Gapless(new) /\ new[1] = IF n = 0 THEN h[1] ELSE h[1] + n - 1
    BY <2>1, <2>3, <2>6
  <2>8. slot > h[1] => n # 0 /\ h[1] + n - 1 = slot - 1
    BY <1>1 DEF n
  <2>9. ~(slot > h[1]) => n = 0 /\ h[1] >= slot
    BY <1>1 DEF n
  <2>. QED
    BY <2>7, <2>8, <2>9 DEF new
<1>. QED
  BY <1>2, <1>3

-----------------------------------------------------------------------------
(***************************************************************************)
(* The inductive invariant.                                                *)
(***************************************************************************)
IInv == TypeOK /\ Gapless(slot_hashes)

LEMMA EpochsAreNumbers ==
  ASSUME epoch_schedule \in Schedules, NEW slot \in Nat
  PROVE  get_epoch(slot) \in Nat /\ get_leader_schedule_epoch(slot) \in Nat
<1>1. /\ epoch_schedule.slots_per_epoch \in Nat
      /\ epoch_schedule.leader_schedule_slot_offset \in Nat
  BY SysvarsAssumption
<1>2. \A n, d \in Nat : Quotient(n, d) \in Nat
  BY DEF Quotient
<1>3. slot + epoch_schedule.leader_schedule_slot_offset \in Nat
  BY <1>1
<1>. QED
  BY <1>1, <1>2, <1>3 DEF get_epoch, get_leader_schedule_epoch

LEMMA Invariance == Spec => []IInv
<1>1. Init => IInv
  <2>. SUFFICES ASSUME Init PROVE IInv
    OBVIOUS
  <2>1. MaxEntries \in Nat \ {0} /\ slot_hashes = [i \in 1 .. MaxEntries |-> 0]
    BY SysvarsAssumption DEF Init
  <2>2. Gapless(slot_hashes)
    BY <2>1 DEF Gapless
  <2>3. Len(slot_hashes) = MaxEntries /\ \A i \in DOMAIN slot_hashes : slot_hashes[i] \in Nat
    BY <2>1
  <2>4. clock \in Clock
    BY DEF Init, Clock, ZeroClock
  <2>. QED
    BY <2>2, <2>3, <2>4 DEF Init, IInv, TypeOK, SysvarIds
<1>2. IInv /\ [Next]_vars => IInv'
  <2>. SUFFICES ASSUME IInv, [Next]_vars PROVE IInv'
    OBVIOUS
  <2>. USE DEF IInv, TypeOK
  <2>1. ASSUME NEW c \in ClockValues, set_clock(c) PROVE IInv'
    <3>1. c \in Clock
      <4>1. PICK s \in Slots, e \in Epochs, t \in Timestamps :
              c = [slot |-> s, epoch |-> e, leader_schedule_epoch |-> 0, unix_timestamp |-> t,
                   epoch_start_timestamp |-> 0]
        BY DEF ClockValues
      <4>2. s \in Nat /\ e \in Nat /\ t \in Int
        BY SysvarsAssumption
      <4>. QED
        BY <4>1, <4>2 DEF Clock
    <3>. QED
      BY <2>1, <3>1 DEF set_clock
  <2>2. ASSUME NEW timestamp \in Timestamps, warp_to_timestamp(timestamp) PROVE IInv'
    <3>1. clock' \in Clock
      BY <2>2, SysvarsAssumption DEF warp_to_timestamp, Clock
    <3>. QED
      BY <2>2, <3>1 DEF warp_to_timestamp
  <2>3. ASSUME NEW slot \in Slots, warp_to_slot(slot) PROVE IInv'
    <3>1. slot \in Nat /\ clock.slot \in Nat
      BY SysvarsAssumption DEF Clock
    <3>2. clock' \in Clock
      <4>1. get_epoch(slot) \in Nat /\ get_leader_schedule_epoch(slot) \in Nat
        BY <3>1, EpochsAreNumbers
      <4>2. clock' = [slot |-> slot, epoch |-> get_epoch(slot),
                      leader_schedule_epoch |-> get_leader_schedule_epoch(slot),
                      unix_timestamp |-> 0, epoch_start_timestamp |-> 0]
        BY <2>3 DEF warp_to_slot, ZeroClock
      <4>. QED
        BY <3>1, <4>1, <4>2 DEF Clock
    <3>3. Gapless(slot_hashes')
      BY <2>3, <3>1, WarpedHashes DEF warp_to_slot
    <3>4. Len(slot_hashes') = MaxEntries /\ \A i \in DOMAIN slot_hashes' : slot_hashes'[i] \in Nat
      BY <3>3, GaplessSeq DEF Gapless
    <3>. QED
      BY <2>3, <3>2, <3>3, <3>4 DEF warp_to_slot, Gapless
  <2>4. ASSUME NEW r \in Rents, set_rent(r) PROVE IInv'
    BY <2>4 DEF set_rent
  <2>5. ASSUME NEW schedule \in Schedules, set_epoch_schedule(schedule) PROVE IInv'
    BY <2>5 DEF set_epoch_schedule
  <2>6. ASSUME NEW id \in {"Clock", "Rent"}, NEW data \in SuppliedData(id), store_sysvar(id, data)
        PROVE  IInv'
    BY <2>6 DEF store_sysvar, SysvarIds
  <2>7. CASE UNCHANGED vars
    BY <2>7 DEF vars
  <2>. QED
    BY <2>1, <2>2, <2>3, <2>4, <2>5, <2>6, <2>7 DEF Next
<1>. QED
  BY <1>1, <1>2, PTL DEF Spec

(* Every variable holds a value of its type, and slot_hashes is full at    *)
(* every time, whatever the length of the jump.                            *)
THEOREM TypesKept == Spec => []TypeOK
BY Invariance, PTL DEF IInv

(* No sequence of warps, back or forth, by the loop or by the rebuild of   *)
(* warp_to_slot, leaves a gap in slot_hashes.                              *)
THEOREM NoHashGapsEver == Spec => []NoHashGaps
<1>1. IInv => NoHashGaps
  BY DEF IInv, TypeOK, Gapless, NoHashGaps
<1>. QED
  BY <1>1, Invariance, PTL

(* A warp beyond the newest hash brings the hash of the slot before it. *)
THEOREM WarpReachesNewestHashAlways == Spec => WarpReachesNewestHash
<1>1. ASSUME IInv, [Next]_vars
      PROVE  [\A slot \in Slots : warp_to_slot(slot) /\ slot > slot_hashes[1]
                => slot_hashes'[1] = clock'.slot - 1]_vars
  <2>. SUFFICES ASSUME NEW slot \in Slots, warp_to_slot(slot), slot > slot_hashes[1]
                PROVE  slot_hashes'[1] = clock'.slot - 1
    OBVIOUS
  <2>1. slot \in Nat /\ clock.slot \in Nat
    BY <1>1, SysvarsAssumption DEF IInv, TypeOK, Clock
  <2>2. slot_hashes'[1] = slot - 1
    BY <1>1, <2>1, WarpedHashes DEF IInv, warp_to_slot
  <2>3. clock'.slot = slot
    BY DEF warp_to_slot, ZeroClock
  <2>. QED
    BY <2>2, <2>3
<1>. QED
  BY <1>1, Invariance, PTL DEF Spec, WarpReachesNewestHash

(* The loop of a warp that follows a warp takes at most MAX_ENTRIES + 1    *)
(* steps: the longer ways are left to the rebuild.                         *)
THEOREM WarpWorkBoundedAlways == Spec => WarpWorkBounded
<1>1. ASSUME IInv, IInv', [Next]_vars
      PROVE  [(\E slot \in Slots : warp_to_slot(slot)) =>
                 \A next \in Slots :
                   SlotDelta(next)' <= MaxEntries => Len(LoopSlots(next))' <= MaxEntries + 1]_vars
  <2>. SUFFICES ASSUME NEW slot \in Slots, warp_to_slot(slot), NEW next \in Slots,
                       SlotDelta(next)' <= MaxEntries
                PROVE  Len(LoopSlots(next))' <= MaxEntries + 1
    OBVIOUS
  <2>1. slot \in Nat /\ next \in Nat /\ clock.slot \in Nat /\ MaxEntries \in Nat \ {0}
    BY <1>1, SysvarsAssumption DEF IInv, TypeOK, Clock
  <2>2. slot_hashes'[1] = slot - 1 \/ slot_hashes'[1] >= slot
    BY <1>1, <2>1, WarpedHashes DEF IInv, warp_to_slot
  <2>3. clock'.slot = slot
    BY DEF warp_to_slot, ZeroClock
  <2>4. slot_hashes'[1] \in Nat
    BY <1>1, <2>1 DEF IInv, Gapless
  <2>5. next <= slot \/ next - slot <= MaxEntries
    BY <2>1, <2>3 DEF SlotDelta
  <2>6. Len(LoopSlots(next))' = IF slot_hashes'[1] < next THEN next - slot_hashes'[1] ELSE 0
    BY <2>1, <2>4 DEF LoopSlots, Ascending
  <2>. QED
    BY <2>1, <2>2, <2>4, <2>5, <2>6
<1>. QED
  BY <1>1, Invariance, PTL DEF Spec, WarpWorkBounded

(* This holds of every list of accounts a client may give. *)
LEMMA ViewsAgreeOnEveryList ==
  \A given, id : account_view(given, id) # Garbage => account_view(given, id) = cache_view(given, id)
BY DEF account_view, cache_view

(* compile_accounts and setup_sysvar_cache show a program the same sysvar, *)
(* unless the client put data there that is none.                          *)
THEOREM ViewsAgreeAlways == Spec => []ViewsAgree
<1>1. ViewsAgree
  BY ViewsAgreeOnEveryList DEF ViewsAgree
<1>. QED
  BY <1>1, PTL
=============================================================================
