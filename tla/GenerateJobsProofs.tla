------------------------- MODULE GenerateJobsProofs -------------------------
(***************************************************************************)
(* The compute governor, for every set of lanes, any number of tickets,     *)
(* waiters, budgets and stack depth; and on top of it the job runner, for   *)
(* any number of jobs and delete requests: it uses the governor within its  *)
(* contract, runs one job at a time, launches a parked Generate once, and   *)
(* closes its row in the activity feed with its end.                        *)
(***************************************************************************)
EXTENDS GenerateJobs, FiniteSetTheorems, WellFoundedInduction, TLAPS

-----------------------------------------------------------------------------
(* THE GOVERNOR.                                                            *)

\* The ticket half of the inductive invariant: the slot has one holder at most,
\* and an owner that runs without its ticket was reclaimed from: it is a leased
\* lane that missed its lease and has no live child.
OneHolder == \A i, j \in SlotHolders : i = j

Reclaimed(i) == laneOf[i] \in Leased /\ ~beat[i] /\ work[i] # "child"

TicketInv ==
  /\ held \subseteq Tickets
  /\ laneOf \in [Tickets -> Lanes \cup {NoLane}]
  /\ preemptedBy \in [Tickets -> Lanes \cup {NoLane}]
  /\ beat \in [Tickets -> BOOLEAN]
  /\ work \in [Tickets -> Work]
  /\ \A i \in Tickets : (i \in held \/ work[i] # "none") => laneOf[i] \in Lanes
  /\ OneHolder
  /\ \A i \in Tickets : work[i] # "none" /\ i \notin held => Reclaimed(i)

\* The queue half: a waiter on the stack runs beside a free slot and an empty
\* queue, and the queue has one entry at most because it has one lane.
QueueInv ==
  /\ queue \in Seq(Waiters)
  /\ Len(queue) <= 1
  /\ pending \in Waiters \cup {NoWaiter}
  /\ wakes \in 0..StackDepth
  /\ spun \in BOOLEAN
  /\ ~Idle => queue = <<>> /\ SlotHolders = {}
  /\ Idle /\ queue # <<>> /\ ~spun => SlotHolders # {}

ProbeInv ==
  /\ refusals \in [AgingLanes -> 0..AGING_THRESHOLD]
  /\ pressure \in Pressures
  /\ budget \in Budgets \cup {COLD_BUDGET_GB}

IInv == TicketInv /\ QueueInv /\ ProbeInv

-----------------------------------------------------------------------------
(* Counting.                                                                *)

\* A finite set of which no two elements differ has at most one element.
LEMMA AtMostOne ==
  ASSUME NEW S, IsFiniteSet(S), \A i, j \in S : i = j
  PROVE  Cardinality(S) <= 1
<1>1. CASE S = {}
  BY <1>1, FS_EmptySet
<1>2. CASE S # {}
  <2>1. PICK x : x \in S
    BY <1>2
  <2>2. S = {x}
    BY <2>1
  <2>3. QED
    BY <2>2, FS_Singleton
<1>3. QED
  BY <1>1, <1>2

\* `residentCount < RESIDENT_MAX`, the test of admit and of the drain, says that
\* nobody is in the set.
LEMMA NoneBelowMax ==
  ASSUME NEW S, IsFiniteSet(S)
  PROVE  /\ Cardinality(S) \in Nat
         /\ Cardinality(S) >= RESIDENT_MAX <=> S # {}
         /\ Cardinality(S) < RESIDENT_MAX <=> S = {}
         /\ Cardinality(S) > 0 <=> S # {}
<1>1. Cardinality(S) \in Nat
  BY FS_CardinalityType
<1>2. Cardinality(S) = 0 <=> S = {}
  BY FS_EmptySet
<1>3. QED
  BY <1>1, <1>2 DEF RESIDENT_MAX

\* The tickets in the table are finitely many.
LEMMA HoldersFinite ==
  ASSUME TicketInv
  PROVE  IsFiniteSet(held) /\ IsFiniteSet(SlotHolders) /\ IsFiniteSet(BulkHolders)
<1>1. IsFiniteSet(held)
  BY FS_Subset, BoundAssumption DEF TicketInv
<1>2. SlotHolders \subseteq held /\ BulkHolders \subseteq held
  BY DEF SlotHolders, BulkHolders
<1>3. QED
  BY <1>1, <1>2, FS_Subset

-----------------------------------------------------------------------------
(* Adding up.  The governor adds the estimates of the bulk lanes with a     *)
(* fold.  That there is a fold of any amounts over a finite set, that it is *)
(* a number and that the order does not matter is shown by induction over   *)
(* the size of the set, stated as what a set of numbers contains.           *)

\* A set of numbers that has 0 and with each number the next has them all.
LEMMA UpFromZero ==
  ASSUME NEW S \in SUBSET Nat, 0 \in S, \A n \in S : n + 1 \in S
  PROVE  S = Nat
<1> DEFINE Below == OpToRel(<, Nat)
           R == Nat \ S
<1>1. SUFFICES ASSUME R # {} PROVE FALSE
  OBVIOUS
<1>2. PICK n \in R : \A m \in R : <<m, n>> \notin Below
  <2>1. IsWellFoundedOn(Below, Nat) /\ R \subseteq Nat
    BY NatLessThanWellFounded
  <2> HIDE DEF Below, R
  <2>2. QED
    BY <1>1, <2>1, WFMin
<1>3. n \in Nat /\ n # 0 /\ n - 1 \in Nat /\ n - 1 < n
  <2> HIDE DEF Below
  <2>1. n \in Nat /\ n \notin S
    OBVIOUS
  <2>2. n # 0
    BY <2>1
  <2>3. QED
    BY <2>1, <2>2
<1>4. n - 1 \in S
  BY <1>2, <1>3 DEF OpToRel
<1> HIDE DEF Below
<1>5. n - 1 + 1 \in S /\ n - 1 + 1 = n
  BY <1>3, <1>4
<1>6. QED
  BY <1>2, <1>5

\* The entry for s in a ledger g of the amounts f: as a fold adds them up, one
\* chosen element and the entry for the rest.
Entry(g, f, s) ==
  IF s = {} THEN 0 ELSE LET x == CHOOSE x \in s : TRUE IN f[x] + g[s \ {x}]

IsLedger(g, f, T) == g = [s \in SUBSET T |-> Entry(g, f, s)]

Small(T, n) == {s \in SUBSET T : Cardinality(s) <= n}

\* What is left of a small set without an element.
LEMMA Smaller ==
  ASSUME NEW T, IsFiniteSet(T), NEW n \in Nat
  PROVE  /\ Small(T, 0) = {{}}
         /\ \A s \in Small(T, n + 1) : \A x \in s : s \ {x} \in Small(T, n)
         /\ Small(T, n) \subseteq Small(T, n + 1)
         /\ Small(T, Cardinality(T)) = SUBSET T
<1>1. ASSUME NEW s \in SUBSET T
      PROVE  IsFiniteSet(s) /\ Cardinality(s) \in Nat /\ Cardinality(s) <= Cardinality(T)
  BY FS_Subset, FS_CardinalityType
<1>2. Small(T, 0) = {{}}
  <2>1. ASSUME NEW s \in SUBSET T PROVE Cardinality(s) <= 0 <=> s = {}
    BY <1>1, FS_EmptySet
  <2>2. QED
    BY <2>1 DEF Small
<1>3. ASSUME NEW s \in Small(T, n + 1), NEW x \in s PROVE s \ {x} \in Small(T, n)
  <2>1. s \in SUBSET T /\ IsFiniteSet(s) /\ Cardinality(s) \in Nat /\ Cardinality(s) <= n + 1
    BY <1>1 DEF Small
  <2>2. Cardinality(s \ {x}) = Cardinality(s) - 1
    BY <2>1, FS_RemoveElement
  <2>3. QED
    BY <2>1, <2>2 DEF Small
<1>4. Small(T, n) \subseteq Small(T, n + 1)
  BY <1>1 DEF Small
<1>5. Small(T, Cardinality(T)) = SUBSET T
  BY <1>1 DEF Small
<1>6. QED
  BY <1>2, <1>3, <1>4, <1>5

\* There is a ledger of any amounts over any finite set.
LEMMA LedgerExists ==
  ASSUME NEW f, NEW T, IsFiniteSet(T)
  PROVE  \E g : IsLedger(g, f, T)
<1> DEFINE N == {n \in Nat : \E g : g = [s \in Small(T, n) |-> Entry(g, f, s)]}
<1>1. 0 \in N
  <2> DEFINE g == [s \in {{}} |-> 0]
  <2>1. g = [s \in {{}} |-> Entry(g, f, s)]
    BY DEF Entry
  <2> HIDE DEF g
  <2>2. QED
    BY <2>1, Smaller
<1>2. ASSUME NEW n \in N PROVE n + 1 \in N
  <2>1. PICK g : g = [s \in Small(T, n) |-> Entry(g, f, s)]
    OBVIOUS
  <2> DEFINE h == [s \in Small(T, n + 1) |-> Entry(g, f, s)]
  <2>2. ASSUME NEW s \in Small(T, n + 1) PROVE Entry(g, f, s) = Entry(h, f, s)
    <3>1. CASE s = {}
      BY <3>1 DEF Entry
    <3>2. CASE s # {}
      <4> DEFINE x == CHOOSE x \in s : TRUE
      <4>1. x \in s
        BY <3>2
      <4>2. s \ {x} \in Small(T, n) /\ s \ {x} \in Small(T, n + 1)
        BY <1>2, <4>1, Smaller
      <4>3. g[s \ {x}] = Entry(g, f, s \ {x}) /\ h[s \ {x}] = Entry(g, f, s \ {x})
        BY <2>1, <4>2
      <4> HIDE DEF h
      <4>4. QED
        BY <3>2, <4>3 DEF Entry
    <3>3. QED
      BY <3>1, <3>2
  <2>3. h = [s \in Small(T, n + 1) |-> Entry(h, f, s)]
    BY <2>2
  <2> HIDE DEF h
  <2>4. QED
    BY <1>2, <2>3
<1>3. Cardinality(T) \in N
  <2> HIDE DEF N
  <2>1. N = Nat
    <3>1. N \subseteq Nat
      BY DEF N
    <3>2. QED
      BY <1>1, <1>2, <3>1, UpFromZero
  <2>2. QED
    BY <2>1, FS_CardinalityType
<1>4. Small(T, Cardinality(T)) = SUBSET T
  BY Smaller, FS_CardinalityType
<1>5. \E g : g = [s \in Small(T, Cardinality(T)) |-> Entry(g, f, s)]
  BY <1>3
<1>6. QED
  BY <1>4, <1>5 DEF IsLedger

\* What is entered is a number.
LEMMA LedgerNat ==
  ASSUME NEW f, NEW T, IsFiniteSet(T), \A x \in T : f[x] \in Nat, NEW g, IsLedger(g, f, T),
         NEW S \in SUBSET T
  PROVE  g[S] \in Nat
<1> DEFINE N == {n \in Nat : \A s \in Small(T, n) : g[s] \in Nat}
<1>0. \A s \in SUBSET T : g[s] = Entry(g, f, s)
  BY DEF IsLedger
<1>1. 0 \in N
  BY <1>0, Smaller DEF Entry
<1>2. ASSUME NEW n \in N PROVE n + 1 \in N
  <2>1. ASSUME NEW s \in Small(T, n + 1), s # {} PROVE g[s] \in Nat
    <3> DEFINE x == CHOOSE x \in s : TRUE
    <3>1. x \in s /\ x \in T /\ s \in SUBSET T
      BY <2>1 DEF Small
    <3>2. s \ {x} \in Small(T, n)
      BY <1>2, <3>1, Smaller
    <3>3. f[x] \in Nat /\ g[s \ {x}] \in Nat
      BY <1>2, <3>1, <3>2
    <3>4. g[s] = f[x] + g[s \ {x}]
      BY <1>0, <2>1, <3>1 DEF Entry
    <3>5. QED
      BY <3>3, <3>4
  <2>2. g[{}] = 0
    BY <1>0 DEF Entry
  <2>3. ASSUME NEW s \in Small(T, n + 1) PROVE g[s] \in Nat
    <3>1. CASE s = {}
      BY <2>2, <3>1
    <3>2. CASE s # {}
      BY <2>1, <3>2
    <3>3. QED
      BY <3>1, <3>2
  <2>4. QED
    BY <1>2, <2>3
<1>3. Cardinality(T) \in N
  <2> HIDE DEF N
  <2>1. N = Nat
    <3>1. N \subseteq Nat
      BY DEF N
    <3>2. QED
      BY <1>1, <1>2, <3>1, UpFromZero
  <2>2. QED
    BY <2>1, FS_CardinalityType
<1>4. QED
  BY <1>3, Smaller, FS_CardinalityType

\* The order does not matter: any element can be the one taken out.
LEMMA TakeOut ==
  ASSUME NEW f, NEW T, IsFiniteSet(T), \A x \in T : f[x] \in Nat, NEW g, IsLedger(g, f, T),
         NEW S \in SUBSET T, NEW e \in S
  PROVE  g[S] = f[e] + g[S \ {e}]
<1> DEFINE N == {n \in Nat : \A s \in Small(T, n) : \A x \in s : g[s] = f[x] + g[s \ {x}]}
<1>0. \A s \in SUBSET T : g[s] = Entry(g, f, s)
  BY DEF IsLedger
<1>1. 0 \in N
  BY Smaller
<1>2. ASSUME NEW n \in N PROVE n + 1 \in N
  <2>1. ASSUME NEW s \in Small(T, n + 1), NEW x \in s PROVE g[s] = f[x] + g[s \ {x}]
    <3> DEFINE c == CHOOSE y \in s : TRUE
    <3>1. c \in s /\ s \in SUBSET T
      BY DEF Small
    <3>2. g[s] = f[c] + g[s \ {c}]
      BY <1>0, <2>1, <3>1 DEF Entry
    <3>3. CASE c = x
      BY <3>2, <3>3
    <3>4. CASE c # x
      <4>1. s \ {c} \in Small(T, n) /\ s \ {x} \in Small(T, n)
        BY <1>2, <3>1, Smaller
      <4>2. g[s \ {c}] = f[x] + g[(s \ {c}) \ {x}]
        BY <1>2, <3>4, <4>1
      <4>3. g[s \ {x}] = f[c] + g[(s \ {x}) \ {c}]
        BY <1>2, <3>1, <3>4, <4>1
      <4>4. (s \ {c}) \ {x} = (s \ {x}) \ {c} /\ (s \ {x}) \ {c} \in SUBSET T
        BY <3>1
      <4>5. f[x] \in Nat /\ f[c] \in Nat /\ g[(s \ {x}) \ {c}] \in Nat
        BY <3>1, <4>4, LedgerNat
      <4>6. \A i, j, k \in Nat : i + (j + k) = j + (i + k)
        OBVIOUS
      <4> HIDE DEF c
      <4>7. f[c] + (f[x] + g[(s \ {x}) \ {c}]) = f[x] + (f[c] + g[(s \ {x}) \ {c}])
        BY <4>5, <4>6
      <4>8. QED
        BY <3>2, <4>2, <4>3, <4>4, <4>7
    <3>5. QED
      BY <3>3, <3>4
  <2>2. QED
    BY <1>2, <2>1
<1>3. Cardinality(T) \in N
  <2> HIDE DEF N
  <2>1. N = Nat
    <3>1. N \subseteq Nat
      BY DEF N
    <3>2. QED
      BY <1>1, <1>2, <3>1, UpFromZero
  <2>2. QED
    BY <2>1, FS_CardinalityType
<1>4. QED
  BY <1>3, Smaller, FS_CardinalityType

\* Two ledgers agree on what both have the same amounts of.
LEMMA LedgersAgree ==
  ASSUME NEW f, NEW T, NEW g, IsLedger(g, f, T), NEW d, NEW U, NEW h, IsLedger(h, d, U),
         NEW S, S \subseteq T, S \subseteq U, IsFiniteSet(S), \A x \in S : f[x] = d[x]
  PROVE  g[S] = h[S]
<1> DEFINE N == {n \in Nat : \A s \in Small(S, n) : g[s] = h[s]}
<1>0. /\ \A s \in SUBSET T : g[s] = Entry(g, f, s)
      /\ \A s \in SUBSET U : h[s] = Entry(h, d, s)
  BY DEF IsLedger
<1>1. 0 \in N
  <2>1. g[{}] = 0 /\ h[{}] = 0
    BY <1>0 DEF Entry
  <2>2. Small(S, 0) = {{}}
    BY Smaller
  <2>3. QED
    BY <2>1, <2>2
<1>2. ASSUME NEW n \in N PROVE n + 1 \in N
  <2>1. ASSUME NEW s \in Small(S, n + 1), s # {} PROVE g[s] = h[s]
    <3> DEFINE x == CHOOSE x \in s : TRUE
    <3>1. x \in s /\ x \in S /\ s \in SUBSET T /\ s \in SUBSET U
      BY <2>1 DEF Small
    <3>2. s \ {x} \in Small(S, n)
      BY <1>2, <3>1, Smaller
    <3>3. f[x] = d[x] /\ g[s \ {x}] = h[s \ {x}]
      BY <1>2, <3>1, <3>2
    <3>4. g[s] = f[x] + g[s \ {x}] /\ h[s] = d[x] + h[s \ {x}]
      BY <1>0, <2>1, <3>1 DEF Entry
    <3>5. QED
      BY <3>3, <3>4
  <2>2. g[{}] = h[{}]
    BY <1>0 DEF Entry
  <2>3. QED
    BY <1>2, <2>1, <2>2
<1>3. Cardinality(S) \in N
  <2> HIDE DEF N
  <2>1. N = Nat
    <3>1. N \subseteq Nat
      BY DEF N
    <3>2. QED
      BY <1>1, <1>2, <3>1, UpFromZero
  <2>2. QED
    BY <2>1, FS_CardinalityType
<1>4. QED
  BY <1>3, Smaller, FS_CardinalityType

-----------------------------------------------------------------------------
(* What the bulk lanes need together.                                       *)

\* What the tickets of S, given to these lanes, are estimated to need together.
TotalGb(lanes, S) == MapThenSumSet(LAMBDA i : EstimateGb[lanes[i]], S)

Amounts(lanes) == [i \in Tickets |-> EstimateGb[lanes[i]]]

\* It is the entry of a ledger.
LEMMA TotalIsEntry ==
  ASSUME NEW lanes, NEW S \in SUBSET Tickets, IsFiniteSet(S)
  PROVE  \E g : IsLedger(g, Amounts(lanes), S) /\ TotalGb(lanes, S) = g[S]
<1> DEFINE Goes(g) == g = [s \in SUBSET S |->
                             IF s = {} THEN 0
                             ELSE LET x == CHOOSE x \in s : TRUE
                                  IN  EstimateGb[lanes[x]] + g[s \ {x}]]
<1>1. ASSUME NEW g PROVE Goes(g) <=> IsLedger(g, Amounts(lanes), S)
  <2>1. ASSUME NEW s \in SUBSET S
        PROVE  Entry(g, Amounts(lanes), s)
                 = IF s = {} THEN 0
                   ELSE LET x == CHOOSE x \in s : TRUE
                        IN  EstimateGb[lanes[x]] + g[s \ {x}]
    BY DEF Entry, Amounts
  <2>2. QED
    BY <2>1 DEF IsLedger
<1>2. \E g : Goes(g)
  <2> HIDE DEF Goes
  <2>1. QED
    BY <1>1, LedgerExists
<1>3. TotalGb(lanes, S) = (CHOOSE g : Goes(g))[S]
  BY DEF TotalGb, MapThenSumSet, MapThenFoldSet
<1>4. Goes(CHOOSE g : Goes(g))
  <2> HIDE DEF Goes
  <2>1. QED
    BY <1>2
<1> HIDE DEF Goes
<1>5. QED
  BY <1>1, <1>3, <1>4

\* One more ticket adds its own estimate, whatever was given to the others.
LEMMA TotalGrows ==
  ASSUME NEW lanes, NEW with, NEW S \in SUBSET Tickets, NEW i \in Tickets, i \notin S,
         IsFiniteSet(S), \A j \in S : with[j] = lanes[j],
         \A j \in S \cup {i} : with[j] \in Lanes
  PROVE  TotalGb(with, S \cup {i}) = EstimateGb[with[i]] + TotalGb(lanes, S)
<1> DEFINE T == S \cup {i}
<1>1. T \in SUBSET Tickets /\ IsFiniteSet(T)
  BY FS_AddElement
<1>2. PICK g : IsLedger(g, Amounts(lanes), S) /\ TotalGb(lanes, S) = g[S]
  BY TotalIsEntry
<1>3. PICK h : IsLedger(h, Amounts(with), T) /\ TotalGb(with, T) = h[T]
  <2> HIDE DEF T
  <2>1. QED
    BY <1>1, TotalIsEntry
<1>4. \A j \in T : Amounts(with)[j] \in Nat /\ Amounts(with)[j] = EstimateGb[with[j]]
  BY <1>1, LaneAssumption DEF Amounts
<1>5. \A j \in S : Amounts(lanes)[j] = Amounts(with)[j]
  BY DEF Amounts
<1>6. g[S] = h[S]
  <2>1. S \subseteq T
    OBVIOUS
  <2> HIDE DEF T
  <2>2. QED
    BY <1>2, <1>3, <1>5, <2>1, LedgersAgree
<1>7. h[T] = Amounts(with)[i] + h[T \ {i}]
  <2>1. i \in T
    OBVIOUS
  <2> HIDE DEF T
  <2>2. QED
    BY <1>1, <1>3, <1>4, <2>1, TakeOut
<1>8. T \ {i} = S
  OBVIOUS
<1>9. QED
  BY <1>2, <1>3, <1>4, <1>6, <1>7, <1>8

\* The total is a number.
LEMMA TotalNat ==
  ASSUME NEW lanes, NEW S \in SUBSET Tickets, IsFiniteSet(S), \A j \in S : lanes[j] \in Lanes
  PROVE  TotalGb(lanes, S) \in Nat
<1>1. PICK g : IsLedger(g, Amounts(lanes), S) /\ TotalGb(lanes, S) = g[S]
  BY TotalIsEntry
<1>2. \A j \in S : Amounts(lanes)[j] \in Nat
  BY LaneAssumption DEF Amounts
<1>3. QED
  BY <1>1, <1>2, LedgerNat

\* Without tickets there is nothing to add.
LEMMA TotalOfNone == ASSUME NEW lanes PROVE TotalGb(lanes, {}) = 0
<1>1. PICK g : IsLedger(g, Amounts(lanes), {}) /\ TotalGb(lanes, {}) = g[{}]
  BY FS_EmptySet, TotalIsEntry
<1>2. g[{}] = Entry(g, Amounts(lanes), {})
  BY <1>1 DEF IsLedger
<1>3. QED
  BY <1>1, <1>2 DEF Entry

\* bulkGb is this total, before a step and after it.
LEMMA BulkGbIs ==
  /\ bulkGb = TotalGb(laneOf, BulkHolders)
  /\ bulkGb' = TotalGb(laneOf', BulkHolders')
BY DEF bulkGb, TotalGb, MapThenSumSet, MapThenFoldSet

-----------------------------------------------------------------------------
(* The pieces of the actions.                                               *)

\* grant() hands out the slot only when it is free, and never an id in use.
LEMMA GrantInv ==
  ASSUME TicketInv, NEW l \in Lanes, NEW w \in {"none", "child", "inproc"},
         grant(l, w)
  PROVE  /\ TicketInv'
         /\ SlotHolders \subseteq SlotHolders'
         /\ held' \ held # {}
         /\ Admissible(l)
<1>1. PICK i \in Fresh :
         /\ held' = held \cup {i}
         /\ laneOf' = [laneOf EXCEPT ![i] = l]
         /\ preemptedBy' = [preemptedBy EXCEPT ![i] = NoLane]
         /\ beat' = [beat EXCEPT ![i] = TRUE]
         /\ work' = [work EXCEPT ![i] = w]
  BY DEF grant
<1>2. i \in Tickets /\ i \notin held /\ work[i] = "none"
  BY <1>1 DEF Fresh
<1>3. \A j \in held : laneOf'[j] = laneOf[j]
  BY <1>1, <1>2 DEF TicketInv
<1>4. laneOf'[i] = l
  BY <1>1, <1>2 DEF TicketInv
<1>5. SlotHolders' = SlotHolders \cup (IF Klass[l] = "bulk" THEN {} ELSE {i})
  BY <1>1, <1>3, <1>4, LaneAssumption DEF SlotHolders, holdsSlot, Classes
<1>6. Klass[l] # "bulk" => SlotHolders = {}
  <2>1. Klass[l] # "bulk" => residentCount < RESIDENT_MAX
    BY LaneAssumption DEF grant, Admissible, RoomFor, Classes
  <2>2. QED
    BY <2>1, HoldersFinite, NoneBelowMax DEF residentCount
<1>7. OneHolder'
  BY <1>5, <1>6 DEF TicketInv, OneHolder
<1>8. /\ held' \subseteq Tickets
      /\ laneOf' \in [Tickets -> Lanes \cup {NoLane}]
      /\ preemptedBy' \in [Tickets -> Lanes \cup {NoLane}]
      /\ beat' \in [Tickets -> BOOLEAN]
      /\ work' \in [Tickets -> Work]
  BY <1>1, <1>2 DEF TicketInv, Work
<1>9. \A j \in Tickets : (j \in held' \/ work'[j] # "none") => laneOf'[j] \in Lanes
  BY <1>1, <1>2 DEF TicketInv
<1>10. \A j \in Tickets : work'[j] # "none" /\ j \notin held' => Reclaimed(j)'
  BY <1>1, <1>2 DEF TicketInv, Reclaimed
<1>11. QED
  BY <1>1, <1>2, <1>5, <1>7, <1>8, <1>9, <1>10 DEF TicketInv, grant

\* A refusal leaves the tickets and the slot as they are.
LEMMA RefuseInv ==
  ASSUME TicketInv, NEW l \in Lanes, Refuse(l)
  PROVE  TicketInv' /\ SlotHolders' = SlotHolders
<1>1. /\ UNCHANGED <<held, laneOf, beat, work>>
      /\ preemptedBy' \in [Tickets -> Lanes \cup {NoLane}]
  BY DEF Refuse, TicketInv
<1>2. SlotHolders' = SlotHolders
  BY <1>1 DEF SlotHolders, holdsSlot
<1>3. QED
  BY <1>1, <1>2 DEF TicketInv, OneHolder, Reclaimed

\* drainResidentQueue() re-establishes the queue half for the holders it is told.
LEMMA DrainInv ==
  ASSUME QueueInv, IsFiniteSet(SlotHolders'), NEW q \in Seq(Waiters), Len(q) <= 1,
         drainResidentQueue(SlotHolders', q)
  PROVE  QueueInv'
<1>1. Cardinality(SlotHolders') >= RESIDENT_MAX <=> SlotHolders' # {}
  BY NoneBelowMax
<1>2. CASE q = <<>> \/ Cardinality(SlotHolders') >= RESIDENT_MAX
  <2>1. queue' = q /\ pending' = NoWaiter /\ wakes' = 0 /\ spun' = spun
    BY <1>2 DEF drainResidentQueue
  <2>2. QED
    BY <2>1, <1>1, <1>2, BoundAssumption DEF QueueInv, Idle
<1>3. CASE ~(q = <<>> \/ Cardinality(SlotHolders') >= RESIDENT_MAX)
  <2>1. SlotHolders' = {} /\ q # <<>> /\ Tail(q) = <<>> /\ Head(q) \in Waiters
    BY <1>1, <1>3
  <2>2. CASE wakes < StackDepth
    <3>1. queue' = Tail(q) /\ pending' = Head(q) /\ wakes' = wakes + 1 /\ spun' = spun
      BY <1>3, <2>2 DEF drainResidentQueue
    <3>2. QED
      BY <3>1, <2>1, <2>2, LaneAssumption, BoundAssumption DEF QueueInv, Idle
  <2>3. CASE ~(wakes < StackDepth)
    <3>1. queue' \in {q, Tail(q)} /\ pending' = NoWaiter /\ wakes' = 0 /\ spun' = TRUE
      BY <1>3, <2>3 DEF drainResidentQueue
    <3>2. QED
      BY <3>1, <2>1, BoundAssumption DEF QueueInv, Idle
  <2>4. QED
    BY <2>2, <2>3
<1>4. QED
  BY <1>2, <1>3

\* queueForResident(), called with the slot as it stands.
LEMMA QueueForResidentInv ==
  ASSUME QueueInv, NEW w \in Waiters, queueForResident(w),
         IsFiniteSet(SlotHolders), SlotHolders' = SlotHolders,
         Idle \/ SlotHolders = {}
  PROVE  QueueInv'
<1>1. CASE queue # <<>> \/ Len(queue) >= RESIDENT_QUEUE_MAX
  <2>1. queue # <<>> /\ Idle
    BY <1>1, BoundAssumption DEF QueueInv
  <2>2. queue' = queue /\ spun' = spun /\ pending' = NoWaiter /\ wakes' = 0
    BY <1>1 DEF queueForResident
  <2>3. QED
    BY <2>1, <2>2, BoundAssumption DEF QueueInv, Idle
<1>2. CASE ~(queue # <<>> \/ Len(queue) >= RESIDENT_QUEUE_MAX)
  <2>1. /\ Append(queue, w) \in Seq(Waiters)
        /\ Len(Append(queue, w)) <= 1
    BY <1>2 DEF QueueInv
  <2>2. drainResidentQueue(SlotHolders', Append(queue, w))
    BY <1>2 DEF queueForResident
  <2>3. QED
    BY <2>1, <2>2, DrainInv
<1>3. QED
  BY <1>1, <1>2

\* doRelease(i): the queue is drained when i held the slot, untouched otherwise.
LEMMA DoReleaseInv ==
  ASSUME QueueInv, Idle, NEW i \in Tickets, doRelease(i),
         IsFiniteSet(SlotHolders), SlotHolders' = SlotHolders \ {i}
  PROVE  QueueInv'
<1>1. CASE i \in held /\ holdsSlot(i)
  <2>1. drainResidentQueue(SlotHolders', queue)
    BY <1>1 DEF doRelease
  <2>2. IsFiniteSet(SlotHolders')
    BY FS_Subset
  <2>3. QED
    BY <2>1, <2>2, DrainInv DEF QueueInv
<1>2. CASE ~(i \in held /\ holdsSlot(i))
  <2>1. SlotHolders' = SlotHolders
    BY <1>2 DEF SlotHolders
  <2>2. UNCHANGED queueVars
    BY <1>2 DEF doRelease
  <2>3. QED
    BY <2>1, <2>2 DEF QueueInv, queueVars, Idle
<1>3. QED
  BY <1>1, <1>2

\* Refusal counters keep their type.
LEMMA RefusalType ==
  ASSUME ProbeInv, NEW l, bumpRefusal(l) \/ clearRefusal(l)
  PROVE  refusals' \in [AgingLanes -> 0..AGING_THRESHOLD]
<1>1. CASE bumpRefusal(l)
  BY <1>1, BoundAssumption DEF ProbeInv, bumpRefusal
<1>2. CASE clearRefusal(l)
  BY <1>2, BoundAssumption DEF ProbeInv, clearRefusal
<1>3. QED
  BY <1>1, <1>2

\* An owner that ends forgets its ticket: Release and ChildCloses.
LEMMA OwnerEnds ==
  ASSUME TicketInv, QueueInv, Idle, NEW i \in Tickets, Forget(i), doRelease(i)
  PROVE  TicketInv' /\ QueueInv' /\ held' \subseteq held
<1>1. /\ held' = held \ {i}
      /\ laneOf' = [laneOf EXCEPT ![i] = NoLane]
      /\ preemptedBy' = [preemptedBy EXCEPT ![i] = NoLane]
      /\ beat' = [beat EXCEPT ![i] = FALSE]
      /\ work' = [work EXCEPT ![i] = "none"]
  BY DEF doRelease, Forget
<1>2. SlotHolders' = SlotHolders \ {i}
  BY <1>1 DEF SlotHolders, holdsSlot, TicketInv
<1>3. TicketInv'
  BY <1>1, <1>2 DEF TicketInv, OneHolder, Reclaimed, Work
<1>4. QueueInv'
  BY <1>2, DoReleaseInv, HoldersFinite
<1>5. QED
  BY <1>1, <1>3, <1>4

\* A step that changes neither the table nor the queue keeps both halves.
LEMMA TableKept ==
  ASSUME TicketInv, QueueInv, UNCHANGED <<held, laneOf, queueVars>>,
         preemptedBy' \in [Tickets -> Lanes \cup {NoLane}],
         beat' \in [Tickets -> BOOLEAN], work' \in [Tickets -> Work],
         \A j \in Tickets : j \notin held => beat'[j] = beat[j] /\ work'[j] = work[j]
  PROVE  TicketInv' /\ QueueInv' /\ held' \subseteq held
<1>1. SlotHolders' = SlotHolders
  BY DEF SlotHolders, holdsSlot
<1>2. QueueInv'
  BY <1>1 DEF QueueInv, queueVars, Idle
<1>3. TicketInv'
  BY <1>1 DEF TicketInv, OneHolder, Reclaimed
<1>4. QED
  BY <1>2, <1>3

\* What a step that adds a ticket to the table may do under pressure, and within
\* the budget.
PressureOk ==
  held' \ held # {} =>
    /\ pressure # "critical"
    /\ pressure = "warn" => SlotHolders' = {} \/ BulkHolders' = {}

BudgetOk == (\E i \in held' \ held : Klass[laneOf'[i]] = "bulk") => bulkGb' <= budget

GrantOk == PressureOk /\ BudgetOk

\* A step that adds no ticket may do anything.
LEMMA NoGrantOk == held' \subseteq held => GrantOk
BY DEF GrantOk, PressureOk, BudgetOk

\* grant() does not mix a model with a bulk lane under a warning.
LEMMA GrantRespects ==
  ASSUME TicketInv, NEW l \in Lanes, NEW w, grant(l, w)
  PROVE  PressureOk
<1>1. PICK i \in Fresh : held' = held \cup {i} /\ laneOf' = [laneOf EXCEPT ![i] = l]
  BY DEF grant
<1>2. i \in Tickets /\ i \notin held
  BY <1>1 DEF Fresh
<1>3. laneOf'[i] = l /\ \A j \in held : laneOf'[j] = laneOf[j]
  BY <1>1, <1>2 DEF TicketInv
<1>4. ~PressureRefuses(l)
  BY DEF grant, Admissible
<1>5. pressure # "critical"
  BY <1>4 DEF PressureRefuses
<1>6. CASE Klass[l] = "bulk"
  <2>1. pressure = "warn" => SlotHolders = {}
    BY <1>4, <1>6, HoldersFinite, NoneBelowMax DEF PressureRefuses, residentCount
  <2>2. SlotHolders' = SlotHolders
    BY <1>1, <1>3, <1>6 DEF SlotHolders, holdsSlot
  <2>3. QED
    BY <1>5, <2>1, <2>2 DEF PressureOk
<1>7. CASE Klass[l] # "bulk"
  <2>1. pressure = "warn" => BulkHolders = {}
    BY <1>4, <1>7, HoldersFinite, NoneBelowMax DEF PressureRefuses, bulkCount
  <2>2. BulkHolders' = BulkHolders
    BY <1>1, <1>3, <1>7 DEF BulkHolders
  <2>3. QED
    BY <1>5, <2>1, <2>2 DEF PressureOk
<1>8. QED
  BY <1>6, <1>7

\* grant() leaves the sum of the estimates within the budget: the first bulk lane
\* is compared alone, every other one together with those that are there.
LEMMA GrantFits ==
  ASSUME TicketInv, NEW l \in Lanes, NEW w, grant(l, w)
  PROVE  BudgetOk
<1>1. PICK i \in Fresh : held' = held \cup {i} /\ laneOf' = [laneOf EXCEPT ![i] = l]
  BY DEF grant
<1>2. i \in Tickets /\ i \notin held
  BY <1>1 DEF Fresh
<1>3. laneOf'[i] = l /\ \A j \in held : laneOf'[j] = laneOf[j] /\ laneOf[j] \in Lanes
  BY <1>1, <1>2 DEF TicketInv
<1>4. SUFFICES ASSUME Klass[l] = "bulk" PROVE bulkGb' <= budget
  BY <1>1, <1>3 DEF BudgetOk
<1>5. BulkHolders' = BulkHolders \cup {i} /\ BulkHolders \subseteq held
  BY <1>1, <1>3, <1>4 DEF BulkHolders
<1>6. bulkGb' = EstimateGb[l] + bulkGb
  <2>1. BulkHolders \in SUBSET Tickets /\ IsFiniteSet(BulkHolders) /\ i \notin BulkHolders
    BY <1>2, <1>5, HoldersFinite DEF TicketInv
  <2>2. \A j \in BulkHolders : laneOf'[j] = laneOf[j]
    BY <1>3, <1>5
  <2>3. \A j \in BulkHolders \cup {i} : laneOf'[j] \in Lanes
    BY <1>3, <1>5
  <2>4. TotalGb(laneOf', BulkHolders \cup {i})
          = EstimateGb[laneOf'[i]] + TotalGb(laneOf, BulkHolders)
    BY <1>2, <2>1, <2>2, <2>3, TotalGrows
  <2>5. QED
    BY <1>3, <1>5, <2>4, BulkGbIs
<1>7. /\ EstimateGb[l] \in Nat /\ EstimateGb[l] <= budget
      /\ bulkCount > 0 => bulkGb + EstimateGb[l] <= budget
  BY <1>4, LaneAssumption DEF grant, Admissible, RoomFor
<1>8. CASE BulkHolders = {}
  <2>1. bulkGb = 0
    BY <1>8, TotalOfNone, BulkGbIs
  <2>2. QED
    BY <1>6, <1>7, <2>1
<1>9. CASE BulkHolders # {}
  <2>1. bulkCount > 0
    BY <1>9, HoldersFinite, NoneBelowMax DEF bulkCount
  <2>2. bulkGb \in Nat
    <3>1. BulkHolders \in SUBSET Tickets /\ IsFiniteSet(BulkHolders)
      BY <1>5, HoldersFinite DEF TicketInv
    <3>2. \A j \in BulkHolders : laneOf[j] \in Lanes
      BY <1>3, <1>5
    <3>3. QED
      BY <3>1, <3>2, TotalNat, BulkGbIs
  <2>3. QED
    BY <1>6, <1>7, <2>1, <2>2
<1>10. QED
  BY <1>8, <1>9

-----------------------------------------------------------------------------
(* The inductive invariant.                                                 *)

\* The governor starts with an empty table and an empty queue.
LEMMA InitIInv == Init => IInv
<1> SUFFICES ASSUME Init PROVE IInv
  OBVIOUS
<1>2. SlotHolders = {}
  BY DEF Init, SlotHolders
<1>3. TicketInv
  BY <1>2 DEF Init, TicketInv, OneHolder, Work
<1>4. QueueInv
  <2>1. queue \in Seq(Waiters) /\ Len(queue) = 0
    BY DEF Init
  <2>2. wakes \in 0..StackDepth
    BY BoundAssumption DEF Init
  <2>3. queue = <<>> /\ Idle /\ pending = NoWaiter
    BY DEF Init, Idle
  <2>4. spun \in BOOLEAN
    BY DEF Init
  <2>5. QED
    BY <2>1, <2>2, <2>3, <2>4 DEF QueueInv
<1>5. ProbeInv
  BY BoundAssumption DEF Init, ProbeInv
<1>6. QED
  BY <1>3, <1>4, <1>5 DEF IInv

\* Every step keeps it, and grants only what the pressure allows.
LEMMA StepIInv == IInv /\ [Next]_vars => IInv' /\ GrantOk
<1> SUFFICES ASSUME IInv, [Next]_vars PROVE IInv' /\ GrantOk
  OBVIOUS
<1> USE DEF IInv
<1>0. IsFiniteSet(SlotHolders)
  BY HoldersFinite
<1>1. ASSUME NEW l \in Lanes, Admit(l) PROVE IInv' /\ GrantOk
  <2>1. CASE \E w \in Starts(l) : grant(l, w)
    <3>1. PICK w \in Starts(l) : grant(l, w)
      BY <2>1
    <3>2. w \in {"none", "child", "inproc"}
      BY DEF Starts
    <3>3. TicketInv' /\ SlotHolders \subseteq SlotHolders'
      BY <3>1, <3>2, GrantInv
    <3>4. QueueInv'
      BY <1>1, <3>3 DEF Admit, QueueInv, queueVars, Idle
    <3>5. ProbeInv'
      BY <1>1, <3>1, RefusalType DEF Admit, grant, probeVars, ProbeInv
    <3>6. QED
      BY <3>1, <3>3, <3>4, <3>5, GrantRespects, GrantFits DEF GrantOk
  <2>2. CASE Refuse(l)
    <3>1. TicketInv' /\ SlotHolders' = SlotHolders
      BY <2>2, RefuseInv
    <3>2. QueueInv'
      BY <1>1, <3>1 DEF Admit, QueueInv, queueVars, Idle
    <3>3. ProbeInv'
      BY <1>1, <2>2, RefusalType DEF Admit, Refuse, probeVars, ProbeInv
    <3>4. held' = held
      BY <2>2 DEF Refuse
    <3>5. QED
      BY <3>1, <3>2, <3>3, <3>4, NoGrantOk
  <2>3. QED
    BY <1>1, <2>1, <2>2 DEF Admit
<1>2. ASSUME NEW l \in Lanes, AdmitSpawnFails(l) PROVE IInv' /\ GrantOk
  <2>1. UNCHANGED <<ticketVars, probeVars>> /\ clearRefusal(l) /\ Idle
    BY <1>2 DEF AdmitSpawnFails
  <2>2. SlotHolders' = SlotHolders
    BY <2>1 DEF ticketVars, SlotHolders, holdsSlot
  <2>3. TicketInv'
    BY <2>1, <2>2 DEF ticketVars, TicketInv, OneHolder, Reclaimed
  <2>4. QueueInv'
    <3>1. CASE Klass[l] = "bulk"
      BY <1>2, <2>2, <3>1 DEF AdmitSpawnFails, QueueInv, queueVars, Idle
    <3>2. CASE Klass[l] # "bulk"
      <4>1. drainResidentQueue(SlotHolders', queue)
        BY <1>2, <2>2, <3>2 DEF AdmitSpawnFails
      <4>2. QED
        BY <1>0, <2>2, <4>1, DrainInv DEF QueueInv
    <3>3. QED
      BY <3>1, <3>2
  <2>5. ProbeInv'
    BY <2>1, RefusalType DEF probeVars, ProbeInv
  <2>6. QED
    BY <2>1, <2>3, <2>4, <2>5, NoGrantOk DEF ticketVars
<1>3. ASSUME NEW w \in Waiters, AdmitOrQueue(w) PROVE IInv' /\ GrantOk
  <2>1. QueueLane \in Lanes /\ Refuse(QueueLane)
    BY <1>3, LaneAssumption DEF AdmitOrQueue
  <2>2. TicketInv' /\ SlotHolders' = SlotHolders
    BY <2>1, RefuseInv
  <2>3. QueueInv'
    BY <1>0, <1>3, <2>2, QueueForResidentInv DEF AdmitOrQueue
  <2>4. ProbeInv'
    BY <1>3, <2>1, RefusalType DEF AdmitOrQueue, Refuse, probeVars, ProbeInv
  <2>5. QED
    BY <2>1, <2>2, <2>3, <2>4, NoGrantOk DEF Refuse
<1>4. CASE WaiterRetries
  <2>1. QueueLane \in Lanes /\ pending \in Waiters /\ queue = <<>> /\ SlotHolders = {}
    BY <1>4, LaneAssumption DEF WaiterRetries, QueueInv, Idle
  <2>2. CASE grant(QueueLane, "child")
    <3>1. TicketInv'
      BY <2>1, <2>2, GrantInv
    <3>2. pending' = NoWaiter /\ wakes' = 0 /\ queue' = queue /\ spun' = spun
      BY <1>4, <2>2 DEF WaiterRetries, grant, Refuse
    <3>3. QueueInv'
      BY <2>1, <3>2, BoundAssumption DEF QueueInv, Idle
    <3>4. ProbeInv'
      BY <1>4, <2>2, RefusalType DEF WaiterRetries, grant, probeVars, ProbeInv
    <3>5. QED
      BY <2>1, <2>2, <3>1, <3>3, <3>4, GrantRespects, GrantFits DEF GrantOk
  <2>3. CASE Refuse(QueueLane) /\ queueForResident(pending)
    <3>1. TicketInv' /\ SlotHolders' = SlotHolders
      BY <2>1, <2>3, RefuseInv
    <3>2. QueueInv'
      BY <1>0, <2>1, <2>3, <3>1, QueueForResidentInv
    <3>3. ProbeInv'
      BY <1>4, <2>3, RefusalType DEF WaiterRetries, Refuse, probeVars, ProbeInv
    <3>4. QED
      BY <2>3, <3>1, <3>2, <3>3, NoGrantOk DEF Refuse
  <2>4. QED
    BY <1>4, <2>2, <2>3 DEF WaiterRetries
<1>5. CASE WaiterSpawnFails
  <2>1. /\ UNCHANGED <<ticketVars, probeVars>>
        /\ clearRefusal(QueueLane)
        /\ drainResidentQueue(SlotHolders, queue)
    BY <1>5 DEF WaiterSpawnFails
  <2>2. SlotHolders' = SlotHolders
    BY <2>1 DEF ticketVars, SlotHolders, holdsSlot
  <2>3. TicketInv'
    BY <2>1, <2>2 DEF ticketVars, TicketInv, OneHolder, Reclaimed
  <2>4. QueueInv'
    BY <1>0, <2>1, <2>2, DrainInv DEF QueueInv
  <2>5. ProbeInv'
    BY <2>1, RefusalType DEF probeVars, ProbeInv
  <2>6. QED
    BY <2>1, <2>3, <2>4, <2>5, NoGrantOk DEF ticketVars
<1>6. CASE WaiterDeclines
  <2>1. /\ UNCHANGED <<ticketVars, refusals, probeVars, queue, spun>>
        /\ pending' = NoWaiter /\ wakes' = 0 /\ queue = <<>>
    BY <1>6 DEF WaiterDeclines, QueueInv
  <2>2. SlotHolders' = SlotHolders
    BY <2>1 DEF ticketVars, SlotHolders, holdsSlot
  <2>3. TicketInv' /\ QueueInv' /\ ProbeInv'
    BY <2>1, <2>2, BoundAssumption
    DEF ticketVars, TicketInv, OneHolder, Reclaimed, QueueInv, Idle, probeVars, ProbeInv
  <2>4. QED
    BY <2>1, <2>3, NoGrantOk DEF ticketVars
<1>7. ASSUME NEW i \in Tickets, Release(i) \/ ChildCloses(i) PROVE IInv' /\ GrantOk
  <2>1. Idle /\ Forget(i) /\ doRelease(i) /\ UNCHANGED <<refusals, probeVars>>
    BY <1>7 DEF Release, ChildCloses
  <2>2. TicketInv' /\ QueueInv' /\ held' \subseteq held
    BY <2>1, OwnerEnds
  <2>3. QED
    BY <2>1, <2>2, NoGrantOk DEF ProbeInv, probeVars
<1>8. ASSUME NEW i \in Tickets, ChildExits(i) \/ Heartbeat(i) \/ LeaseLapses(i)
             \/ \E l \in Lanes : Abandon(i, l)
      PROVE  IInv' /\ GrantOk
  <2>1. UNCHANGED <<held, laneOf, queueVars, refusals, probeVars>>
    BY <1>8 DEF ChildExits, Heartbeat, LeaseLapses, Abandon
  <2>2. /\ preemptedBy' \in [Tickets -> Lanes \cup {NoLane}]
        /\ beat' \in [Tickets -> BOOLEAN]
        /\ work' \in [Tickets -> Work]
    BY <1>8 DEF ChildExits, Heartbeat, LeaseLapses, Abandon, abandonPreempt, TicketInv, Work
  <2>3. work[i] = "child" => i \in held
    BY DEF TicketInv, Reclaimed
  <2>4. \A j \in Tickets : j \notin held => beat'[j] = beat[j] /\ work'[j] = work[j]
    BY <1>8, <2>3 DEF ChildExits, Heartbeat, LeaseLapses, Abandon, TicketInv
  <2>5. TicketInv' /\ QueueInv' /\ held' \subseteq held
    BY <2>1, <2>2, <2>4, TableKept
  <2>6. QED
    BY <2>1, <2>5, NoGrantOk DEF ProbeInv, probeVars
<1>9. ASSUME NEW i \in Tickets, LeaseReclaims(i) PROVE IInv' /\ GrantOk
  <2>1. /\ Idle /\ i \in held /\ laneOf[i] \in Leased /\ work[i] # "child" /\ ~beat[i]
        /\ doRelease(i) /\ held' = held \ {i} /\ UNCHANGED <<refusals, probeVars>>
    BY <1>9 DEF LeaseReclaims, childStillRunning, doRelease
  <2>2. CASE work[i] = "none"
    <3>1. TicketInv' /\ QueueInv' /\ held' \subseteq held
      BY <1>9, <2>1, <2>2, OwnerEnds DEF LeaseReclaims
    <3>2. QED
      BY <2>1, <3>1, NoGrantOk DEF ProbeInv, probeVars
  <2>3. CASE work[i] # "none"
    <3>1. UNCHANGED <<laneOf, preemptedBy, beat, work>>
      BY <1>9, <2>3 DEF LeaseReclaims
    <3>2. SlotHolders' = SlotHolders \ {i}
      BY <2>1, <3>1 DEF SlotHolders, holdsSlot
    <3>3. TicketInv'
      BY <2>1, <3>1, <3>2 DEF TicketInv, OneHolder, Reclaimed
    <3>4. QueueInv'
      BY <1>0, <2>1, <3>2, DoReleaseInv
    <3>5. QED
      BY <2>1, <3>3, <3>4, NoGrantOk DEF ProbeInv, probeVars
  <2>4. QED
    BY <2>2, <2>3
<1>10. CASE ReadPressure \/ RefreshBudget
  <2>1. /\ UNCHANGED <<ticketVars, refusals, queueVars>>
        /\ pressure' \in Pressures /\ budget' \in Budgets \cup {COLD_BUDGET_GB}
    BY <1>10 DEF ReadPressure, RefreshBudget, ProbeInv
  <2>2. TicketInv' /\ QueueInv' /\ held' \subseteq held
    BY <2>1, TableKept DEF ticketVars, TicketInv
  <2>3. QED
    BY <2>1, <2>2, NoGrantOk DEF ProbeInv
<1>11. CASE UNCHANGED vars
  <2>1. UNCHANGED <<ticketVars, refusals, probeVars, queueVars>>
    BY <1>11 DEF vars
  <2>2. TicketInv' /\ QueueInv' /\ held' \subseteq held
    BY <2>1, TableKept DEF ticketVars, TicketInv
  <2>3. QED
    BY <2>1, <2>2, NoGrantOk DEF ProbeInv, probeVars
<1>12. QED
  BY <1>1, <1>2, <1>3, <1>4, <1>5, <1>6, <1>7, <1>8, <1>9, <1>10, <1>11 DEF Next

\* What the inductive invariant says of the properties that the runs check.
LEMMA IInvImplies ==
  ASSUME IInv
  PROVE  TypeOK /\ SlotBound /\ RunningChildKeepsTicket
         /\ DoubleUseOnlyAfterReclaim /\ NoLostWakeup
<1>1. TypeOK
  BY DEF IInv, TicketInv, QueueInv, ProbeInv, TypeOK
<1>2. SlotBound
  BY HoldersFinite, AtMostOne DEF IInv, TicketInv, OneHolder, SlotBound, residentCount, RESIDENT_MAX
<1>3. RunningChildKeepsTicket
  BY DEF IInv, TicketInv, Reclaimed, RunningChildKeepsTicket
<1>4. DoubleUseOnlyAfterReclaim
  BY DEF IInv, TicketInv, OneHolder, SlotHolders, Reclaimed, DoubleUseOnlyAfterReclaim
<1>5. NoLostWakeup
  BY HoldersFinite, NoneBelowMax DEF IInv, QueueInv, NoLostWakeup, residentCount
<1>6. QED
  BY <1>1, <1>2, <1>3, <1>4, <1>5

-----------------------------------------------------------------------------
(* The theorems.                                                            *)

\* The strengthening is an invariant of the governor.
THEOREM Inductive == Spec => []IInv
<1>1. IInv /\ [Next]_vars => IInv'
  BY StepIInv
<1>2. QED
  BY InitIInv, <1>1, PTL DEF Spec

\* The state of the governor keeps its types.
THEOREM TypeCorrect == Spec => []TypeOK
<1>1. IInv => TypeOK
  BY IInvImplies
<1>2. QED
  BY Inductive, <1>1, PTL

\* At most one model lane holds a ticket, for any lanes and any schedule.
THEOREM SlotBounded == Spec => []SlotBound
<1>1. IInv => SlotBound
  BY IInvImplies
<1>2. QED
  BY Inductive, <1>1, PTL

\* A child that is running has its ticket: no lease takes it away.
THEOREM ChildKeepsTicket == Spec => []RunningChildKeepsTicket
<1>1. IInv => RunningChildKeepsTicket
  BY IInvImplies
<1>2. QED
  BY Inductive, <1>1, PTL

\* A lease reclaim is the only way to two model lanes at work at once.
THEOREM DoubleUseExplained == Spec => []DoubleUseOnlyAfterReclaim
<1>1. IInv => DoubleUseOnlyAfterReclaim
  BY IInvImplies
<1>2. QED
  BY Inductive, <1>1, PTL

\* No waiter sleeps beside a free slot, unless the stack overflowed before.
THEOREM WakeupsNotLost == Spec => []NoLostWakeup
<1>1. IInv => NoLostWakeup
  BY IInvImplies
<1>2. QED
  BY Inductive, <1>1, PTL

\* No step grants a ticket against the memory pressure.
THEOREM PressureRespected == Spec => GrantsRespectPressure
<1>1. IInv /\ [Next]_vars =>
        [held' \ held # {} =>
           /\ pressure # "critical"
           /\ pressure = "warn" => SlotHolders' = {} \/ BulkHolders' = {}]_vars
  BY StepIInv DEF GrantOk, PressureOk
<1>2. QED
  BY Inductive, <1>1, PTL DEF Spec, GrantsRespectPressure

\* core/compute-governor.js, admit(): a bulk lane is granted only if the estimates
\* of all bulk lanes, its own with them, are within the budget; for any number of
\* bulk lanes at a time.
THEOREM BudgetRespected == Spec => BulkGrantsFitBudget
<1>1. IInv /\ [Next]_vars =>
        [(\E i \in held' \ held : Klass[laneOf'[i]] = "bulk") => bulkGb' <= budget]_vars
  BY StepIInv DEF GrantOk, BudgetOk
<1>2. QED
  BY Inductive, <1>1, PTL DEF Spec, BulkGrantsFitBudget

\* Nothing is granted that does not fit the memory, by either of its measures.
THEOREM MemoryRespected == Spec => GrantsFitMemory
BY PressureRespected, BudgetRespected DEF GrantsFitMemory

-----------------------------------------------------------------------------
(* THE JOB RUNNER.                                                          *)

\* A job is live while it is running, or has a child not yet reaped.
Live(j) == child[j] # NoTicket \/ status[j] = "running"

\* The jobs with a retry in the queue or on the stack.
Parked == {queue[k] : k \in DOMAIN queue} \cup ({pending} \ {NoWaiter})

JobTypes ==
  /\ table \subseteq Jobs
  /\ kind \in [Jobs -> {"none", "generate", "measure", "backfill"}]
  /\ status \in [Jobs -> {"none", "running", "done", "error", "canceled"}]
  /\ child \in [Jobs -> Tickets \cup {NoTicket}]
  /\ busy \subseteq Jobs
  /\ feed \in [Jobs -> {"none", "open", "abandoned", "closed"}]
  /\ runningJobId \in Jobs \cup {NoJob}
  /\ closing \in Jobs \cup {NoJob}
  /\ deletePhase \in [Deletes -> {"idle", "asked", "running"}]
  /\ deleteJob \in Deletes \cup {NoDelete}

\* A child has not closed; a close handler that is still to run has its child.
ChildrenRun ==
  /\ \A j \in Jobs \ {closing} :
       child[j] # NoTicket => work[child[j]] \in {"child", "orphan"}
  /\ closing # NoJob => child[closing] # NoTicket

\* The latch belongs to the live job, also when a failed start or an eviction
\* took others out of the table.
LatchInv == \A j \in Jobs : Live(j) => runningJobId = j /\ j \in table

\* A retry waits for a job without a child; a backfill has neither.
WaitInv ==
  /\ \A j \in Parked : child[j] = NoTicket /\ j \notin busy
  /\ \A j \in busy : child[j] = NoTicket /\ (j \in table => kind[j] = "backfill")

JInv == IInv /\ JobTypes /\ ChildrenRun /\ LatchInv /\ WaitInv /\ FeedTellsTheTruth

-----------------------------------------------------------------------------
(* What an action starts from.                                              *)

\* A job that may start finds the latch free: nothing is live, and of the new
\* job there is no trace.
LEMMA NothingLive ==
  ASSUME LatchInv, NEW j \in Jobs, MayStart(j)
  PROVE  /\ \A x \in Jobs : child[x] = NoTicket /\ status[x] # "running"
         /\ j \notin table /\ j \notin busy /\ j \notin Parked
         /\ closing = NoJob /\ Idle
<1>1. closing = NoJob /\ Idle /\ j \in FreshJobs /\ ~isClusteringRunning
  BY DEF MayStart, TurnStarts
<1>2. \A x \in Jobs : ~Live(x)
  <2>1. SUFFICES ASSUME NEW x \in Jobs, Live(x) PROVE isClusteringRunning
    BY <1>1
  <2>2. runningJobId = x /\ x \in table
    BY <2>1 DEF LatchInv
  <2>3. QED
    BY <2>1, <2>2 DEF isClusteringRunning, Live
<1>3. QED
  BY <1>1, <1>2 DEF Live, FreshJobs, Parked, Idle

\* A job whose close handler is still to run is the only live one.
LEMMA OnlyTheClosing ==
  ASSUME JInv, NEW j \in Jobs, closing = j
  PROVE  /\ child[j] # NoTicket /\ runningJobId = j /\ j \in table /\ j \notin busy
         /\ \A x \in Jobs \ {j} : child[x] = NoTicket /\ status[x] # "running"
<1>1. child[j] # NoTicket
  BY LaneAssumption DEF JInv, ChildrenRun, Jobs, NoJob
<1>2. QED
  BY <1>1 DEF JInv, LatchInv, WaitInv, Live

\* A retry that still wants to run is the only live job, and has no child; so no
\* close handler is waiting for its turn.
LEMMA OnlyTheRetry ==
  ASSUME JInv, ~Idle, status[pending] = "running"
  PROVE  /\ pending \in Jobs \ busy /\ pending \in table
         /\ runningJobId = pending /\ closing = NoJob /\ queue = <<>>
         /\ \A x \in Jobs : child[x] = NoTicket
         /\ \A x \in Jobs \ {pending} : status[x] # "running"
<1>1. pending \in Jobs /\ pending \in Parked /\ queue = <<>>
  BY DEF JInv, IInv, QueueInv, Idle, Jobs, Parked
<1>2. child[pending] = NoTicket /\ pending \notin busy
  BY <1>1 DEF JInv, WaitInv
<1>3. runningJobId = pending /\ pending \in table
  BY <1>1 DEF JInv, LatchInv, Live
<1>4. \A x \in Jobs : Live(x) => x = pending
  BY <1>3 DEF JInv, LatchInv
<1>5. closing = NoJob
  BY <1>2, <1>4 DEF JInv, ChildrenRun, JobTypes, Live
<1>6. QED
  BY <1>1, <1>2, <1>3, <1>4, <1>5 DEF Live

-----------------------------------------------------------------------------
(* The pieces of the actions.                                               *)

\* NewJob() forgets some finished jobs and leaves the others alone.
LEMMA NewJobIs ==
  ASSUME NEW j \in Jobs, NEW k, NEW s, NEW f, NewJob(j, k, s, f), JobTypes
  PROVE  /\ j \in table' /\ kind'[j] = k /\ status'[j] = s /\ feed'[j] = f
         /\ runningJobId' = IF s = "running" THEN j ELSE NoJob
         /\ table' \subseteq table \cup {j}
         /\ \A x \in table' \ {j} : /\ kind'[x] = kind[x] /\ status'[x] = status[x]
                                    /\ feed'[x] = feed[x]
         /\ \A x \in Jobs \ {j} : status'[x] \in {status[x], "none"}
<1>1. PICK E \in SUBSET table :
        /\ table' = (table \ E) \cup {j}
        /\ kind' = [x \in Jobs |-> IF x = j THEN k ELSE IF x \in E THEN "none" ELSE kind[x]]
        /\ status' = [x \in Jobs |-> IF x = j THEN s ELSE IF x \in E THEN "none" ELSE status[x]]
        /\ feed' = [x \in Jobs |-> IF x = j THEN f ELSE IF x \in E THEN "none" ELSE feed[x]]
        /\ runningJobId' = IF s = "running" THEN j ELSE NoJob
  BY DEF NewJob
<1>2. QED
  BY <1>1 DEF JobTypes

LEMMA NewJobTypes ==
  ASSUME NEW j \in Jobs, NEW k \in {"generate", "measure"}, NEW s \in {"running", "error"},
         NEW f \in {"open", "closed"}, NewJob(j, k, s, f), JobTypes
  PROVE  /\ table' \subseteq Jobs
         /\ kind' \in [Jobs -> {"none", "generate", "measure", "backfill"}]
         /\ status' \in [Jobs -> {"none", "running", "done", "error", "canceled"}]
         /\ feed' \in [Jobs -> {"none", "open", "abandoned", "closed"}]
         /\ runningJobId' \in Jobs \cup {NoJob}
<1>1. PICK E \in SUBSET table :
        /\ table' = (table \ E) \cup {j}
        /\ kind' = [x \in Jobs |-> IF x = j THEN k ELSE IF x \in E THEN "none" ELSE kind[x]]
        /\ status' = [x \in Jobs |-> IF x = j THEN s ELSE IF x \in E THEN "none" ELSE status[x]]
        /\ feed' = [x \in Jobs |-> IF x = j THEN f ELSE IF x \in E THEN "none" ELSE feed[x]]
        /\ runningJobId' = IF s = "running" THEN j ELSE NoJob
  BY DEF NewJob
<1>2. QED
  BY <1>1 DEF JobTypes

\* A Measure that is told "busy" has only evicted.
LEMMA BusyIs ==
  ASSUME NEW j \in Jobs, MeasureBusy(j), JobTypes
  PROVE  /\ table' \subseteq table
         /\ \A x \in table' : /\ kind'[x] = kind[x] /\ status'[x] = status[x]
                              /\ feed'[x] = feed[x]
         /\ \A x \in Jobs : status'[x] \in {status[x], "none"}
         /\ kind' \in [Jobs -> {"none", "generate", "measure", "backfill"}]
         /\ status' \in [Jobs -> {"none", "running", "done", "error", "canceled"}]
         /\ feed' \in [Jobs -> {"none", "open", "abandoned", "closed"}]
         /\ runningJobId' = NoJob /\ UNCHANGED <<child, busy, closing, queueVars, deleteVars>>
<1>1. PICK E \in SUBSET table :
        /\ table' = table \ E
        /\ kind' = [x \in Jobs |-> IF x \in E THEN "none" ELSE kind[x]]
        /\ status' = [x \in Jobs |-> IF x \in E THEN "none" ELSE status[x]]
        /\ feed' = [x \in Jobs |-> IF x \in E THEN "none" ELSE feed[x]]
  BY DEF MeasureBusy
<1>2. runningJobId' = NoJob /\ UNCHANGED <<child, busy, closing, queueVars, deleteVars>>
  BY DEF MeasureBusy
<1>3. QED
  BY <1>1, <1>2 DEF JobTypes

\* The child that a launched job is bound to runs under the granted ticket.
LEMMA Launched ==
  ASSUME JobTypes, NEW j \in Jobs, NEW l, grant(l, "child"), GrantedTicket(j), TicketInv
  PROVE  /\ \A x \in Jobs \ {j} : child'[x] = child[x]
         /\ child'[j] \in Tickets /\ work'[child'[j]] = "child"
         /\ child' \in [Jobs -> Tickets \cup {NoTicket}]
<1>1. PICK i \in Fresh : held' = held \cup {i} /\ work' = [work EXCEPT ![i] = "child"]
  BY DEF grant
<1>2. PICK m \in Tickets :
        held' = held \cup {m} /\ m \notin held /\ child' = [child EXCEPT ![j] = m]
  BY DEF GrantedTicket
<1>3. i = m
  BY <1>1, <1>2 DEF Fresh
<1>4. work'[i] = "child"
  BY <1>1 DEF TicketInv, Fresh
<1>5. QED
  BY <1>2, <1>3, <1>4 DEF JobTypes

\* A drain parks nobody who was not in the queue it was given.
LEMMA DrainParks ==
  ASSUME NEW S, NEW q \in Seq(Waiters), drainResidentQueue(S, q)
  PROVE  \A x \in Parked' : \E k \in DOMAIN q : q[k] = x
<1>1. CASE queue' = q /\ pending' = NoWaiter
  BY <1>1 DEF Parked
<1>2. CASE q # <<>> /\ queue' = Tail(q) /\ pending' \in {NoWaiter, Head(q)}
  <2>1. \A k \in DOMAIN Tail(q) : k + 1 \in DOMAIN q /\ Tail(q)[k] = q[k + 1]
    BY <1>2
  <2>2. 1 \in DOMAIN q /\ Head(q) = q[1]
    BY <1>2
  <2>3. QED
    BY <1>2, <2>1, <2>2 DEF Parked
<1>3. QED
  BY <1>1, <1>2 DEF drainResidentQueue

\* A caller that is refused parks its own waiter at most.
LEMMA QueueParks ==
  ASSUME QueueInv, NEW w \in Waiters, queueForResident(w)
  PROVE  Parked' \subseteq Parked \cup {w}
<1>1. CASE queue' = queue /\ pending' = NoWaiter
  BY <1>1 DEF Parked
<1>2. CASE drainResidentQueue(SlotHolders, Append(queue, w))
  <2>1. Append(queue, w) \in Seq(Waiters)
    BY DEF QueueInv
  <2>2. \A x \in Parked' : \E k \in DOMAIN Append(queue, w) : Append(queue, w)[k] = x
    BY <1>2, <2>1, DrainParks
  <2>3. \A k \in DOMAIN Append(queue, w) :
          Append(queue, w)[k] = w \/ (k \in DOMAIN queue /\ Append(queue, w)[k] = queue[k])
    BY DEF QueueInv
  <2>4. QED
    BY <2>2, <2>3 DEF Parked
<1>3. QED
  BY <1>1, <1>2 DEF queueForResident

\* No other turn of the governor parks anybody.
LEMMA NobodyParks ==
  ASSUME QueueInv,
         \/ UNCHANGED queueVars
         \/ \E l \in Lanes : Admit(l) \/ AdmitSpawnFails(l)
         \/ WaiterSpawnFails \/ WaiterDeclines
         \/ \E i \in Tickets : doRelease(i)
  PROVE  Parked' \subseteq Parked
<1>1. CASE UNCHANGED queueVars \/ \E l \in Lanes : Admit(l)
  BY <1>1 DEF queueVars, Admit, Parked
<1>2. CASE \E S : drainResidentQueue(S, queue)
  <2>1. \A x \in Parked' : \E k \in DOMAIN queue : queue[k] = x
    BY <1>2, DrainParks DEF QueueInv
  <2>2. QED
    BY <2>1 DEF Parked
<1>3. CASE WaiterDeclines
  BY <1>3 DEF WaiterDeclines, Parked
<1>4. CASE \E l \in Lanes : AdmitSpawnFails(l)
  BY <1>1, <1>2, <1>4 DEF AdmitSpawnFails
<1>5. CASE \E i \in Tickets : doRelease(i)
  BY <1>1, <1>2, <1>5 DEF doRelease
<1>6. QED
  BY <1>1, <1>2, <1>3, <1>4, <1>5 DEF WaiterSpawnFails

\* A child that has not closed outlives every turn but its own 'close'.
LEMMA ChildGoesOn ==
  ASSUME TicketInv, NEW c \in Tickets, work[c] \in {"child", "orphan"},
         \/ UNCHANGED work
         \/ \E l \in Lanes : Admit(l) \/ AdmitSpawnFails(l)
         \/ \E i \in Tickets : \/ Release(i) \/ ChildExits(i) \/ LeaseReclaims(i)
                               \/ ChildCloses(i) /\ i # c
  PROVE  work'[c] \in {"child", "orphan"}
<1>1. CASE UNCHANGED work
  BY <1>1
<1>2. ASSUME NEW l \in Lanes, Admit(l) PROVE work'[c] \in {"child", "orphan"}
  <2>1. CASE Refuse(l)
    BY <2>1 DEF Refuse
  <2>2. ASSUME NEW w \in Starts(l), grant(l, w) PROVE work'[c] \in {"child", "orphan"}
    BY <2>2 DEF grant, Fresh, TicketInv
  <2>3. QED
    BY <1>2, <2>1, <2>2 DEF Admit
<1>3. ASSUME NEW l \in Lanes, AdmitSpawnFails(l) PROVE work'[c] \in {"child", "orphan"}
  BY <1>3 DEF AdmitSpawnFails, ticketVars
<1>4. ASSUME NEW i \in Tickets, Release(i) \/ (ChildCloses(i) /\ i # c)
      PROVE  work'[c] \in {"child", "orphan"}
  BY <1>4 DEF Release, ChildCloses, Forget, TicketInv
<1>5. ASSUME NEW i \in Tickets, ChildExits(i) PROVE work'[c] \in {"child", "orphan"}
  BY <1>5 DEF ChildExits, TicketInv
<1>6. ASSUME NEW i \in Tickets, LeaseReclaims(i) PROVE work'[c] \in {"child", "orphan"}
  BY <1>6 DEF LeaseReclaims, Forget, TicketInv
<1>7. QED
  BY <1>1, <1>2, <1>3, <1>4, <1>5, <1>6

-----------------------------------------------------------------------------
(* The runner and the governor.                                             *)

\* Each turn of the runner is a turn of the governor, or leaves it alone.
LEMMA StepUsesGovernor ==
  ASSUME JobTypes, [JobsNext]_allVars
  PROVE  [Next]_vars
<1> USE JobAssumption, LaneAssumption DEF Jobs, TurnStarts
<1>1. ASSUME NEW l \in {QueueLane, MeasureLane}, grant(l, "child"), Idle,
             UNCHANGED <<probeVars, queueVars>>
      PROVE  Next
  <2>1. "child" \in Starts(l)
    BY DEF Starts
  <2>2. Admit(l)
    BY <1>1, <2>1 DEF Admit
  <2>3. QED
    BY <2>2 DEF Next
<1>2. ASSUME NEW j \in Jobs, StartGenerate(j) \/ StartMeasure(j) PROVE [Next]_vars
  BY <1>1, <1>2 DEF StartGenerate, StartMeasure, MayStart
<1>3. ASSUME NEW j \in Jobs, StartGenerateFails(j) \/ StartMeasureFails(j) PROVE [Next]_vars
  BY <1>3 DEF StartGenerateFails, StartMeasureFails, Next
<1>4. ASSUME NEW j \in Jobs, ParkGenerate(j) PROVE [Next]_vars
  BY <1>4 DEF ParkGenerate, Next
<1>5. ASSUME NEW j \in Jobs, MeasureBusy(j) PROVE [Next]_vars
  <2>1. Admit(MeasureLane)
    BY <1>5 DEF MeasureBusy, MayStart, Admit
  <2>2. QED
    BY <2>1 DEF Next
<1>6. ASSUME NEW j \in Jobs,
             \/ StartBackfill(j) \/ BackfillEnds(j) \/ Cancel(j) \/ Reap(j)
             \/ CloseHandler(j) \/ ErrorHandler(j)
      PROVE  [Next]_vars
  BY <1>6 DEF StartBackfill, BackfillEnds, Cancel, Reap, CloseHandler, ErrorHandler
<1>7. ASSUME NEW j \in Jobs, JobChildCloses(j) PROVE [Next]_vars
  <2>1. child[j] \in Tickets /\ ChildCloses(child[j])
    BY <1>7 DEF JobChildCloses, JobTypes
  <2>2. QED
    BY <2>1 DEF Next
<1>8. ASSUME NEW j \in Jobs, CloseHandlerDone(j) PROVE [Next]_vars
  BY <1>8 DEF CloseHandlerDone, Next
<1>9. CASE RetryLaunches \/ RetryParksAgain
  <2>1. WaiterRetries
    BY <1>9 DEF RetryLaunches, RetryParksAgain, WaiterRetries
  <2>2. QED
    BY <2>1 DEF Next
<1>10. CASE RetrySpawnFails \/ RetryFindsJobCanceled
  BY <1>10 DEF RetrySpawnFails, RetryFindsJobCanceled, Next
<1>11. ASSUME NEW d \in Deletes, AskDelete(d) \/ DeleteRefused(d) \/ BeginDelete(d) \/ EndDelete(d)
       PROVE  [Next]_vars
  BY <1>11 DEF AskDelete, DeleteRefused, BeginDelete, EndDelete
<1>12. ASSUME NEW l \in Lanes, OtherAdmit(l) PROVE [Next]_vars
  BY <1>12 DEF OtherAdmit, Next
<1>13. ASSUME NEW i \in Tickets, OtherTicket(i) PROVE [Next]_vars
  <2>1. \/ Release(i) \/ ChildExits(i) \/ ChildCloses(i) \/ Heartbeat(i)
        \/ LeaseLapses(i) \/ LeaseReclaims(i) \/ \E l \in Lanes : Abandon(i, l)
    BY <1>13 DEF OtherTicket
  <2>2. QED
    BY <2>1 DEF Next
<1>14. CASE Probes
  BY <1>14 DEF Probes, Next
<1>15. CASE UNCHANGED allVars
  BY <1>15 DEF allVars
<1>16. QED
  BY <1>2, <1>3, <1>4, <1>5, <1>6, <1>7, <1>8, <1>9, <1>10, <1>11, <1>12, <1>13, <1>14, <1>15
  DEF JobsNext

-----------------------------------------------------------------------------
(* Each part is kept by every action.                                       *)

\* The job variables keep their types.
LEMMA TypesKept ==
  ASSUME JInv, [JobsNext]_allVars
  PROVE  JobTypes'
<1> USE DEF jobVars, deleteVars, allVars
<1>0. JobTypes /\ TicketInv /\ QueueInv
  BY DEF JInv, IInv
<1>1. ASSUME NEW j \in Jobs, StartGenerate(j)
      PROVE  JobTypes'
  BY <1>1, <1>0, NewJobTypes, Launched DEF StartGenerate, JobTypes
<1>2. ASSUME NEW j \in Jobs, StartMeasure(j)
      PROVE  JobTypes'
  BY <1>2, <1>0, NewJobTypes, Launched DEF StartMeasure, JobTypes
<1>3. ASSUME NEW j \in Jobs, StartGenerateFails(j) \/ ParkGenerate(j) \/ StartMeasureFails(j)
      PROVE  JobTypes'
  BY <1>3, <1>0, NewJobTypes DEF StartGenerateFails, ParkGenerate, StartMeasureFails, JobTypes
<1>4. ASSUME NEW j \in Jobs, MeasureBusy(j)
      PROVE  JobTypes'
  BY <1>4, <1>0, BusyIs DEF JobTypes
<1>5. ASSUME NEW j \in Jobs, StartBackfill(j)
      PROVE  JobTypes'
  BY <1>5, <1>0 DEF StartBackfill, JobTypes
<1>6. ASSUME NEW j \in Jobs, BackfillEnds(j)
      PROVE  JobTypes'
  BY <1>6, <1>0 DEF BackfillEnds, JobTypes
<1>7. ASSUME NEW j \in Jobs, JobChildCloses(j)
      PROVE  JobTypes'
  BY <1>7, <1>0 DEF JobChildCloses, JobTypes
<1>8. ASSUME NEW j \in Jobs, CloseHandler(j) \/ CloseHandlerDone(j) \/ ErrorHandler(j)
      PROVE  JobTypes'
  BY <1>8, <1>0 DEF CloseHandler, CloseHandlerDone, ErrorHandler, Finish, finishRow, JobTypes
<1>9. CASE RetryLaunches
  BY <1>9, <1>0, OnlyTheRetry, Launched DEF RetryLaunches, JobTypes
<1>10. CASE RetrySpawnFails
  BY <1>10, <1>0, OnlyTheRetry DEF RetrySpawnFails, finishRow, JobTypes
<1>11. ASSUME NEW d \in Deletes, BeginDelete(d)
      PROVE  JobTypes'
  BY <1>11, <1>0 DEF BeginDelete, JobTypes
<1>12. ASSUME NEW j \in Jobs, Cancel(j) \/ Reap(j)
      PROVE  JobTypes'
  BY <1>12, <1>0 DEF Cancel, Reap, JobTypes
<1>13. CASE RetryParksAgain \/ RetryFindsJobCanceled \/ Probes \/ UNCHANGED allVars
  BY <1>13, <1>0 DEF RetryParksAgain, RetryFindsJobCanceled, Probes, JobTypes
<1>14. ASSUME NEW d \in Deletes, AskDelete(d) \/ DeleteRefused(d) \/ EndDelete(d)
      PROVE  JobTypes'
  BY <1>14, <1>0 DEF AskDelete, DeleteRefused, EndDelete, JobTypes
<1>15. ASSUME NEW l \in Lanes, OtherAdmit(l)
      PROVE  JobTypes'
  BY <1>15, <1>0 DEF OtherAdmit, JobTypes
<1>16. ASSUME NEW i \in Tickets, OtherTicket(i)
      PROVE  JobTypes'
  BY <1>16, <1>0 DEF OtherTicket, JobTypes
<1>17. QED
  BY <1>1, <1>2, <1>3, <1>4, <1>5, <1>6, <1>7, <1>8, <1>9, <1>10, <1>11, <1>12, <1>13,
       <1>14, <1>15, <1>16 DEF JobsNext

\* A bound child has not closed before its job's close handler is due.
LEMMA ChildrenKept ==
  ASSUME JInv, [JobsNext]_allVars
  PROVE  ChildrenRun'
<1> USE DEF jobVars, deleteVars, allVars
<1>0. JobTypes /\ TicketInv /\ QueueInv /\ LatchInv /\ ChildrenRun /\ NoJob \notin Jobs
  BY LaneAssumption DEF JInv, IInv, Jobs, NoJob
<1>1. ASSUME NEW j \in Jobs, StartGenerate(j) \/ StartMeasure(j)
      PROVE  ChildrenRun'
  <2>1. closing' = NoJob /\ \A x \in Jobs : child[x] = NoTicket
    BY <1>1, <1>0, NothingLive DEF StartGenerate, StartMeasure
  <2>2. PICK l : grant(l, "child") /\ GrantedTicket(j)
    BY <1>1 DEF StartGenerate, StartMeasure
  <2>3. QED
    BY <1>0, <2>1, <2>2, Launched DEF ChildrenRun
<1>2. ASSUME NEW j \in Jobs, StartGenerateFails(j) \/ ParkGenerate(j) \/ StartMeasureFails(j)
      PROVE  ChildrenRun'
  <2>1. closing' = NoJob /\ \A x \in Jobs : child'[x] = NoTicket
    BY <1>2, <1>0, NothingLive DEF StartGenerateFails, ParkGenerate, StartMeasureFails
  <2>2. QED
    BY <1>0, <2>1 DEF ChildrenRun
<1>3. ASSUME NEW j \in Jobs, MeasureBusy(j) \/ StartBackfill(j)
      PROVE  ChildrenRun'
  <2>1. closing' = NoJob /\ \A x \in Jobs : child'[x] = NoTicket
    BY <1>3, <1>0, NothingLive DEF MeasureBusy, StartBackfill
  <2>2. QED
    BY <1>0, <2>1 DEF ChildrenRun
<1>4. ASSUME NEW j \in Jobs, BackfillEnds(j) \/ Cancel(j) \/ Reap(j)
      PROVE  ChildrenRun'
  BY <1>4, <1>0 DEF BackfillEnds, Cancel, Reap, vars, ticketVars, ChildrenRun
<1>5. ASSUME NEW j \in Jobs, JobChildCloses(j)
      PROVE  ChildrenRun'
  <2>1. closing' = j /\ child' = child /\ child[j] # NoTicket
    BY <1>5 DEF JobChildCloses
  <2>2. \A x \in Jobs \ {j} : child[x] = NoTicket
    BY <1>0, <2>1 DEF LatchInv, Live
  <2>3. QED
    BY <1>0, <2>1, <2>2 DEF ChildrenRun
<1>6. ASSUME NEW j \in Jobs, CloseHandler(j) \/ CloseHandlerDone(j) \/ ErrorHandler(j)
      PROVE  ChildrenRun'
  <2>1. closing = j /\ closing' = NoJob /\ child' = [child EXCEPT ![j] = NoTicket]
    BY <1>6 DEF CloseHandler, CloseHandlerDone, ErrorHandler, Finish
  <2>2. \A x \in Jobs : child'[x] = NoTicket
    BY <1>0, <2>1, OnlyTheClosing DEF JobTypes
  <2>3. QED
    BY <1>0, <2>1, <2>2 DEF ChildrenRun
<1>7. CASE RetryLaunches
  <2>1. grant(QueueLane, "child") /\ GrantedTicket(pending) /\ closing' = closing
    BY <1>7 DEF RetryLaunches
  <2>2. pending \in Jobs /\ closing = NoJob /\ \A x \in Jobs : child[x] = NoTicket
    BY <1>7, OnlyTheRetry DEF RetryLaunches
  <2>3. QED
    BY <1>0, <2>1, <2>2, Launched DEF ChildrenRun
<1>8. CASE RetryParksAgain \/ RetryFindsJobCanceled
  BY <1>8, <1>0 DEF RetryParksAgain, RetryFindsJobCanceled, Refuse, WaiterDeclines,
       ticketVars, ChildrenRun
<1>9. CASE RetrySpawnFails
  BY <1>9, <1>0 DEF RetrySpawnFails, WaiterSpawnFails, ticketVars, ChildrenRun
<1>10. ASSUME NEW d \in Deletes, AskDelete(d) \/ DeleteRefused(d) \/ BeginDelete(d) \/ EndDelete(d)
      PROVE  ChildrenRun'
  BY <1>10, <1>0 DEF AskDelete, DeleteRefused, BeginDelete, EndDelete, vars, ticketVars,
       ChildrenRun
<1>11. ASSUME NEW l \in Lanes, OtherAdmit(l)
      PROVE  ChildrenRun'
  <2>1. \A c \in Tickets : work[c] \in {"child", "orphan"} => work'[c] \in {"child", "orphan"}
    BY <1>11, <1>0, ChildGoesOn DEF OtherAdmit
  <2>2. QED
    BY <1>11, <1>0, <2>1 DEF OtherAdmit, ChildrenRun, JobTypes
<1>12. ASSUME NEW i \in Tickets, OtherTicket(i)
      PROVE  ChildrenRun'
  <2>1. ASSUME NEW x \in Jobs, child[x] # NoTicket, work[child[x]] \in {"child", "orphan"}
        PROVE  work'[child[x]] \in {"child", "orphan"}
    <3>1. child[x] \in Tickets
      BY <1>0, <2>1 DEF JobTypes
    <3>2. CASE Heartbeat(i) \/ LeaseLapses(i) \/ \E l \in Lanes : Abandon(i, l)
      BY <2>1, <3>2 DEF Heartbeat, LeaseLapses, Abandon
    <3>3. CASE Release(i) \/ ChildExits(i) \/ LeaseReclaims(i) \/ (ChildCloses(i) /\ i # child[x])
      BY <1>0, <2>1, <3>1, <3>3, ChildGoesOn
    <3>4. QED
      BY <1>12, <3>2, <3>3 DEF OtherTicket
  <2>2. QED
    BY <1>12, <1>0, <2>1 DEF OtherTicket, ChildrenRun
<1>13. CASE Probes \/ UNCHANGED allVars
  BY <1>13, <1>0 DEF Probes, ReadPressure, RefreshBudget, vars, ticketVars, ChildrenRun
<1>14. QED
  BY <1>1, <1>2, <1>3, <1>4, <1>5, <1>6, <1>7, <1>8, <1>9, <1>10, <1>11, <1>12, <1>13 DEF
       JobsNext

\* The latch follows the one live job.
LEMMA LatchKept ==
  ASSUME JInv, [JobsNext]_allVars
  PROVE  LatchInv'
<1> USE DEF jobVars, deleteVars, allVars
<1>0. JobTypes /\ TicketInv /\ QueueInv /\ LatchInv /\ NoJob \notin Jobs
  BY LaneAssumption DEF JInv, IInv, Jobs, NoJob
<1>1. ASSUME NEW j \in Jobs, StartGenerate(j) \/ StartMeasure(j)
      PROVE  LatchInv'
  <2>1. \A x \in Jobs : child[x] = NoTicket /\ status[x] # "running"
    BY <1>1, <1>0, NothingLive DEF StartGenerate, StartMeasure
  <2>2. PICK k : NewJob(j, k, "running", "open")
    BY <1>1 DEF StartGenerate, StartMeasure
  <2>3. PICK l : grant(l, "child") /\ GrantedTicket(j)
    BY <1>1 DEF StartGenerate, StartMeasure
  <2>4. QED
    BY <1>0, <2>1, <2>2, <2>3, NewJobIs, Launched DEF LatchInv, Live
<1>2. ASSUME NEW j \in Jobs, StartGenerateFails(j) \/ StartMeasureFails(j)
      PROVE  LatchInv'
  <2>1. \A x \in Jobs : child[x] = NoTicket /\ status[x] # "running"
    BY <1>2, <1>0, NothingLive DEF StartGenerateFails, StartMeasureFails
  <2>2. child' = child /\ \E k : NewJob(j, k, "error", "closed")
    BY <1>2 DEF StartGenerateFails, StartMeasureFails
  <2>3. QED
    BY <1>0, <2>1, <2>2, NewJobIs DEF LatchInv, Live
<1>3. ASSUME NEW j \in Jobs, ParkGenerate(j)
      PROVE  LatchInv'
  <2>1. \A x \in Jobs : child[x] = NoTicket /\ status[x] # "running"
    BY <1>3, <1>0, NothingLive DEF ParkGenerate
  <2>2. child' = child /\ NewJob(j, "generate", "running", "open")
    BY <1>3 DEF ParkGenerate
  <2>3. QED
    BY <1>0, <2>1, <2>2, NewJobIs DEF LatchInv, Live
<1>4. ASSUME NEW j \in Jobs, MeasureBusy(j)
      PROVE  LatchInv'
  <2>1. \A x \in Jobs : child[x] = NoTicket /\ status[x] # "running"
    BY <1>4, <1>0, NothingLive DEF MeasureBusy
  <2>2. QED
    BY <1>4, <1>0, <2>1, BusyIs DEF LatchInv, Live
<1>5. ASSUME NEW j \in Jobs, StartBackfill(j)
      PROVE  LatchInv'
  <2>1. \A x \in Jobs : child[x] = NoTicket /\ status[x] # "running"
    BY <1>5, <1>0, NothingLive DEF StartBackfill
  <2>2. QED
    BY <1>5, <1>0, <2>1 DEF StartBackfill, LatchInv, Live, JobTypes
<1>6. ASSUME NEW j \in Jobs, BackfillEnds(j)
      PROVE  LatchInv'
  <2>1. child[j] = NoTicket /\ child' = child /\ table' = table
    BY <1>6 DEF BackfillEnds, JInv, WaitInv
  <2>2. status'[j] # "running" \/ j \notin table
    BY <1>6, <1>0 DEF BackfillEnds, JobTypes
  <2>3. \A x \in Jobs : status'[x] = "running" => status[x] = "running"
    BY <1>6, <1>0 DEF BackfillEnds, JobTypes
  <2>4. \A x \in Jobs : Live(x)' => Live(x) /\ x # j
    BY <1>0, <2>1, <2>2, <2>3 DEF LatchInv, Live
  <2>5. runningJobId' = IF runningJobId = j THEN NoJob ELSE runningJobId
    BY <1>6 DEF BackfillEnds
  <2>6. QED
    BY <1>0, <2>1, <2>4, <2>5 DEF LatchInv
<1>7. ASSUME NEW j \in Jobs, Cancel(j) \/ Reap(j)
      PROVE  LatchInv'
  BY <1>7, <1>0 DEF Cancel, Reap, LatchInv, Live, JobTypes
<1>8. ASSUME NEW j \in Jobs, JobChildCloses(j)
      PROVE  LatchInv'
  BY <1>8, <1>0 DEF JobChildCloses, LatchInv, Live
<1>9. ASSUME NEW j \in Jobs, CloseHandler(j) \/ CloseHandlerDone(j) \/ ErrorHandler(j)
      PROVE  LatchInv'
  <2>1. /\ closing = j /\ child' = [child EXCEPT ![j] = NoTicket]
        /\ status'[j] # "running" /\ \A x \in Jobs \ {j} : status'[x] = status[x]
    BY <1>9, <1>0 DEF CloseHandler, CloseHandlerDone, ErrorHandler, Finish, finishRow, JobTypes
  <2>2. \A x \in Jobs : ~Live(x)'
    BY <1>0, <2>1, OnlyTheClosing DEF Live, JobTypes
  <2>3. QED
    BY <2>2 DEF LatchInv
<1>10. CASE RetryLaunches
  <2>1. /\ grant(QueueLane, "child") /\ GrantedTicket(pending)
        /\ UNCHANGED <<table, status, runningJobId>>
    BY <1>10 DEF RetryLaunches
  <2>2. pending \in Jobs /\ pending \in table /\ runningJobId = pending
    BY <1>10, OnlyTheRetry DEF RetryLaunches
  <2>3. \A x \in Jobs \ {pending} : ~Live(x)'
    BY <1>10, <1>0, <2>1, <2>2, OnlyTheRetry, Launched DEF RetryLaunches, Live
  <2>4. QED
    BY <2>1, <2>2, <2>3 DEF LatchInv
<1>11. CASE RetrySpawnFails
  <2>1. pending \in Jobs /\ child' = child /\ \A x \in Jobs : child[x] = NoTicket
    BY <1>11, OnlyTheRetry DEF RetrySpawnFails
  <2>2. status'[pending] # "running" /\ \A x \in Jobs \ {pending} : status'[x] # "running"
    BY <1>11, <1>0, <2>1, OnlyTheRetry DEF RetrySpawnFails, finishRow, JobTypes
  <2>3. QED
    BY <2>1, <2>2 DEF LatchInv, Live
<1>12. CASE RetryParksAgain \/ RetryFindsJobCanceled \/ Probes \/ UNCHANGED allVars
  BY <1>12, <1>0 DEF RetryParksAgain, RetryFindsJobCanceled, Probes, LatchInv, Live
<1>13. ASSUME NEW d \in Deletes, AskDelete(d) \/ DeleteRefused(d) \/ BeginDelete(d) \/ EndDelete(d)
      PROVE  LatchInv'
  BY <1>13, <1>0 DEF AskDelete, DeleteRefused, BeginDelete, EndDelete, LatchInv, Live
<1>14. ASSUME NEW l \in Lanes, OtherAdmit(l)
      PROVE  LatchInv'
  BY <1>14, <1>0 DEF OtherAdmit, LatchInv, Live
<1>15. ASSUME NEW i \in Tickets, OtherTicket(i)
      PROVE  LatchInv'
  BY <1>15, <1>0 DEF OtherTicket, LatchInv, Live
<1>16. QED
  BY <1>1, <1>2, <1>3, <1>4, <1>5, <1>6, <1>7, <1>8, <1>9, <1>10, <1>11, <1>12, <1>13,
       <1>14, <1>15 DEF JobsNext

\* A retry in the queue and a running backfill have no child.
LEMMA WaitKept ==
  ASSUME JInv, [JobsNext]_allVars
  PROVE  WaitInv'
<1> USE DEF jobVars, deleteVars, allVars
<1>0. JobTypes /\ TicketInv /\ QueueInv /\ LatchInv /\ WaitInv /\ busy \subseteq Jobs
  BY DEF JInv, IInv, JobTypes
<1>1. ASSUME NEW j \in Jobs, StartGenerate(j) \/ StartMeasure(j)
      PROVE  WaitInv'
  <2>1. j \notin Parked /\ j \notin busy /\ j \notin table
    BY <1>1, <1>0, NothingLive DEF StartGenerate, StartMeasure
  <2>2. PICK k : NewJob(j, k, "running", "open")
    BY <1>1 DEF StartGenerate, StartMeasure
  <2>3. PICK l : grant(l, "child") /\ GrantedTicket(j)
    BY <1>1 DEF StartGenerate, StartMeasure
  <2>4. Parked' = Parked /\ busy' = busy
    BY <1>1 DEF StartGenerate, StartMeasure, queueVars, Parked
  <2>5. Parked \subseteq Jobs
    BY <1>0 DEF Parked, QueueInv, Jobs
  <2>6. QED
    BY <1>0, <2>1, <2>2, <2>3, <2>4, <2>5, NewJobIs, Launched DEF WaitInv
<1>2. ASSUME NEW j \in Jobs, StartGenerateFails(j) \/ ParkGenerate(j) \/ StartMeasureFails(j)
      PROVE  WaitInv'
  <2>1. j \notin busy /\ child[j] = NoTicket
    BY <1>2, <1>0, NothingLive DEF StartGenerateFails, ParkGenerate, StartMeasureFails
  <2>2. child' = child /\ busy' = busy /\ \E k, st, f : NewJob(j, k, st, f)
    BY <1>2 DEF StartGenerateFails, ParkGenerate, StartMeasureFails
  <2>3. Parked' \subseteq Parked \cup {j}
    BY <1>2, <1>0, NobodyParks, QueueParks, JobAssumption, LaneAssumption
    DEF StartGenerateFails, ParkGenerate, StartMeasureFails, AdmitOrQueue, Jobs
  <2>4. QED
    BY <1>0, <2>1, <2>2, <2>3, NewJobIs DEF WaitInv
<1>3. ASSUME NEW j \in Jobs, MeasureBusy(j)
      PROVE  WaitInv'
  <2>1. Parked' = Parked
    BY <1>3, <1>0, BusyIs DEF queueVars, Parked
  <2>2. QED
    BY <1>3, <1>0, <2>1, BusyIs DEF WaitInv
<1>4. ASSUME NEW j \in Jobs, StartBackfill(j)
      PROVE  WaitInv'
  <2>1. j \notin Parked /\ child[j] = NoTicket
    BY <1>4, <1>0, NothingLive DEF StartBackfill
  <2>2. Parked' = Parked
    BY <1>4 DEF StartBackfill, vars, queueVars, Parked
  <2>3. QED
    BY <1>4, <1>0, <2>1, <2>2 DEF StartBackfill, WaitInv, JobTypes
<1>5. ASSUME NEW j \in Jobs, BackfillEnds(j) \/ Cancel(j) \/ Reap(j)
      PROVE  WaitInv'
  BY <1>5, <1>0 DEF BackfillEnds, Cancel, Reap, WaitInv, Parked, vars, queueVars
<1>6. ASSUME NEW j \in Jobs, JobChildCloses(j)
      PROVE  WaitInv'
  <2>1. child[j] \in Tickets /\ doRelease(child[j])
    BY <1>6, <1>0 DEF JobChildCloses, ChildCloses, JobTypes
  <2>2. Parked' \subseteq Parked
    BY <1>0, <2>1, NobodyParks
  <2>3. QED
    BY <1>6, <1>0, <2>2 DEF JobChildCloses, WaitInv
<1>7. ASSUME NEW j \in Jobs, CloseHandler(j) \/ CloseHandlerDone(j) \/ ErrorHandler(j)
      PROVE  WaitInv'
  <2>1. Parked' \subseteq Parked
    BY <1>7, <1>0, NobodyParks, JobAssumption DEF CloseHandler, CloseHandlerDone,
         ErrorHandler, vars
  <2>2. \A x \in Jobs : child'[x] \in {child[x], NoTicket}
    BY <1>7, <1>0 DEF CloseHandler, CloseHandlerDone, ErrorHandler, Finish, finishRow, JobTypes
  <2>3. Parked \subseteq Jobs
    BY <1>0 DEF Parked, QueueInv, Jobs
  <2>4. UNCHANGED <<table, kind, busy>>
    BY <1>7 DEF CloseHandler, CloseHandlerDone, ErrorHandler
  <2>5. QED
    BY <1>0, <2>1, <2>2, <2>3, <2>4 DEF WaitInv
<1>8. CASE RetryLaunches
  <2>1. queue' = queue /\ pending' = NoWaiter /\ UNCHANGED <<table, kind, busy>>
    BY <1>8 DEF RetryLaunches
  <2>2. pending \in Jobs \ busy /\ queue = <<>>
    BY <1>8, OnlyTheRetry DEF RetryLaunches
  <2>3. Parked' = {}
    BY <2>1, <2>2 DEF Parked
  <2>4. \A x \in Jobs \ {pending} : child'[x] = child[x]
    BY <1>8, <1>0, <2>2, Launched DEF RetryLaunches
  <2>5. QED
    BY <1>0, <2>1, <2>2, <2>3, <2>4 DEF WaitInv
<1>9. CASE RetryParksAgain
  <2>1. pending \in Waiters /\ pending # NoWaiter
    BY <1>9, <1>0 DEF RetryParksAgain, QueueInv, Idle
  <2>2. Parked' \subseteq Parked
    BY <1>9, <1>0, <2>1, QueueParks DEF RetryParksAgain, Parked
  <2>3. QED
    BY <1>9, <1>0, <2>2 DEF RetryParksAgain, WaitInv
<1>10. CASE RetrySpawnFails \/ RetryFindsJobCanceled
  <2>1. Parked' \subseteq Parked
    BY <1>10, <1>0, NobodyParks DEF RetrySpawnFails, RetryFindsJobCanceled
  <2>2. QED
    BY <1>10, <1>0, <2>1 DEF RetrySpawnFails, RetryFindsJobCanceled, WaitInv
<1>11. ASSUME NEW l \in Lanes, OtherAdmit(l)
      PROVE  WaitInv'
  <2>1. Parked' \subseteq Parked
    BY <1>11, <1>0, NobodyParks DEF OtherAdmit
  <2>2. QED
    BY <1>11, <1>0, <2>1 DEF OtherAdmit, WaitInv
<1>12. ASSUME NEW i \in Tickets, OtherTicket(i)
      PROVE  WaitInv'
  <2>1. doRelease(i) \/ UNCHANGED queueVars
    BY <1>12 DEF OtherTicket, Release, Heartbeat, ChildExits, LeaseLapses, LeaseReclaims,
         ChildCloses, Abandon
  <2>2. Parked' \subseteq Parked
    BY <1>0, <2>1, NobodyParks
  <2>3. QED
    BY <1>12, <1>0, <2>2 DEF OtherTicket, WaitInv
<1>13. CASE Probes \/ UNCHANGED allVars
  BY <1>13, <1>0 DEF Probes, ReadPressure, RefreshBudget, vars, queueVars, Parked, WaitInv
<1>14. ASSUME NEW d \in Deletes, AskDelete(d) \/ DeleteRefused(d) \/ BeginDelete(d) \/ EndDelete(d)
      PROVE  WaitInv'
  BY <1>14, <1>0 DEF AskDelete, DeleteRefused, BeginDelete, EndDelete, WaitInv, Parked,
       vars, queueVars
<1>15. QED
  BY <1>1, <1>2, <1>3, <1>4, <1>5, <1>6, <1>7, <1>8, <1>9, <1>10, <1>11, <1>12, <1>13, <1>14
       DEF JobsNext

\* A job's row is closed when the job is over, and not before.
LEMMA FeedKept ==
  ASSUME JInv, [JobsNext]_allVars
  PROVE  FeedTellsTheTruth'
<1> USE DEF jobVars, deleteVars, allVars
<1>0. JobTypes /\ TicketInv /\ LatchInv /\ FeedTellsTheTruth /\ NoJob \notin Jobs
  BY LaneAssumption DEF JInv, IInv, Jobs, NoJob
<1>1. ASSUME NEW j \in Jobs, StartGenerate(j) \/ StartMeasure(j)
      PROVE  FeedTellsTheTruth'
  <2>1. closing' = closing /\ closing = NoJob /\ j \notin table
    BY <1>1, <1>0, NothingLive DEF StartGenerate, StartMeasure
  <2>2. PICK k : NewJob(j, k, "running", "open")
    BY <1>1 DEF StartGenerate, StartMeasure
  <2>3. PICK l : grant(l, "child") /\ GrantedTicket(j)
    BY <1>1 DEF StartGenerate, StartMeasure
  <2>4. \A x \in table' \ {j} : x \in table /\ x \in Jobs /\ child'[x] = child[x]
    BY <1>0, <2>2, <2>3, NewJobIs, Launched DEF JobTypes
  <2>5. QED
    BY <1>0, <2>1, <2>2, <2>4, NewJobIs DEF FeedTellsTheTruth
<1>2. ASSUME NEW j \in Jobs, StartGenerateFails(j) \/ StartMeasureFails(j)
      PROVE  FeedTellsTheTruth'
  <2>1. closing' = closing /\ closing = NoJob /\ child' = child /\ child[j] = NoTicket
    BY <1>2, <1>0, NothingLive DEF StartGenerateFails, StartMeasureFails
  <2>2. \E k : NewJob(j, k, "error", "closed")
    BY <1>2 DEF StartGenerateFails, StartMeasureFails
  <2>3. QED
    BY <1>0, <2>1, <2>2, NewJobIs DEF FeedTellsTheTruth
<1>3. ASSUME NEW j \in Jobs, ParkGenerate(j)
      PROVE  FeedTellsTheTruth'
  <2>1. closing' = closing /\ closing = NoJob /\ child' = child
    BY <1>3, <1>0, NothingLive DEF ParkGenerate
  <2>2. NewJob(j, "generate", "running", "open")
    BY <1>3 DEF ParkGenerate
  <2>3. QED
    BY <1>0, <2>1, <2>2, NewJobIs DEF FeedTellsTheTruth
<1>4. ASSUME NEW j \in Jobs, MeasureBusy(j)
      PROVE  FeedTellsTheTruth'
  BY <1>4, <1>0, BusyIs DEF FeedTellsTheTruth
<1>5. ASSUME NEW j \in Jobs, StartBackfill(j)
      PROVE  FeedTellsTheTruth'
  <2>1. closing = NoJob
    BY <1>5, <1>0, NothingLive DEF StartBackfill
  <2>2. QED
    BY <1>5, <1>0, <2>1 DEF StartBackfill, FeedTellsTheTruth, JobTypes
<1>6. ASSUME NEW j \in Jobs, BackfillEnds(j)
      PROVE  FeedTellsTheTruth'
  <2>1. j \in table => kind[j] = "backfill"
    BY <1>6 DEF BackfillEnds, JInv, WaitInv
  <2>2. PICK st \in {"done", "error"} :
          status' = [status EXCEPT ![j] = IF j \in table THEN st ELSE status[j]]
    BY <1>6 DEF BackfillEnds
  <2>3. \A x \in table : x # j => status'[x] = status[x]
    BY <1>0, <2>2 DEF JobTypes
  <2>4. status'[j] # "running" \/ status'[j] = status[j]
    BY <1>0, <2>2 DEF JobTypes
  <2>5. QED
    BY <1>6, <1>0, <2>1, <2>3, <2>4 DEF BackfillEnds, FeedTellsTheTruth
<1>7. ASSUME NEW j \in Jobs, Cancel(j) \/ Reap(j)
      PROVE  FeedTellsTheTruth'
  BY <1>7, <1>0 DEF Cancel, Reap, FeedTellsTheTruth, JobTypes
<1>8. ASSUME NEW j \in Jobs, JobChildCloses(j)
      PROVE  FeedTellsTheTruth'
  <2>1. closing = NoJob
    BY <1>8 DEF JobChildCloses, TurnStarts
  <2>2. QED
    BY <1>8, <1>0, <2>1 DEF JobChildCloses, FeedTellsTheTruth, JobTypes
<1>9. ASSUME NEW j \in Jobs, CloseHandler(j) \/ CloseHandlerDone(j) \/ ErrorHandler(j)
      PROVE  FeedTellsTheTruth'
  <2>1. /\ closing = j /\ closing' = NoJob /\ child' = [child EXCEPT ![j] = NoTicket]
        /\ UNCHANGED <<table, kind>>
        /\ \A x \in Jobs \ {j} : status'[x] = status[x] /\ feed'[x] = feed[x]
        /\ \/ status'[j] \in {"done", "error"} /\ feed'[j] = "closed"
           \/ status'[j] = "canceled"
    BY <1>9, <1>0 DEF CloseHandler, CloseHandlerDone, ErrorHandler, Finish, finishRow, JobTypes
  <2>2. child'[j] = NoTicket /\ \A x \in Jobs \ {j} : child'[x] = child[x]
    BY <1>0, <2>1 DEF JobTypes
  <2>3. QED
    BY <1>0, <2>1, <2>2 DEF FeedTellsTheTruth, JobTypes
<1>10. CASE RetryLaunches
  <2>1. pending \in Jobs /\ pending \in table /\ closing = NoJob /\ status[pending] = "running"
    BY <1>10, OnlyTheRetry DEF RetryLaunches
  <2>2. \A x \in Jobs \ {pending} : child'[x] = child[x]
    BY <1>10, <1>0, <2>1, Launched DEF RetryLaunches
  <2>3. QED
    BY <1>10, <1>0, <2>1, <2>2 DEF RetryLaunches, FeedTellsTheTruth, JobTypes
<1>11. CASE RetrySpawnFails
  <2>1. pending \in Jobs /\ child[pending] = NoTicket
    BY <1>11, OnlyTheRetry DEF RetrySpawnFails
  <2>2. QED
    BY <1>11, <1>0, <2>1 DEF RetrySpawnFails, finishRow, FeedTellsTheTruth, JobTypes
<1>12. CASE RetryParksAgain \/ RetryFindsJobCanceled \/ Probes \/ UNCHANGED allVars
  BY <1>12, <1>0 DEF RetryParksAgain, RetryFindsJobCanceled, Probes, FeedTellsTheTruth
<1>13. ASSUME NEW d \in Deletes, AskDelete(d) \/ DeleteRefused(d) \/ BeginDelete(d) \/ EndDelete(d)
      PROVE  FeedTellsTheTruth'
  BY <1>13, <1>0 DEF AskDelete, DeleteRefused, BeginDelete, EndDelete, FeedTellsTheTruth
<1>14. ASSUME NEW l \in Lanes, OtherAdmit(l)
      PROVE  FeedTellsTheTruth'
  BY <1>14, <1>0 DEF OtherAdmit, FeedTellsTheTruth
<1>15. ASSUME NEW i \in Tickets, OtherTicket(i)
      PROVE  FeedTellsTheTruth'
  BY <1>15, <1>0 DEF OtherTicket, FeedTellsTheTruth
<1>16. QED
  BY <1>1, <1>2, <1>3, <1>4, <1>5, <1>6, <1>7, <1>8, <1>9, <1>10, <1>11, <1>12, <1>13,
       <1>14, <1>15 DEF JobsNext

-----------------------------------------------------------------------------
(* The theorems.                                                            *)

\* The runner starts with an empty table.
LEMMA InitJInv == JobsInit => JInv
<1> SUFFICES ASSUME JobsInit PROVE JInv
  OBVIOUS
<1>1. IInv
  BY InitIInv DEF JobsInit
<1>2. JobTypes
  BY DEF JobsInit, JobTypes
<1>3. ChildrenRun /\ LatchInv /\ WaitInv /\ FeedTellsTheTruth
  BY DEF JobsInit, Init, ChildrenRun, LatchInv, Live, WaitInv, Parked, FeedTellsTheTruth
<1>4. QED
  BY <1>1, <1>2, <1>3 DEF JInv

\* Every turn keeps the invariant; the governor's part is kept because the turn
\* is one of the governor's.
LEMMA StepJInv == JInv /\ [JobsNext]_allVars => JInv'
<1> SUFFICES ASSUME JInv, [JobsNext]_allVars PROVE JInv'
  OBVIOUS
<1>1. IInv'
  BY StepUsesGovernor, StepIInv DEF JInv
<1>2. QED
  BY <1>1, TypesKept, ChildrenKept, LatchKept, WaitKept, FeedKept DEF JInv

\* What the invariant says of the properties that the runs check.
LEMMA JInvImplies ==
  ASSUME JInv
  PROVE  SingleFlight /\ JobsInv
<1>1. SingleFlight
  BY DEF JInv, LatchInv, Live, SingleFlight
<1>2. JobsTypeOK
  BY DEF JInv, JobTypes, ChildrenRun, JobsTypeOK
<1>3. ParkedOnce
  <2>1. ASSUME NEW k \in DOMAIN queue PROVE child[queue[k]] = NoTicket /\ queue[k] # pending
    <3>1. queue[k] \in Parked /\ queue[k] \in Waiters
      BY <2>1 DEF Parked, JInv, IInv, QueueInv
    <3>2. Idle
      BY <2>1 DEF JInv, IInv, QueueInv
    <3>3. QED
      BY <3>1, <3>2, LaneAssumption DEF JInv, WaitInv, Idle
  <2>2. QED
    BY <2>1 DEF ParkedOnce
<1>4. QED
  BY <1>1, <1>2, <1>3 DEF JInv, JobsInv

\* The strengthening is an invariant of the runner.
THEOREM RunnerInvariant == JobsSpec => []JInv
<1>1. QED
  BY InitJInv, StepJInv, PTL DEF JobsSpec

\* The runner keeps to the governor's contract: whatever is proved of the
\* governor by itself holds of the governor that the runner uses.
THEOREM KeepsTheContract == JobsSpec => UsesGovernor
<1>1. JobsInit => Init
  BY DEF JobsInit
<1>2. JInv /\ [JobsNext]_allVars => [Next]_vars
  BY StepUsesGovernor DEF JInv
<1>3. QED
  BY RunnerInvariant, <1>1, <1>2, PTL DEF JobsSpec, UsesGovernor, Spec

\* A running job, or one whose child is not yet reaped, owns the latch and is in
\* the table: through cancel and restart, parked retries and evictions.
THEOREM OneFlight == JobsSpec => []SingleFlight
<1>1. JInv => SingleFlight
  BY JInvImplies
<1>2. QED
  BY RunnerInvariant, <1>1, PTL

\* A parked Generate has not been launched; a row that its job closed is true, and
\* a job that ended by itself has closed its row, whatever the reaper did to it.
THEOREM JobsAgree == JobsSpec => []JobsInv
<1>1. JInv => JobsInv
  BY JInvImplies
<1>2. QED
  BY RunnerInvariant, <1>1, PTL

\* For the runner's governor too: one model lane holds a ticket at most, a job's
\* running child keeps its ticket, and what is granted fits the memory.
THEOREM RunnerKeepsSlot ==
  JobsSpec => [](SlotBound /\ RunningChildKeepsTicket) /\ GrantsFitMemory
<1>1. QED
  BY KeepsTheContract, SlotBounded, ChildKeepsTicket, MemoryRespected, PTL DEF UsesGovernor

=============================================================================
