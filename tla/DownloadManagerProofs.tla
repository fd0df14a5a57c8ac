----------------------- MODULE DownloadManagerProofs -----------------------
(***************************************************************************)
(* Theorems about DownloadManager, for every number of items, queues and   *)
(* operations in flight, every limit, schedule and fault.                  *)
(*                                                                         *)
(* First the type of the state, the list and the queues, and the limits;   *)
(* then what a step does to one item and to the operations in flight, and  *)
(* from that what holds when one operation on an item is asked at a time.  *)
(***************************************************************************)
EXTENDS DownloadManager, FiniteSetTheorems, WellFoundedInduction, TLAPS

-----------------------------------------------------------------------------
(* Data *)

\* A set of numbers has a least element, which Least picks: the free task or
\* automatic pause that a start takes exists.
LEMMA LeastIn ==
    ASSUME NEW T \in SUBSET Nat, T # {}
    PROVE  Least(T) \in T /\ \A m \in T : Least(T) <= m
<1>1. PICK x \in T : \A y \in T : ~(<<y, x>> \in OpToRel(<, Nat))
  BY NatLessThanWellFounded, WFMin
<1>2. ASSUME NEW y \in T PROVE x <= y
  <2>1. SUFFICES ASSUME y < x PROVE FALSE
    OBVIOUS
  <2>2. <<y, x>> \in Nat \X Nat /\ <<y, x>>[1] = y /\ <<y, x>>[2] = x
    OBVIOUS
  <2>3. <<y, x>> \in OpToRel(<, Nat)
    BY <2>1, <2>2, Zenon DEF OpToRel
  <2> QED
    BY <1>1, <2>3
<1> QED
  BY <1>2 DEF Least

\* A set of queues has a last one.
LEMMA LastIn ==
    ASSUME NEW Q \in SUBSET Queues, Q # {}
    PROVE  \E q \in Q : \A p \in Q : p <= q
<1> USE ManagerAssumption DEF Queues
<1> DEFINE T == {NQueues - q : q \in Q}
<1>1. T \in SUBSET Nat /\ T # {}
  <2>1. \A q \in Q : NQueues - q \in Nat
    OBVIOUS
  <2> QED
    BY <2>1
<1>2. PICK q \in Q : NQueues - q = Least(T)
  BY <1>1, LeastIn
<1>3. ASSUME NEW p \in Q PROVE p <= q
  <2>1. NQueues - p \in T
    OBVIOUS
  <2>2. NQueues - q <= NQueues - p
    BY <1>1, <1>2, <2>1, LeastIn
  <2> QED
    BY <2>2
<1> QED
  BY <1>3

\* The cardinality of a union is at most the sum of the cardinalities: slots
\* already taken and slots a pass takes add up.
LEMMA UnionBound ==
    ASSUME NEW A, NEW B, IsFiniteSet(A), IsFiniteSet(B)
    PROVE  /\ Cardinality(A \cup B) <= Cardinality(A) + Cardinality(B)
           /\ Cardinality(A \cup B) \in Nat /\ Cardinality(A) \in Nat /\ Cardinality(B) \in Nat
<1>1. /\ Cardinality(A \cup B) = Cardinality(A) + Cardinality(B) - Cardinality(A \cap B)
      /\ IsFiniteSet(A \cup B) /\ IsFiniteSet(A \cap B)
  BY FS_Union, FS_Intersection
<1>2. /\ Cardinality(A) \in Nat /\ Cardinality(B) \in Nat
      /\ Cardinality(A \cap B) \in Nat /\ Cardinality(A \cup B) \in Nat
  BY <1>1, FS_CardinalityType
<1> QED
  BY <1>1, <1>2

\* The elements of W with fewer than n elements before them.
FirstOnes(W, pos, n) == {i \in W : Cardinality({j \in W : pos[j] < pos[i]}) < n}

\* At most n elements of a finite set have fewer than n elements before them,
\* whatever injective position orders them: freeSlots bounds what is taken.
LEMMA FirstOnesBounded ==
    ASSUME NEW W, IsFiniteSet(W), NEW pos, NEW n \in Int,
           \A i \in W : pos[i] \in Nat,
           \A i, j \in W : pos[i] = pos[j] => i = j
    PROVE  /\ IsFiniteSet(FirstOnes(W, pos, n))
           /\ FirstOnes(W, pos, n) # {} => Cardinality(FirstOnes(W, pos, n)) <= n
<1> USE DEF FirstOnes
<1> DEFINE before(i) == {j \in W : pos[j] < pos[i]}
           first == {i \in W : Cardinality(before(i)) < n}
<1>1. \A i \in W : IsFiniteSet(before(i)) /\ Cardinality(before(i)) \in Nat
  BY FS_Subset, FS_CardinalityType
<1>2. IsFiniteSet(first) /\ Cardinality(first) \in Nat
  BY FS_Subset, FS_CardinalityType
<1>3. ASSUME first # {}, ~(Cardinality(first) <= n) PROVE FALSE
  <2>1. n \in Nat \ {0}
    <3>1. PICK i \in W : Cardinality(before(i)) < n
      BY <1>3
    <3>2. Cardinality(before(i)) \in Nat
      BY <1>1
    <3> HIDE DEF before
    <3> QED
      BY <3>1, <3>2
  <2>2. IsFiniteSet(0..(n - 1)) /\ Cardinality(0..(n - 1)) = n
    BY <2>1, FS_Interval
  <2> DEFINE rank == [i \in first |-> Cardinality(before(i))]
  <2>3. rank \in [first -> 0..(n - 1)]
    BY <1>1, <2>1
  <2>4. PICK x, y \in first : x # y /\ rank[x] = rank[y]
    <3>1. Cardinality(0..(n - 1)) < Cardinality(first)
      BY <1>2, <1>3, <2>1, <2>2
    <3> HIDE DEF rank, first
    <3> QED
      BY <1>2, <2>2, <2>3, <3>1, FS_PigeonHole
  <2>5. ASSUME NEW i \in W, NEW j \in W, pos[i] < pos[j]
        PROVE  Cardinality(before(i)) < Cardinality(before(j))
    <3>1. before(i) \cup {i} \subseteq before(j) /\ i \notin before(i)
      BY <2>5
    <3>2. Cardinality(before(i) \cup {i}) = Cardinality(before(i)) + 1
      <4> HIDE DEF before
      <4> QED
        BY <1>1, <3>1, FS_AddElement
    <3>3. Cardinality(before(i) \cup {i}) <= Cardinality(before(j))
      <4> HIDE DEF before
      <4> QED
        BY <1>1, <3>1, FS_Subset
    <3>4. Cardinality(before(i)) \in Nat /\ Cardinality(before(j)) \in Nat
      BY <1>1
    <3> HIDE DEF before
    <3> QED
      BY <3>2, <3>3, <3>4
  <2>6. pos[x] < pos[y] \/ pos[y] < pos[x]
    BY <2>4
  <2>7. Cardinality(before(x)) = Cardinality(before(y)) /\ x \in W /\ y \in W
    BY <2>4
  <2>8. Cardinality(before(x)) \in Nat /\ Cardinality(before(y)) \in Nat
    BY <1>1
  <2>9. \/ Cardinality(before(x)) < Cardinality(before(y))
        \/ Cardinality(before(y)) < Cardinality(before(x))
    BY <2>5, <2>6, <2>7
  <2> HIDE DEF before
  <2> QED
    BY <2>7, <2>8, <2>9
<1> QED
  BY <1>2, <1>3

-----------------------------------------------------------------------------
(* A pass over the queues *)

\* What the queues and the map of tasks are made of, besides their types: the
\* items and slots the bounds are counted over are finite and well defined.
LEMMA Finiteness ==
    ASSUME TypeOK, NEW t
    PROVE  /\ \A q \in Queues : /\ InQueue(q) \subseteq Items
                               /\ IsFiniteSet(InQueue(q)) /\ IsFiniteSet(Waiting(q))
                               /\ Cap[q] \in Nat
           /\ IsFiniteSet(Active(t)) /\ Cardinality(Active(t)) \in Nat
           /\ MaxActive \in Nat
           /\ \A T \in SUBSET Items : IsFiniteSet(T) /\ Cardinality(T) \in Nat
<1>1. \A T \in SUBSET Items : IsFiniteSet(T) /\ Cardinality(T) \in Nat
  BY ManagerAssumption, FS_Subset, FS_CardinalityType
<1>2. ASSUME NEW q \in Queues
      PROVE  InQueue(q) \subseteq Items /\ Waiting(q) \subseteq Items /\ Cap[q] \in Nat
  <2>1. order[q] \in Seq(Items)
    BY DEF TypeOK
  <2>2. \A n \in DOMAIN order[q] : order[q][n] \in Items
    BY <2>1
  <2> QED
    BY <2>2, ManagerAssumption DEF InQueue, Waiting
<1> QED
  BY <1>1, <1>2, ManagerAssumption DEF Active

\* What a pass starts in one queue is bounded by the slots it found free there.
LEMMA QueuePart ==
    ASSUME TypeOK, NEW q \in Queues, NEW n \in Int, NEW T, T \subseteq FirstWaiting(q, n), T # {}
    PROVE  Cardinality(T) <= n
<1> DEFINE W == Waiting(q)
           pos == [i \in W |-> Position(q, i)]
           first == FirstOnes(W, pos, n)
<1>1. \A i \in W : Position(q, i) \in DOMAIN order[q] /\ order[q][Position(q, i)] = i
  BY DEF Waiting, InQueue, Position
<1>2. order[q] \in Seq(Items)
  BY DEF TypeOK
<1>3. \A i \in W : pos[i] \in Nat
  <2>1. \A m \in DOMAIN order[q] : m \in Nat
    BY <1>2
  <2> QED
    BY <1>1, <2>1
<1>4. \A i, j \in W : pos[i] = pos[j] => i = j
  BY <1>1
<1>5. IsFiniteSet(W)
  BY Finiteness
<1>6. \A i \in W : {j \in W : pos[j] < pos[i]} = {j \in W : Position(q, j) < Position(q, i)}
  OBVIOUS
<1>7. first = FirstWaiting(q, n)
  BY <1>6 DEF FirstWaiting, FirstOnes
<1>8. IsFiniteSet(first) /\ (first # {} => Cardinality(first) <= n)
  <2> HIDE DEF pos, W
  <2> QED
    BY <1>3, <1>4, <1>5, FirstOnesBounded
<1>9. T \subseteq first /\ first # {}
  BY <1>7
<1> HIDE DEF first
<1>10. Cardinality(T) \in Nat /\ Cardinality(first) \in Nat /\ Cardinality(T) <= Cardinality(first)
  BY <1>8, <1>9, FS_Subset, FS_CardinalityType
<1> QED
  BY <1>8, <1>9, <1>10

\* A pass that begins within the limits ends within them, in every queue it
\* serves or not and over all of them.
LEMMA PassBounded ==
    ASSUME TypeOK, ItemsPlaced, NEW t, NEW Q \in SUBSET Queues, NEW S \in SUBSET Items, NEW U,
           Startable(S, U, Q, t),
           Cardinality(Active(t)) <= MaxActive,
           \A q \in Queues : Cardinality(Active(t) \cap InQueue(q)) <= Cap[q]
    PROVE  /\ Cardinality(Active(t) \cup (S \ U)) <= MaxActive
           /\ \A q \in Queues : Cardinality((Active(t) \cup (S \ U)) \cap InQueue(q)) <= Cap[q]
<1> DEFINE C == S \ U
           In(q) == C \cap InQueue(q)
           Before(q) == C \cap UNION {InQueue(p) : p \in {p \in Q : p < q}}
           Free(q) == FreeSlots(q, t, Cardinality(Before(q)))
<1>1. \A T \in SUBSET Items : IsFiniteSet(T) /\ Cardinality(T) \in Nat
  BY Finiteness
<1>2. /\ Active(t) \in SUBSET Items /\ MaxActive \in Nat
      /\ \A q \in Queues : InQueue(q) \in SUBSET Items /\ Cap[q] \in Nat
  BY Finiteness DEF Active
<1>3. ASSUME NEW q \in Q, In(q) # {}
      PROVE  /\ Cardinality(In(q)) <= Cap[q] - Cardinality(Active(t) \cap InQueue(q))
             /\ Cardinality(In(q)) <=
                    MaxActive - Cardinality(Active(t)) - Cardinality(Before(q))
  <2> DEFINE a == Cap[q] - Cardinality(Active(t) \cap InQueue(q))
             b == MaxActive - Cardinality(Active(t)) - Cardinality(Before(q))
  <2>1. In(q) \subseteq FirstWaiting(q, Free(q))
    BY DEF Startable
  <2>2. a \in Int /\ b \in Int
    BY <1>1, <1>2
  <2>3. Free(q) = Lesser(a, b)
    BY DEF FreeSlots
  <2>4. Lesser(a, b) \in Int /\ Lesser(a, b) <= a /\ Lesser(a, b) <= b
    <3> HIDE DEF a, b
    <3> QED
      BY <2>2 DEF Lesser
  <2>5. Cardinality(In(q)) <= Free(q)
    <3>1. Free(q) \in Int /\ In(q) \subseteq FirstWaiting(q, Free(q))
      BY <2>1, <2>3, <2>4
    <3> HIDE DEF In, Free
    <3> QED
      BY <1>3, <3>1, QueuePart
  <2>6. Cardinality(In(q)) \in Nat
    BY <1>1
  <2> HIDE DEF In, Free
  <2>7. Cardinality(In(q)) <= a /\ Cardinality(In(q)) <= b
    <3> HIDE DEF a, b
    <3> QED
      BY <2>2, <2>3, <2>4, <2>5, <2>6
  <2> QED
    BY <2>7
<1>4. Cardinality(Active(t) \cup C) <= MaxActive
  <2>1. CASE C = {}
    BY <2>1
  <2>2. CASE C # {}
    <3> DEFINE served == {q \in Q : In(q) # {}}
    <3>1. served # {}
      BY <2>2 DEF Startable
    <3>2. PICK q \in served : \A p \in served : p <= q
      <4> HIDE DEF In
      <4> QED
        BY <3>1, LastIn
    <3>3. C = Before(q) \cup In(q)
      <4>1. ASSUME NEW i \in C, i \notin In(q) PROVE i \in Before(q)
        <5>1. PICK p \in Q : i \in InQueue(p)
          BY DEF Startable
        <5>2. p \in served /\ p # q
          BY <4>1, <5>1
        <5>3. p <= q
          BY <3>2, <5>2
        <5>4. p < q
          BY <5>2, <5>3, ManagerAssumption DEF Queues
        <5> QED
          BY <5>1, <5>4
      <4> QED
        BY <4>1
    <3>4. /\ Cardinality(C) <= Cardinality(Before(q)) + Cardinality(In(q))
          /\ Cardinality(Before(q)) \in Nat /\ Cardinality(In(q)) \in Nat
          /\ Cardinality(C) \in Nat
      <4>1. Before(q) \in SUBSET Items /\ In(q) \in SUBSET Items /\ Before(q) \cap In(q) \in SUBSET Items
        OBVIOUS
      <4> HIDE DEF Before, In
      <4> QED
        BY <1>1, <3>3, <4>1, UnionBound
    <3>5. Cardinality(In(q)) <= MaxActive - Cardinality(Active(t)) - Cardinality(Before(q))
      <4> HIDE DEF In, Before
      <4> QED
        BY <1>3, <3>2
    <3>6. /\ Cardinality(Active(t) \cup C) <= Cardinality(Active(t)) + Cardinality(C)
          /\ Cardinality(Active(t)) \in Nat /\ Cardinality(Active(t) \cup C) \in Nat
      <4>1. Active(t) \cap C \in SUBSET Items /\ Active(t) \cup C \in SUBSET Items
        BY <1>2
      <4> QED
        BY <1>1, <1>2, <4>1, UnionBound
    <3> HIDE DEF In, Before
    <3> QED
      BY <1>2, <3>4, <3>5, <3>6
  <2> QED
    BY <2>1, <2>2
<1>5. ASSUME NEW q \in Queues
      PROVE  Cardinality((Active(t) \cup C) \cap InQueue(q)) <= Cap[q]
  <2>1. (Active(t) \cup C) \cap InQueue(q) = (Active(t) \cap InQueue(q)) \cup In(q)
    OBVIOUS
  <2>2. CASE In(q) = {}
    BY <2>1, <2>2
  <2>3. CASE In(q) # {}
    <3>1. q \in Q
      <4>1. PICK i \in In(q) : TRUE
        BY <2>3
      <4>2. PICK p \in Q : i \in InQueue(p)
        BY <4>1 DEF Startable
      <4>3. p = q
        BY <4>1, <4>2 DEF InQueue, ItemsPlaced
      <4> QED
        BY <4>3
    <3>2. Cardinality(In(q)) <= Cap[q] - Cardinality(Active(t) \cap InQueue(q))
      BY <1>3, <2>3, <3>1
    <3>3. /\ Cardinality((Active(t) \cap InQueue(q)) \cup In(q))
                <= Cardinality(Active(t) \cap InQueue(q)) + Cardinality(In(q))
          /\ Cardinality((Active(t) \cap InQueue(q)) \cup In(q)) \in Nat
          /\ Cardinality(Active(t) \cap InQueue(q)) \in Nat /\ Cardinality(In(q)) \in Nat
      <4> DEFINE A == Active(t) \cap InQueue(q)
      <4>1. A \in SUBSET Items /\ In(q) \in SUBSET Items /\ A \cap In(q) \in SUBSET Items
            /\ A \cup In(q) \in SUBSET Items
        BY <1>2
      <4> HIDE DEF A, In
      <4>2. /\ Cardinality(A \cup In(q)) <= Cardinality(A) + Cardinality(In(q))
            /\ Cardinality(A \cup In(q)) \in Nat
            /\ Cardinality(A) \in Nat /\ Cardinality(In(q)) \in Nat
        BY <1>1, <4>1, UnionBound
      <4> QED
        BY <4>2 DEF A
    <3>4. Cap[q] \in Nat
      BY <1>2
    <3>5. Cardinality((Active(t) \cap InQueue(q)) \cup In(q)) <= Cap[q]
      <4> HIDE DEF In
      <4> QED
        BY <3>2, <3>3, <3>4
    <3> QED
      BY <2>1, <3>5
  <2> QED
    BY <2>2, <2>3
<1> QED
  BY <1>4, <1>5

-----------------------------------------------------------------------------
(* The inductive invariant *)

\* An operation on an item, or at work on one, names it.
Workplaces == {"settle", "halting", "erasing", "marking", "vault"}
Naming(call) == call.pc \in Workplaces \/ call.op \in ItemOps => call.left # <<>>

Named == \A c \in 1..Slots : Naming(calls[c])

\* An addition waits for its save, and can take back what it added.
Addition(call) ==
    LET i == Head(call.left)
    IN  call.op \in {"add", "addLater"} =>
            /\ call.pc = "saving" /\ call.left # <<>> /\ i \in Items /\ entry[i] # "absent"
            /\ Listed(i) => i \in InQueue(call.q)

Additions == \A c \in 1..Slots : Addition(calls[c])

\* An item has no task before it is added.
Fresh == \A i \in Items : entry[i] = "absent" => tasks[i] = 0

Inv == TypeOK /\ Named /\ Additions /\ ItemsPlaced /\ Fresh /\ WithinLimits

\* The filter of remove() and of the rollback yields a queue with the other
\* items, each still in one place.
LEMMA WithoutFacts ==
    ASSUME NEW s \in Seq(Items), NEW i, \A m, n \in DOMAIN s : s[m] = s[n] => m = n
    PROVE  /\ Without(s, i) \in Seq(Items)
           /\ \A n \in DOMAIN Without(s, i) : \E m \in DOMAIN s : Without(s, i)[n] = s[m] /\ s[m] # i
           /\ \A m \in DOMAIN s : s[m] # i => \E n \in DOMAIN Without(s, i) : Without(s, i)[n] = s[m]
           /\ \A m, n \in DOMAIN Without(s, i) : Without(s, i)[m] = Without(s, i)[n] => m = n
<1>0. Len(s) \in Nat /\ DOMAIN s = 1..Len(s) /\ \A m \in DOMAIN s : s[m] \in Items
  OBVIOUS
<1>1. CASE ~\E n \in DOMAIN s : s[n] = i
  <2>1. Without(s, i) = s
    BY <1>1 DEF Without
  <2> QED
    BY <1>1, <2>1
<1>2. CASE \E n \in DOMAIN s : s[n] = i
  <2> DEFINE k == CHOOSE n \in DOMAIN s : s[n] = i
             r == [n \in 1..(Len(s) - 1) |-> s[IF n < k THEN n ELSE n + 1]]
  <2>1. k \in 1..Len(s) /\ s[k] = i
    BY <1>0, <1>2
  <2>2. Without(s, i) = r
    BY <1>2 DEF Without
  <2> HIDE DEF k
  <2>3. \A n \in 1..(Len(s) - 1) :
           /\ (IF n < k THEN n ELSE n + 1) \in DOMAIN s
           /\ (IF n < k THEN n ELSE n + 1) # k
    BY <1>0, <2>1
  <2>4. \A n \in DOMAIN r : \E m \in DOMAIN s : r[n] = s[m] /\ s[m] # i
    <3>1. SUFFICES ASSUME NEW n \in 1..(Len(s) - 1)
                   PROVE  \E m \in DOMAIN s : s[IF n < k THEN n ELSE n + 1] = s[m] /\ s[m] # i
      OBVIOUS
    <3>2. s[IF n < k THEN n ELSE n + 1] # i
      BY <1>0, <2>1, <2>3
    <3> QED
      BY <2>3, <3>2
  <2>5. r \in Seq(Items)
    <3>1. r \in [1..(Len(s) - 1) -> Items]
      BY <1>0, <2>3
    <3>2. Len(s) - 1 \in Nat
      BY <1>0, <2>1
    <3> HIDE DEF r
    <3> QED
      BY <3>1, <3>2
  <2>6. ASSUME NEW m \in DOMAIN s, s[m] # i PROVE \E n \in DOMAIN r : r[n] = s[m]
    <3>1. m \in 1..Len(s) /\ m # k
      BY <1>0, <2>1, <2>6
    <3>2. CASE m < k
      BY <1>0, <2>1, <3>1, <3>2
    <3>3. CASE m > k
      <4>1. m - 1 \in 1..(Len(s) - 1) /\ ~(m - 1 < k) /\ (m - 1) + 1 = m
        BY <1>0, <2>1, <3>1, <3>3
      <4> QED
        BY <4>1
    <3> QED
      BY <1>0, <2>1, <3>1, <3>2, <3>3
  <2>7. ASSUME NEW m \in DOMAIN r, NEW n \in DOMAIN r, r[m] = r[n] PROVE m = n
    <3>1. m \in 1..(Len(s) - 1) /\ n \in 1..(Len(s) - 1)
      OBVIOUS
    <3>2. s[IF m < k THEN m ELSE m + 1] = s[IF n < k THEN n ELSE n + 1]
      BY <2>7, <3>1
    <3>3. (IF m < k THEN m ELSE m + 1) = (IF n < k THEN n ELSE n + 1)
      BY <2>3, <3>1, <3>2
    <3> QED
      BY <1>0, <2>1, <3>1, <3>3
  <2> HIDE DEF r
  <2> QED
    BY <2>2, <2>4, <2>5, <2>6, <2>7
<1> QED
  BY <1>1, <1>2

-----------------------------------------------------------------------------
(* Steps of the manager *)

WorkOK ==
    /\ status \in [Items -> Statuses]
    /\ tasks \in [Items -> 0..Lives]
    /\ inst \in [Items -> [TaskIds -> TaskPcs]]
    /\ scheduledPauses \in [Items -> 0..Rounds]
    /\ auto \in [Items -> [RoundIds -> AutoPcs]]

\* Starting some items and pausing others leaves the maps well formed, and the
\* tasks in the map are those that were there and those of the started items.
LEMMA ReassignFacts ==
    ASSUME TypeOK, NEW S \in SUBSET Items, NEW U, NEW P \in SUBSET Items,
           NEW t \in [Items -> 0..Lives], NEW sp \in [Items -> 0..Rounds],
           NEW au \in [Items -> [RoundIds -> AutoPcs]], NEW ts \in [Items -> [TaskIds -> TaskPcs]],
           Reassign(S, U, P, t, sp, au, ts)
    PROVE  WorkOK' /\ Active(tasks') = Active(t) \cup S
<1>1. \A i \in S : Least(FreeTasks(i, ts)) \in TaskIds
  <2>1. ASSUME NEW i \in S PROVE Least(FreeTasks(i, ts)) \in TaskIds
    <3>0. FreeTasks(i, ts) # {}
      BY DEF Reassign
    <3>1. FreeTasks(i, ts) \in SUBSET Nat
      BY DEF FreeTasks, TaskIds
    <3>2. Least(FreeTasks(i, ts)) \in FreeTasks(i, ts)
      BY <3>0, <3>1, LeastIn
    <3> QED
      BY <3>2 DEF FreeTasks
  <2> QED
    BY <2>1
<1>2. \A i \in P : Least(FreeRounds(i, au)) \in RoundIds
  <2>1. ASSUME NEW i \in P PROVE Least(FreeRounds(i, au)) \in RoundIds
    <3>1. FreeRounds(i, au) \in SUBSET RoundIds /\ RoundIds \in SUBSET Nat
      BY DEF FreeRounds, RoundIds
    <3>2. FreeRounds(i, au) # {}
      BY DEF Reassign
    <3>3. Least(FreeRounds(i, au)) \in FreeRounds(i, au)
      BY <3>1, <3>2, LeastIn
    <3> QED
      BY <3>1, <3>3
  <2> QED
    BY <2>1
<1>3. TaskIds \subseteq 1..Lives /\ RoundIds \subseteq 1..Rounds /\ Lives \in Nat /\ Rounds \in Nat
  BY ManagerAssumption DEF TaskIds, RoundIds
<1>4. tasks' \in [Items -> 0..Lives] /\ Active(tasks') = Active(t) \cup S
  <2>1. tasks' = [i \in Items |-> IF i \in S THEN Least(FreeTasks(i, ts)) ELSE t[i]]
    BY DEF Reassign
  <2>2. \A i \in S : Least(FreeTasks(i, ts)) \in 1..Lives
    BY <1>1, <1>3
  <2> QED
    BY <1>3, <2>1, <2>2 DEF Active
<1>5. status' \in [Items -> Statuses]
  BY DEF Reassign, TypeOK, Statuses
<1>6. scheduledPauses' \in [Items -> 0..Rounds]
  <2>1. \A i \in P : Least(FreeRounds(i, au)) \in 0..Rounds
    <3>1. \A r \in RoundIds : r \in 0..Rounds
      BY <1>3
    <3> QED
      BY <1>2, <3>1
  <2> QED
    BY <2>1 DEF Reassign
<1>7. auto' \in [Items -> [RoundIds -> AutoPcs]]
  BY DEF Reassign, AutoPcs
<1>8. inst' \in [Items -> [TaskIds -> TaskPcs]]
  <2>1. \A pc \in TaskPcs : HaltPc(pc) \in TaskPcs
    BY DEF HaltPc, TaskPcs
  <2>2. \A i \in Items : \A n \in TaskIds : ts[i][n] \in TaskPcs /\ HaltPc(ts[i][n]) \in TaskPcs
    BY <2>1
  <2>3. "loading" \in TaskPcs
    BY DEF TaskPcs
  <2> QED
    BY <2>2, <2>3 DEF Reassign
<1> QED
  BY <1>4, <1>5, <1>6, <1>7, <1>8 DEF WorkOK

\* A step that gives no task to anybody and moves nobody who has one into
\* another queue stays within the limits.
LEMMA Shrinking ==
    ASSUME Inv,
           \A i \in Items : tasks'[i] = 0 \/ tasks'[i] = tasks[i],
           \A i \in Items : tasks[i] # 0 => \A q \in Queues : i \in InQueue(q)' => i \in InQueue(q),
           \A i \in Items : entry'[i] = "absent" => entry[i] = "absent"
    PROVE  Fresh' /\ WithinLimits'
<1>1. Active(tasks') \subseteq Active(tasks)
  BY DEF Active
<1>2. \A q \in Queues : Active(tasks') \cap InQueue(q)' \subseteq Active(tasks) \cap InQueue(q)
  BY DEF Active
<1>3. \A T \in SUBSET Items : IsFiniteSet(T) /\ Cardinality(T) \in Nat
  BY Finiteness DEF Inv
<1>4. Active(tasks) \in SUBSET Items /\ Active(tasks') \in SUBSET Items /\ MaxActive \in Nat
      /\ \A q \in Queues : Cap[q] \in Nat
  BY ManagerAssumption DEF Active
<1>5. \A T, U \in SUBSET Items : T \subseteq U => Cardinality(T) <= Cardinality(U)
  BY <1>3, FS_Subset
<1>6. Cardinality(Active(tasks')) <= MaxActive
  <2>1. Cardinality(Active(tasks)) <= MaxActive
    BY DEF Inv, WithinLimits
  <2> QED
    BY <1>1, <1>3, <1>4, <1>5, <2>1
<1>7. ASSUME NEW q \in Queues
      PROVE  Cardinality(Active(tasks') \cap InQueue(q)') <= Cap[q]
  <2>1. Cardinality(Active(tasks) \cap InQueue(q)) <= Cap[q]
    BY DEF Inv, WithinLimits
  <2>2. Active(tasks) \cap InQueue(q) \in SUBSET Items /\ Active(tasks') \cap InQueue(q)' \in SUBSET Items
    BY <1>4
  <2>3. Cardinality(Active(tasks') \cap InQueue(q)') <= Cardinality(Active(tasks) \cap InQueue(q))
    BY <1>2, <1>5, <2>2
  <2> QED
    BY <1>3, <1>4, <2>1, <2>2, <2>3
<1>8. Fresh'
  BY DEF Inv, Fresh
<1>9. WithinLimits'
  BY <1>6, <1>7 DEF WithinLimits
<1> QED
  BY <1>8, <1>9

\* A pass over some queues, from a map of tasks that may have lost some, keeps
\* the maps well formed and the limits.
LEMMA Passing ==
    ASSUME Inv, NEW Q \in SUBSET Queues, NEW P \in SUBSET Items,
           NEW t \in [Items -> 0..Lives], NEW sp \in [Items -> 0..Rounds],
           NEW au \in [Items -> [RoundIds -> AutoPcs]], NEW ts \in [Items -> [TaskIds -> TaskPcs]],
           \A i \in Items : t[i] = 0 \/ t[i] = tasks[i],
           Pass(Q, P, t, sp, au, ts), UNCHANGED <<entry, order>>
    PROVE  WorkOK' /\ Fresh' /\ WithinLimits'
<1>0. PICK S \in SUBSET Items, U \in SUBSET Items :
          Startable(S, U, Q, t) /\ Reassign(S \ U, U, P, t, sp, au, ts)
  BY DEF Pass, Uncreatable
<1> DEFINE C == S \ U
<1>1. WorkOK' /\ Active(tasks') = Active(t) \cup C
  BY <1>0, ReassignFacts DEF Inv
<1>2. \A T \in SUBSET Items : IsFiniteSet(T) /\ Cardinality(T) \in Nat
  BY Finiteness DEF Inv
<1>3. /\ MaxActive \in Nat /\ \A q \in Queues : Cap[q] \in Nat
      /\ Active(tasks) \in SUBSET Items /\ Active(t) \in SUBSET Items
      /\ Active(t) \subseteq Active(tasks)
  BY ManagerAssumption DEF Active
<1>4. \A T, V \in SUBSET Items : T \subseteq V => Cardinality(T) <= Cardinality(V)
  BY <1>2, FS_Subset
<1>5. Cardinality(Active(t)) <= MaxActive
  <2>1. Cardinality(Active(tasks)) <= MaxActive
    BY DEF Inv, WithinLimits
  <2> QED
    BY <1>2, <1>3, <1>4, <2>1
<1>6. ASSUME NEW q \in Queues PROVE Cardinality(Active(t) \cap InQueue(q)) <= Cap[q]
  <2>1. Cardinality(Active(tasks) \cap InQueue(q)) <= Cap[q]
    BY DEF Inv, WithinLimits
  <2>2. /\ Active(t) \cap InQueue(q) \in SUBSET Items /\ Active(tasks) \cap InQueue(q) \in SUBSET Items
        /\ Active(t) \cap InQueue(q) \subseteq Active(tasks) \cap InQueue(q)
    BY <1>3
  <2>3. /\ Cardinality(Active(t) \cap InQueue(q)) <= Cardinality(Active(tasks) \cap InQueue(q))
        /\ Cardinality(Active(t) \cap InQueue(q)) \in Nat
        /\ Cardinality(Active(tasks) \cap InQueue(q)) \in Nat
        /\ Cap[q] \in Nat
    BY <1>2, <1>3, <1>4, <2>2
  <2> QED
    BY <2>1, <2>3
<1>7. /\ Cardinality(Active(t) \cup C) <= MaxActive
      /\ \A q \in Queues : Cardinality((Active(t) \cup C) \cap InQueue(q)) <= Cap[q]
  BY <1>0, <1>5, <1>6, PassBounded DEF Inv
<1>8. \A q \in Queues : InQueue(q)' = InQueue(q)
  BY DEF InQueue
<1>9. WithinLimits'
  BY <1>1, <1>7, <1>8 DEF WithinLimits
<1>10. Fresh'
  <2>1. ASSUME NEW i \in C PROVE entry[i] = "listed"
    <3>1. PICK q \in Q : i \in InQueue(q)
      BY <1>0 DEF Startable
    <3>2. PICK n : S \cap InQueue(q) = FirstWaiting(q, n) \ Active(t)
      BY <1>0 DEF Startable
    <3>3. i \in Waiting(q)
      BY <3>1, <3>2 DEF FirstWaiting
    <3> QED
      BY <3>3 DEF Waiting, Listed
  <2>2. \A i \in Items : tasks'[i] # 0 => i \in C \/ t[i] # 0
    BY <1>1 DEF Active
  <2> QED
    BY <2>1, <2>2 DEF Inv, Fresh
<1> QED
  BY <1>1, <1>9, <1>10

\* The parts of the invariant that steps disturb together.
PlacesOK ==
    /\ entry \in [Items -> {"absent", "listed", "gone"}]
    /\ order \in [Queues -> Seq(Items)]
    /\ ItemsPlaced
CallsOK == calls \in [1..Slots -> Call] /\ Named /\ Additions
RestOK ==
    /\ running \in [Queues -> BOOLEAN] /\ open \in [Queues -> BOOLEAN]
    /\ shut \in [pc: {"no", "settling", "pausing", "saving", "done"},
                 waits: SUBSET (Items \X RoundIds), halting: SUBSET Items]
    /\ want \in [Items -> {"run", "pause", "stop"}]
    /\ asked \in 0..MaxAsked /\ turns \in 0..MaxTurns
LimitsOK == Fresh /\ WithinLimits

\* The invariant is these parts.
LEMMA InvParts == Inv <=> PlacesOK /\ CallsOK /\ WorkOK /\ RestOK /\ LimitsOK
BY DEF Inv, TypeOK, PlacesOK, CallsOK, WorkOK, RestOK, LimitsOK

\* A pass over all queues, which pauses what a closed schedule expels.
LEMMA PassAll ==
    ASSUME Inv, NEW t \in [Items -> 0..Lives], NEW sp \in [Items -> 0..Rounds],
           NEW au \in [Items -> [RoundIds -> AutoPcs]], NEW ts \in [Items -> [TaskIds -> TaskPcs]],
           \A i \in Items : t[i] = 0 \/ t[i] = tasks[i],
           ProcessAllQueues(t, sp, au, ts), UNCHANGED <<entry, order>>
    PROVE  WorkOK' /\ LimitsOK'
<1>1. CASE shut.pc = "no"
  <2>1. Pass({q \in Queues : running[q] /\ open[q]}, Expelled(t, sp), t, sp, au, ts)
    BY <1>1 DEF ProcessAllQueues
  <2>2. Expelled(t, sp) \in SUBSET Items
    <3>1. \A q \in Scheduled : InQueue(q) \subseteq Items
      BY Finiteness, ManagerAssumption DEF Inv
    <3> QED
      BY <3>1 DEF Expelled
  <2>3. {q \in Queues : running[q] /\ open[q]} \in SUBSET Queues
    OBVIOUS
  <2> QED
    BY <2>1, <2>2, <2>3, Passing DEF LimitsOK
<1>2. CASE shut.pc # "no"
  <2>1. tasks' = t /\ scheduledPauses' = sp /\ auto' = au /\ inst' = ts /\ UNCHANGED status
    BY <1>2 DEF ProcessAllQueues
  <2>2. WorkOK'
    BY <2>1 DEF WorkOK, Inv, TypeOK
  <2>3. Fresh' /\ WithinLimits'
    BY <2>1, Shrinking DEF InQueue
  <2> QED
    BY <2>2, <2>3 DEF LimitsOK
<1> QED
  BY <1>1, <1>2

\* A pass over one queue, after an addition to it.
LEMMA PassOne ==
    ASSUME Inv, NEW q \in Queues, ProcessQueue(q), UNCHANGED <<entry, order>>
    PROVE  WorkOK' /\ LimitsOK'
<1> USE DEF LimitsOK
<1>0. WorkOK
  BY InvParts
<1>1. CASE running[q] /\ open[q]
  <2>1. Pass({q}, {}, tasks, scheduledPauses, auto, inst)
    BY <1>1 DEF ProcessQueue
  <2>2. {q} \in SUBSET Queues /\ {} \in SUBSET Items
    OBVIOUS
  <2> QED
    BY <1>0, <2>1, <2>2, Passing DEF WorkOK
<1>2. CASE ~(running[q] /\ open[q])
  <2>1. UNCHANGED <<work, status>>
    BY <1>2 DEF ProcessQueue
  <2>2. WorkOK'
    BY <1>0, <2>1 DEF WorkOK, work
  <2>3. Fresh' /\ WithinLimits'
    BY <2>1, Shrinking DEF InQueue, work
  <2> QED
    BY <2>2, <2>3
<1> QED
  BY <1>1, <1>2

\* What a step must leave of the list and the queues for the additions in flight.
Kept ==
    \A i \in Items :
        /\ entry'[i] = "absent" => entry[i] = "absent"
        /\ Listed(i)' => \A q \in Queues : i \in InQueue(q) => i \in InQueue(q)'
        /\ Listed(i)' => Listed(i) \/ entry[i] = "absent"

\* An addition in flight can still be taken back after such a step.
LEMMA AdditionKept ==
    ASSUME Kept, NEW call \in Call, Addition(call)
    PROVE  Addition(call)'
<1>1. CASE call.op \in {"add", "addLater"}
  <2>1. /\ call.pc = "saving" /\ call.left # <<>> /\ Head(call.left) \in Items
        /\ entry[Head(call.left)] # "absent"
        /\ Listed(Head(call.left)) => Head(call.left) \in InQueue(call.q)
    BY <1>1 DEF Addition
  <2>2. call.q \in Queues
    BY DEF Call
  <2>3. /\ entry'[Head(call.left)] # "absent"
        /\ Listed(Head(call.left))' => Head(call.left) \in InQueue(call.q)'
    BY <2>1, <2>2 DEF Kept
  <2> QED
    BY <2>1, <2>3 DEF Addition, InQueue, Listed
<1>2. CASE call.op \notin {"add", "addLater"}
  BY <1>2 DEF Addition
<1> QED
  BY <1>1, <1>2

\* Whatever a step writes over one operation in flight, the others stand.
LEMMA CallGoes ==
    ASSUME Inv, Kept, NEW c \in 1..Slots, NEW call \in Call, Addition(call)',
           Naming(call), calls' = [calls EXCEPT ![c] = call]
    PROVE  CallsOK'
<1>1. calls \in [1..Slots -> Call] /\ Named /\ Additions
  BY DEF Inv, TypeOK
<1>2. calls' \in [1..Slots -> Call]
  BY <1>1
<1>3. \A d \in 1..Slots : calls'[d] = IF d = c THEN call ELSE calls[d]
  BY <1>1
<1>4. Named'
  BY <1>1, <1>3 DEF Named
<1>5. ASSUME NEW d \in 1..Slots PROVE Addition(calls[d])'
  <2>1. CASE d = c
    BY <1>3, <2>1 DEF Addition
  <2>2. CASE d # c
    <3>1. PICK o \in Call : o = calls[d]
      BY <1>1
    <3>2. Addition(o)
      BY <1>1, <3>1 DEF Additions
    <3>3. Addition(o)'
      BY <3>2, AdditionKept
    <3>4. calls'[d] = o
      BY <1>3, <2>2, <3>1
    <3> QED
      BY <3>3, <3>4 DEF Addition
  <2> QED
    BY <2>1, <2>2
<1> QED
  BY <1>2, <1>4, <1>5 DEF CallsOK, Additions

\* What a move to another await leaves of an operation.
LEMMA Moves ==
    ASSUME NEW O, NEW Q, NEW L, NEW P, NEW W, NEW pc \in P, NEW w \in W,
           NEW call \in [op: O, q: Q, left: L, pc: P, wait: W]
    PROVE  /\ [call EXCEPT !.pc = pc, !.wait = w] \in [op: O, q: Q, left: L, pc: P, wait: W]
           /\ [call EXCEPT !.pc = pc, !.wait = w].left = call.left
           /\ [call EXCEPT !.pc = pc, !.wait = w].op = call.op
           /\ [call EXCEPT !.pc = pc, !.wait = w].q = call.q
           /\ [call EXCEPT !.pc = pc, !.wait = w].pc = pc
OBVIOUS

\* An operation that goes on to its next await.
LEMMA CallContinues ==
    ASSUME Inv, Kept, NEW c \in 1..Slots, NEW call \in Call, call.op \notin {"add", "addLater"},
           NEW pc \in CallPcs, pc \in Workplaces \/ call.op \in ItemOps => call.left # <<>>,
           Goto(c, call, pc)
    PROVE  CallsOK'
<1> DEFINE next == [call EXCEPT !.pc = pc, !.wait = 0]
<1>1. next \in Call /\ next.left = call.left /\ next.op = call.op /\ next.q = call.q /\ next.pc = pc
  <2>1. 0 \in 0..Rounds
    BY ManagerAssumption
  <2> QED
    BY <2>1, Moves DEF Call
<1>2. calls' = [calls EXCEPT ![c] = next]
  BY DEF Goto
<1> HIDE DEF next
<1>3. Addition(next)' /\ Naming(next)
  BY <1>1 DEF Addition, Naming
<1> QED
  BY <1>1, <1>2, <1>3, CallGoes

\* No operation is a legal value of a slot.
LEMMA NoCallFacts == NoCall \in Call /\ NoCall.left = <<>> /\ NoCall.pc = "idle" /\ NoCall.op = "none"
BY ManagerAssumption DEF NoCall, Call, CallPcs, Queues

\* An operation that returns.
LEMMA CallReturns ==
    ASSUME Inv, Kept, NEW c \in 1..Slots, Return(c)
    PROVE  CallsOK'
<1>1. Addition(NoCall)'
  BY NoCallFacts DEF Addition
<1>2. Naming(NoCall)
  BY NoCallFacts DEF Naming, Workplaces, ItemOps
<1> QED
  BY <1>1, <1>2, NoCallFacts, CallGoes DEF Return

\* A step that moves no operation.
LEMMA CallsStay ==
    ASSUME Inv, Kept, UNCHANGED calls
    PROVE  CallsOK'
<1>1. calls \in [1..Slots -> Call] /\ Named /\ Additions
  BY DEF Inv, TypeOK
<1>2. ASSUME NEW d \in 1..Slots PROVE Addition(calls[d])'
  <2>1. PICK o \in Call : o = calls[d]
    BY <1>1
  <2>2. Addition(o)
    BY <1>1, <2>1 DEF Additions
  <2>3. Addition(o)'
    BY <2>2, AdditionKept
  <2> QED
    BY <2>1, <2>3 DEF Addition
<1> QED
  BY <1>1, <1>2 DEF CallsOK, Additions, Named

\* A step that leaves the list and the queues alone.
LEMMA SamePlaces ==
    ASSUME Inv, UNCHANGED <<entry, order>>
    PROVE  Kept /\ PlacesOK'
<1>1. entry' = entry /\ order' = order
  OBVIOUS
<1>2. PlacesOK
  BY InvParts
<1> QED
  BY <1>1, <1>2 DEF Kept, PlacesOK, ItemsPlaced, Listed, InQueue

\* An item leaves the list and every queue.
LEMMA Unlisting ==
    ASSUME Inv, NEW i \in Items,
           entry' \in [Items -> {"absent", "listed", "gone"}],
           \A j \in Items \ {i} : entry'[j] = entry[j],
           entry'[i] # "listed", entry'[i] = "absent" => entry[i] = "absent",
           order' = [q \in Queues |-> Without(order[q], i)]
    PROVE  /\ Kept /\ PlacesOK'
           /\ \A j \in Items : \A q \in Queues : j \in InQueue(q)' => j \in InQueue(q)
<1> DEFINE rest(q) == Without(order[q], i)
<1>1. ASSUME NEW q \in Queues
      PROVE  /\ order'[q] = rest(q) /\ rest(q) \in Seq(Items)
             /\ \A n \in DOMAIN rest(q) : \E m \in DOMAIN order[q] :
                    rest(q)[n] = order[q][m] /\ order[q][m] # i
             /\ \A m \in DOMAIN order[q] : order[q][m] # i =>
                    \E n \in DOMAIN rest(q) : rest(q)[n] = order[q][m]
             /\ \A m, n \in DOMAIN rest(q) : rest(q)[m] = rest(q)[n] => m = n
  <2>1. order[q] \in Seq(Items) /\ \A m, n \in DOMAIN order[q] : order[q][m] = order[q][n] => m = n
    BY DEF Inv, TypeOK, ItemsPlaced
  <2>2. order'[q] = rest(q)
    OBVIOUS
  <2> QED
    BY <2>1, <2>2, WithoutFacts
<1> HIDE DEF rest
<1>2. ASSUME NEW q \in Queues, NEW j \in Items
      PROVE  j \in InQueue(q)' <=> j \in InQueue(q) /\ j # i
  <2>1. ASSUME j \in InQueue(q)' PROVE j \in InQueue(q) /\ j # i
    <3>1. PICK n \in DOMAIN rest(q) : rest(q)[n] = j
      BY <1>1, <2>1 DEF InQueue
    <3>2. PICK m \in DOMAIN order[q] : rest(q)[n] = order[q][m] /\ order[q][m] # i
      BY <1>1
    <3> QED
      BY <3>1, <3>2 DEF InQueue
  <2>2. ASSUME j \in InQueue(q), j # i PROVE j \in InQueue(q)'
    <3>1. PICK m \in DOMAIN order[q] : order[q][m] = j
      BY <2>2 DEF InQueue
    <3>2. PICK n \in DOMAIN rest(q) : rest(q)[n] = order[q][m]
      BY <1>1, <2>2, <3>1
    <3> QED
      BY <1>1, <3>1, <3>2 DEF InQueue
  <2> QED
    BY <2>1, <2>2
<1>3. ItemsPlaced
  BY DEF Inv
<1>4. ItemsPlaced'
  <2>1. ASSUME NEW j \in Items
        PROVE  (entry'[j] = "listed") <=> \E q \in Queues : j \in InQueue(q)'
    BY <1>2, <1>3 DEF ItemsPlaced, Listed
  <2>2. ASSUME NEW p \in Queues, NEW q \in Queues, NEW m \in DOMAIN rest(p),
               NEW n \in DOMAIN rest(q), rest(p)[m] = rest(q)[n]
        PROVE  p = q /\ m = n
    <3>1. PICK k \in DOMAIN order[p] : rest(p)[m] = order[p][k]
      BY <1>1
    <3>2. PICK l \in DOMAIN order[q] : rest(q)[n] = order[q][l]
      BY <1>1
    <3>3. p = q
      <4>1. order[p][k] = order[q][l]
        BY <2>2, <3>1, <3>2
      <4> QED
        BY <1>3, <4>1 DEF ItemsPlaced
    <3> QED
      BY <1>1, <2>2, <3>3
  <2>3. \A q \in Queues : order'[q] = rest(q)
    BY <1>1
  <2>4. \A p, q \in Queues : \A m \in DOMAIN order'[p] : \A n \in DOMAIN order'[q] :
            order'[p][m] = order'[q][n] => p = q /\ m = n
    BY <2>2, <2>3
  <2> HIDE DEF rest
  <2> QED
    BY <2>1, <2>4 DEF ItemsPlaced, Listed
<1>5. order' \in [Queues -> Seq(Items)]
  BY <1>1
<1>6. Kept
  BY <1>2 DEF Kept, Listed
<1> QED
  BY <1>2, <1>4, <1>5, <1>6 DEF PlacesOK

\* A step that gives no task to anybody, in the same queues.
LEMMA SameLimits ==
    ASSUME Inv, UNCHANGED <<entry, order>>, \A i \in Items : tasks'[i] = 0 \/ tasks'[i] = tasks[i]
    PROVE  LimitsOK'
<1>1. \A q \in Queues : InQueue(q)' = InQueue(q)
  BY DEF InQueue
<1> QED
  BY <1>1, Shrinking DEF LimitsOK

\* What stops a task leaves the tasks well formed.
LEMMA HaltType ==
    ASSUME NEW ts \in [Items -> [TaskIds -> TaskPcs]], NEW i \in Items, NEW n
    PROVE  Halt(ts, i, n) \in [Items -> [TaskIds -> TaskPcs]]
<1>1. \A pc \in TaskPcs : HaltPc(pc) \in TaskPcs
  BY DEF HaltPc, TaskPcs
<1> QED
  BY <1>1 DEF Halt

-----------------------------------------------------------------------------
(* The operations on an item *)

\* An operation on an item it names, no addition.
OnItem(call) == call \in Call /\ call.left # <<>> /\ call.op \notin {"add", "addLater"}

\* Such an operation goes on or returns, in a step that leaves the list alone.
LEMMA ItemCalls ==
    ASSUME Inv, Kept, NEW c \in 1..Slots, NEW call, OnItem(call)
    PROVE  /\ \A pc \in CallPcs : Goto(c, call, pc) => CallsOK'
           /\ Return(c) => CallsOK'
BY CallContinues, CallReturns DEF OnItem

\* The places an operation goes to.
LEMMA Places ==
    {"settle", "next", "halting", "erasing", "saving", "marking", "vault"} \subseteq CallPcs
BY DEF CallPcs

\* settleScheduledPause forgets the automatic pause and waits.
LEMMA SettleOK ==
    ASSUME Inv, NEW c \in 1..Slots, NEW i \in Items, NEW call, OnItem(call), Settle(c, call, i)
    PROVE  PlacesOK' /\ CallsOK' /\ WorkOK' /\ LimitsOK'
<1>1. /\ UNCHANGED <<entry, status, order, tasks, inst, auto>>
      /\ scheduledPauses' = [scheduledPauses EXCEPT ![i] = 0]
  BY DEF Settle
<1>2. PlacesOK' /\ Kept
  BY <1>1, SamePlaces
<1>3. WorkOK'
  <2>1. WorkOK /\ 0 \in 0..Rounds
    BY InvParts, ManagerAssumption
  <2> QED
    BY <1>1, <2>1 DEF WorkOK
<1>4. LimitsOK'
  BY <1>1, SameLimits
<1>5. CallsOK'
  <2>1. call \in Call /\ scheduledPauses[i] \in 0..Rounds /\ "settle" \in CallPcs
    BY DEF OnItem, Inv, TypeOK, CallPcs
  <2>2. PICK next \in Call : next = [call EXCEPT !.pc = "settle", !.wait = scheduledPauses[i]]
    BY <2>1, Moves DEF Call
  <2>3. next.left = call.left /\ next.op = call.op /\ next.pc = "settle"
    BY <2>1, <2>2, Moves DEF Call
  <2>4. calls' = [calls EXCEPT ![c] = next]
    BY <2>2 DEF Settle
  <2>5. Addition(next)' /\ Naming(next)
    BY <2>3 DEF Addition, Naming, OnItem
  <2> QED
    BY <1>2, <2>4, <2>5, CallGoes
<1> QED
  BY <1>2, <1>3, <1>4, <1>5

\* pause
LEMMA PauseOK ==
    ASSUME Inv, NEW c \in 1..Slots, NEW i \in Items, NEW call, OnItem(call), PauseActs(c, call, i)
    PROVE  PlacesOK' /\ CallsOK' /\ WorkOK' /\ LimitsOK'
<1>1. UNCHANGED <<entry, order, tasks, scheduledPauses, auto>>
  BY DEF PauseActs
<1>2. PlacesOK' /\ Kept /\ LimitsOK'
  BY <1>1, SamePlaces, SameLimits
<1>3. WorkOK'
  <2>1. WorkOK /\ {"paused"} \subseteq Statuses
    BY InvParts DEF Statuses
  <2>2. status' \in [Items -> Statuses]
    BY <2>1 DEF PauseActs, SetStatus, WorkOK
  <2>3. inst' \in [Items -> [TaskIds -> TaskPcs]]
    BY <2>1, HaltType DEF PauseActs, WorkOK
  <2> QED
    BY <1>1, <2>1, <2>2, <2>3 DEF WorkOK
<1>4. CallsOK'
  BY <1>2, ItemCalls, Places DEF PauseActs
<1> QED
  BY <1>2, <1>3, <1>4

\* resume and retry
LEMMA ResumeOK ==
    ASSUME Inv, NEW c \in 1..Slots, NEW i \in Items, NEW call, OnItem(call), ResumeActs(c, call, i)
    PROVE  PlacesOK' /\ CallsOK' /\ WorkOK' /\ LimitsOK'
<1>1. UNCHANGED <<entry, order, tasks, inst, scheduledPauses, auto>>
  BY DEF ResumeActs, work
<1>2. PlacesOK' /\ Kept /\ LimitsOK'
  BY <1>1, SamePlaces, SameLimits
<1>3. WorkOK'
  <2>1. WorkOK /\ {"queued"} \subseteq Statuses
    BY InvParts DEF Statuses
  <2>2. status' \in [Items -> Statuses]
    BY <2>1 DEF ResumeActs, SetStatus, WorkOK
  <2> QED
    BY <1>1, <2>1, <2>2 DEF WorkOK
<1>4. CallsOK'
  BY <1>2, ItemCalls, Places DEF ResumeActs
<1> QED
  BY <1>2, <1>3, <1>4

\* cancel
LEMMA CancelOK ==
    ASSUME Inv, NEW c \in 1..Slots, NEW i \in Items, NEW call, OnItem(call), CancelActs(c, call, i)
    PROVE  PlacesOK' /\ CallsOK' /\ WorkOK' /\ LimitsOK'
<1>1. UNCHANGED <<entry, order, tasks, scheduledPauses, auto>>
  BY DEF CancelActs
<1>2. PlacesOK' /\ Kept /\ LimitsOK'
  BY <1>1, SamePlaces, SameLimits
<1>3. WorkOK'
  <2>1. WorkOK /\ {"cancelled"} \subseteq Statuses
    BY InvParts DEF Statuses
  <2>2. status' \in [Items -> Statuses]
    BY <2>1 DEF CancelActs, SetStatus, WorkOK
  <2>3. inst' \in [Items -> [TaskIds -> TaskPcs]]
    BY <2>1, HaltType DEF CancelActs, WorkOK
  <2> QED
    BY <1>1, <2>1, <2>2, <2>3 DEF WorkOK
<1>4. CallsOK'
  BY <1>2, ItemCalls, Places DEF CancelActs
<1> QED
  BY <1>2, <1>3, <1>4

\* The item leaves the list and the queues, and no task is given to anybody.
LEMMA UnlistOK ==
    ASSUME Inv, NEW c \in 1..Slots, NEW i \in Items, NEW call, OnItem(call), Unlist(c, call, i),
           \A j \in Items : tasks'[j] = 0 \/ tasks'[j] = tasks[j]
    PROVE  PlacesOK' /\ CallsOK' /\ LimitsOK'
<1>1. /\ entry' = [entry EXCEPT ![i] = IF @ = "listed" THEN "gone" ELSE @]
      /\ order' = [q \in Queues |-> Without(order[q], i)]
  BY DEF Unlist
<1>2. entry \in [Items -> {"absent", "listed", "gone"}]
  BY DEF Inv, TypeOK
<1>3. /\ entry' \in [Items -> {"absent", "listed", "gone"}]
      /\ \A j \in Items \ {i} : entry'[j] = entry[j]
      /\ entry'[i] # "listed" /\ (entry'[i] = "absent" => entry[i] = "absent")
  BY <1>1, <1>2
<1>4. /\ Kept /\ PlacesOK'
      /\ \A j \in Items : \A q \in Queues : j \in InQueue(q)' => j \in InQueue(q)
  BY <1>1, <1>3, Unlisting
<1>5. LimitsOK'
  <2>1. \A j \in Items : entry'[j] = "absent" => entry[j] = "absent"
    BY <1>3
  <2> QED
    BY <1>4, <2>1, Shrinking DEF LimitsOK
<1>6. CallsOK'
  BY <1>4, ItemCalls, Places DEF Unlist
<1> QED
  BY <1>4, <1>5, <1>6

\* remove, once no task is in the way.
LEMMA RemoveEntryOK ==
    ASSUME Inv, NEW c \in 1..Slots, NEW i \in Items, NEW call, OnItem(call), RemoveEntry(c, call, i),
           \A j \in Items : tasks'[j] = 0 \/ tasks'[j] = tasks[j]
    PROVE  PlacesOK' /\ CallsOK' /\ LimitsOK' /\ status' \in [Items -> Statuses]
<1>0. status \in [Items -> Statuses] /\ "cancelled" \in Statuses
  BY DEF Inv, TypeOK, Statuses
<1>1. CASE /\ i \in Protected /\ Listed(i) /\ SetStatus(i, "cancelled")
           /\ Goto(c, call, "marking") /\ UNCHANGED <<entry, order>>
  <2>1. PlacesOK' /\ Kept /\ LimitsOK'
    BY <1>1, SamePlaces, SameLimits
  <2>2. CallsOK'
    BY <1>1, <2>1, ItemCalls, Places
  <2> QED
    BY <1>0, <1>1, <2>1, <2>2 DEF SetStatus
<1>2. CASE Unlist(c, call, i) /\ UNCHANGED status
  BY <1>0, <1>2, UnlistOK
<1> QED
  BY <1>1, <1>2 DEF RemoveEntry

\* remove
LEMMA RemoveOK ==
    ASSUME Inv, NEW c \in 1..Slots, NEW i \in Items, NEW call, OnItem(call), RemoveActs(c, call, i)
    PROVE  PlacesOK' /\ CallsOK' /\ WorkOK' /\ LimitsOK'
<1>1. UNCHANGED <<tasks, scheduledPauses, auto>> /\ WorkOK
  BY InvParts DEF RemoveActs
<1>2. CASE /\ inst' = Halt(inst, i, tasks[i]) /\ Goto(c, call, "halting")
           /\ UNCHANGED <<entry, status, order>>
  <2>1. PlacesOK' /\ Kept /\ LimitsOK'
    BY <1>1, <1>2, SamePlaces, SameLimits
  <2>2. CallsOK'
    BY <1>2, <2>1, ItemCalls, Places
  <2>3. WorkOK'
    BY <1>1, <1>2, HaltType DEF WorkOK
  <2> QED
    BY <2>1, <2>2, <2>3
<1>3. CASE Goto(c, call, "erasing") /\ UNCHANGED <<entry, status, order, inst>>
  <2>1. PlacesOK' /\ Kept /\ LimitsOK'
    BY <1>1, <1>3, SamePlaces, SameLimits
  <2>2. CallsOK'
    BY <1>3, <2>1, ItemCalls, Places
  <2> QED
    BY <1>1, <1>3, <2>1, <2>2 DEF WorkOK
<1>4. CASE RemoveEntry(c, call, i) /\ UNCHANGED inst
  <2>1. PlacesOK' /\ CallsOK' /\ LimitsOK' /\ status' \in [Items -> Statuses]
    BY <1>1, <1>4, RemoveEntryOK
  <2> QED
    BY <1>1, <1>4, <2>1 DEF WorkOK
<1> QED
  BY <1>2, <1>3, <1>4 DEF RemoveActs

\* One turn of stopQueue: the items still to stop are the tail of those before.
LEMMA TailFacts ==
    ASSUME NEW c \in 1..Slots, NEW call, OnItem(call), call.op = "stopQueue", Inv, Kept,
           Goto(c, [call EXCEPT !.left = Tail(@)], "next")
    PROVE  CallsOK'
<1> DEFINE rest == [call EXCEPT !.left = Tail(@)]
<1>1. call.left \in Seq(Items) /\ call.left # <<>> /\ call \in Call
  BY DEF OnItem, Call
<1>2. Tail(call.left) \in Seq(Items)
  BY <1>1
<1>3. rest = [call EXCEPT !.left = Tail(call.left)]
  BY <1>1 DEF Call
<1>4. rest \in Call /\ rest.op = call.op
  BY <1>1, <1>2, <1>3 DEF Call
<1>5. Goto(c, rest, "next")
  OBVIOUS
<1> HIDE DEF rest
<1>6. /\ rest.op \notin {"add", "addLater"} /\ rest.op \notin ItemOps
      /\ "next" \in CallPcs /\ "next" \notin Workplaces
  BY <1>4 DEF CallPcs, Workplaces, ItemOps
<1> QED
  BY <1>4, <1>5, <1>6, CallContinues

\* stopQueue, one item
LEMMA StopOK ==
    ASSUME Inv, NEW c \in 1..Slots, NEW i \in Items, NEW call, OnItem(call), StopActs(c, call, i),
           call.op = "stopQueue"
    PROVE  PlacesOK' /\ CallsOK' /\ WorkOK' /\ LimitsOK'
<1>1. UNCHANGED <<entry, order, tasks, scheduledPauses, auto>>
  BY DEF StopActs
<1>2. PlacesOK' /\ Kept /\ LimitsOK'
  BY <1>1, SamePlaces, SameLimits
<1>3. WorkOK'
  <2>1. WorkOK /\ {"paused"} \subseteq Statuses
    BY InvParts DEF Statuses
  <2>2. status' \in [Items -> Statuses]
    BY <2>1 DEF StopActs, SetStatus, WorkOK
  <2>3. inst' \in [Items -> [TaskIds -> TaskPcs]]
    <3>1. inst' = Halt(inst, i, tasks[i]) \/ UNCHANGED inst
      BY DEF StopActs
    <3> QED
      BY <2>1, <3>1, HaltType DEF WorkOK
  <2> QED
    BY <1>1, <2>1, <2>2, <2>3 DEF WorkOK
<1>4. CallsOK'
  <2>1. CASE Goto(c, call, "halting")
    BY <1>2, <2>1, ItemCalls, Places
  <2>2. CASE Goto(c, [call EXCEPT !.left = Tail(@)], "next")
    BY <1>2, <2>2, TailFacts
  <2> QED
    BY <2>1, <2>2 DEF StopActs
<1> QED
  BY <1>2, <1>3, <1>4

\* settleScheduledPause, then the operation.
LEMMA OperationOK ==
    ASSUME Inv, NEW c \in 1..Slots, NEW i \in Items, NEW call, OnItem(call),
           SettleOrAct(c, call, i) \/ Act(c, call, i)
    PROVE  PlacesOK' /\ CallsOK' /\ WorkOK' /\ LimitsOK'
BY SettleOK, PauseOK, ResumeOK, CancelOK, RemoveOK, StopOK DEF SettleOrAct, Act

-----------------------------------------------------------------------------
(* The steps keep the invariant *)

\* The parts after a step make the invariant after it.
LEMMA InvAfter ==
    ASSUME PlacesOK', CallsOK', WorkOK', RestOK', LimitsOK'
    PROVE  Inv'
BY DEF Inv, TypeOK, PlacesOK, CallsOK, WorkOK, RestOK, LimitsOK

\* What is asked for gets an idle slot and counts.
LEMMA Asking ==
    ASSUME Inv, NEW op, Ask(op)
    PROVE  /\ Least(IdleSlots) \in 1..Slots
           /\ asked' \in 0..MaxAsked
<1>1. IdleSlots \in SUBSET Nat /\ IdleSlots # {}
  BY DEF IdleSlots, Ask
<1>2. Least(IdleSlots) \in 1..Slots
  BY <1>1, LeastIn DEF IdleSlots
<1>3. asked \in 0..MaxAsked /\ MaxAsked \in Nat
  BY ManagerAssumption DEF Inv, TypeOK
<1> QED
  BY <1>2, <1>3 DEF Ask

\* The user asks for an operation on an item.
LEMMA AskItemKeeps ==
    ASSUME Inv, NEW op \in ItemOps, NEW i \in Items, AskItem(op, i)
    PROVE  Inv'
<1>1. PICK c \in 1..Slots : c = Least(IdleSlots)
  BY Asking DEF AskItem
<1>2. PICK call : call = [NoCall EXCEPT !.op = op, !.left = <<i>>]
  OBVIOUS
<1>3. OnItem(call)
  <2>1. op \in Ops \cup {"none"} /\ op \notin {"add", "addLater"}
    BY DEF ItemOps, Ops
  <2>2. /\ NoCall \in [op: Ops \cup {"none"}, q: Queues, left: Seq(Items), pc: CallPcs, wait: 0..Rounds]
        /\ <<i>> \in Seq(Items) /\ <<i>> # <<>>
    BY NoCallFacts DEF Call
  <2>3. call \in Call /\ call.op = op /\ call.left = <<i>>
    BY <1>2, <2>1, <2>2 DEF Call
  <2> QED
    BY <2>1, <2>2, <2>3 DEF OnItem
<1>4. SettleOrAct(c, call, i)
  BY <1>1, <1>2 DEF AskItem
<1>5. PlacesOK' /\ CallsOK' /\ WorkOK' /\ LimitsOK'
  BY <1>3, <1>4, OperationOK
<1>6. RestOK'
  <2>1. asked' \in 0..MaxAsked
    BY Asking DEF AskItem
  <2>2. want' = [want EXCEPT ![i] = Wish(op)]
        /\ UNCHANGED <<running, open, shut, turns>>
    BY DEF AskItem
  <2>3. Wish(op) \in {"run", "pause", "stop"}
    BY DEF Wish
  <2> QED
    BY <2>1, <2>2, <2>3, InvParts DEF RestOK
<1> QED
  BY <1>5, <1>6, InvAfter

\* addDownload puts the new item in front of its queue.
LEMMA AddKeeps ==
    ASSUME Inv, NEW op \in {"add", "addLater"}, NEW i \in Items, NEW q \in Queues, Add(op, i, q)
    PROVE  Inv'
<1>1. PICK c \in 1..Slots : c = Least(IdleSlots)
  BY Asking DEF Add
<1>2. /\ entry[i] = "absent" /\ entry' = [entry EXCEPT ![i] = "listed"]
      /\ order' = [order EXCEPT ![q] = <<i>> \o @]
      /\ UNCHANGED <<running, open, work, shut, turns>>
      /\ status' = [status EXCEPT ![i] = IF op = "add" THEN "queued" ELSE "added"]
      /\ want' = [want EXCEPT ![i] = "run"]
  BY DEF Add, SetStatus
<1>3. /\ entry \in [Items -> {"absent", "listed", "gone"}] /\ order \in [Queues -> Seq(Items)]
      /\ ItemsPlaced /\ tasks[i] = 0
  BY <1>2 DEF Inv, TypeOK, Fresh
<1> DEFINE longer == <<i>> \o order[q]
<1>4. /\ longer \in Seq(Items)
      /\ 1 \in DOMAIN longer /\ longer[1] = i
      /\ \A n \in DOMAIN longer : n # 1 => n - 1 \in DOMAIN order[q] /\ longer[n] = order[q][n - 1]
      /\ \A n \in DOMAIN order[q] : n + 1 \in DOMAIN longer /\ longer[n + 1] = order[q][n]
      /\ \A n \in DOMAIN longer : n \in Int
  <2>1. order[q] \in Seq(Items)
    BY <1>3
  <2> QED
    BY <2>1
<1>5. order'[q] = longer /\ \A p \in Queues \ {q} : order'[p] = order[p]
  BY <1>2, <1>3
<1> HIDE DEF longer
<1>6. \A p \in Queues : i \notin InQueue(p)
  BY <1>2, <1>3 DEF ItemsPlaced, Listed
<1>7. ASSUME NEW p \in Queues, NEW j
      PROVE  j \in InQueue(p)' <=> j \in InQueue(p) \/ (p = q /\ j = i)
  <2>1. CASE p = q
    BY <1>4, <1>5, <2>1 DEF InQueue
  <2>2. CASE p # q
    BY <1>5, <2>2 DEF InQueue
  <2> QED
    BY <2>1, <2>2
<1>8. PlacesOK'
  <2>1. order' \in [Queues -> Seq(Items)]
    BY <1>2, <1>3, <1>4 DEF longer
  <2>2. entry' \in [Items -> {"absent", "listed", "gone"}]
    BY <1>2, <1>3
  <2>3. ASSUME NEW j \in Items PROVE entry'[j] = "listed" <=> \E p \in Queues : j \in InQueue(p)'
    BY <1>2, <1>3, <1>6, <1>7 DEF ItemsPlaced, Listed
  <2>4. ASSUME NEW p \in Queues, NEW r \in Queues, NEW m \in DOMAIN order'[p],
               NEW n \in DOMAIN order'[r], order'[p][m] = order'[r][n]
        PROVE  p = r /\ m = n
    <3>1. CASE order'[p][m] = i
      <4>1. ASSUME NEW s \in Queues, NEW k \in DOMAIN order'[s], order'[s][k] = i
            PROVE  s = q /\ k = 1
        <5>1. CASE s # q
          BY <1>5, <1>6, <4>1, <5>1 DEF InQueue
        <5>2. CASE s = q /\ k # 1
          BY <1>4, <1>5, <1>6, <4>1, <5>2 DEF InQueue
        <5> QED
          BY <5>1, <5>2
      <4> QED
        BY <2>4, <3>1, <4>1
    <3>2. CASE order'[p][m] # i
      <4>1. ASSUME NEW s \in Queues, NEW k \in DOMAIN order'[s], order'[s][k] # i
            PROVE  \E l \in DOMAIN order[s] : /\ order'[s][k] = order[s][l]
                                              /\ k = IF s = q THEN l + 1 ELSE l
        <5>1. CASE s # q
          BY <1>5, <5>1
        <5>2. CASE s = q
          <6>1. k \in DOMAIN longer /\ k # 1 /\ k \in Int
            BY <1>4, <1>5, <4>1, <5>2
          <6>2. k - 1 \in DOMAIN order[s] /\ order'[s][k] = order[s][k - 1] /\ k = (k - 1) + 1
            BY <1>4, <1>5, <5>2, <6>1
          <6> QED
            BY <5>2, <6>2
        <5> QED
          BY <5>1, <5>2
      <4>2. PICK k \in DOMAIN order[p] : order'[p][m] = order[p][k] /\ m = IF p = q THEN k + 1 ELSE k
        BY <3>2, <4>1
      <4>3. PICK l \in DOMAIN order[r] : order'[r][n] = order[r][l] /\ n = IF r = q THEN l + 1 ELSE l
        BY <2>4, <3>2, <4>1
      <4>4. order[p][k] = order[r][l]
        BY <2>4, <4>2, <4>3
      <4>5. p = r /\ k = l
        BY <1>3, <4>4 DEF ItemsPlaced
      <4> QED
        BY <4>2, <4>3, <4>5
    <3> QED
      BY <3>1, <3>2
  <2>5. ItemsPlaced'
    BY <2>3, <2>4 DEF ItemsPlaced, Listed
  <2> QED
    BY <2>1, <2>2, <2>5 DEF PlacesOK
<1>9. Kept
  BY <1>2, <1>3, <1>7 DEF Kept, Listed
<1>10. LimitsOK'
  <2>1. UNCHANGED tasks
    BY <1>2 DEF work
  <2>2. \A j \in Items : tasks[j] # 0 => \A p \in Queues : j \in InQueue(p)' => j \in InQueue(p)
    BY <1>3, <1>7
  <2>3. \A j \in Items : entry'[j] = "absent" => entry[j] = "absent"
    BY <1>2, <1>3
  <2> QED
    BY <2>1, <2>2, <2>3, Shrinking DEF LimitsOK
<1>11. WorkOK'
  <2>1. {"queued", "added"} \subseteq Statuses
    BY DEF Statuses
  <2> QED
    BY <1>2, <2>1, InvParts DEF WorkOK, work
<1>12. CallsOK'
  <2>1. PICK base \in Call : base = [NoCall EXCEPT !.op = op, !.q = q, !.left = <<i>>]
    <3>1. op \in Ops \cup {"none"} /\ <<i>> \in Seq(Items)
      BY DEF Ops
    <3> QED
      BY <3>1, NoCallFacts DEF Call
  <2>2. base.op = op /\ base.q = q /\ base.left = <<i>>
    BY <2>1, NoCallFacts DEF Call
  <2>3. "saving" \in CallPcs /\ 0 \in 0..Rounds
    BY ManagerAssumption DEF CallPcs
  <2>4. PICK next \in Call : next = [base EXCEPT !.pc = "saving", !.wait = 0]
    BY <2>3, Moves DEF Call
  <2>5. next.op = op /\ next.q = q /\ next.left = <<i>> /\ next.pc = "saving"
    BY <2>2, <2>3, <2>4, Moves DEF Call
  <2>6. calls' = [calls EXCEPT ![c] = next]
    BY <1>1, <2>1, <2>4 DEF Add, Goto
  <2>7. Addition(next)'
    <3>1. Head(next.left) = i /\ next.left # <<>>
      BY <2>5
    <3>2. entry'[i] = "listed" /\ i \in InQueue(q)'
      BY <1>2, <1>3, <1>7
    <3> QED
      BY <2>5, <3>1, <3>2 DEF Addition, InQueue, Listed
  <2>8. Naming(next)
    BY <2>5 DEF Naming
  <2> QED
    BY <1>9, <2>6, <2>7, <2>8, CallGoes
<1>13. RestOK'
  <2>1. asked' \in 0..MaxAsked
    BY Asking DEF Add
  <2> QED
    BY <1>2, <2>1, InvParts DEF RestOK
<1> QED
  BY <1>8, <1>10, <1>11, <1>12, <1>13, InvAfter

\* startQueue and stopQueue give a new operation to a slot.
LEMMA QueueCallKeeps ==
    ASSUME Inv, Kept, NEW op \in {"startQueue", "stopQueue"}, Ask(op),
           NEW call \in Call, call.op = op, NEW pc \in {"saving", "next"},
           Goto(Least(IdleSlots), call, pc)
    PROVE  CallsOK'
<1>1. PICK c \in 1..Slots : c = Least(IdleSlots)
  BY Asking
<1>2. /\ call.op \notin {"add", "addLater"} /\ call.op \notin ItemOps
      /\ pc \in CallPcs /\ pc \notin Workplaces
  BY DEF CallPcs, Workplaces, ItemOps
<1>3. Goto(c, call, pc)
  BY <1>1
<1> QED
  BY <1>2, <1>3, CallContinues

\* startQueue
LEMMA StartQueueKeeps ==
    ASSUME Inv, NEW q \in Queues, StartQueue(q)
    PROVE  Inv'
<1>1. /\ UNCHANGED <<entry, status, order, open, work, shut, want, turns>>
      /\ running' = [running EXCEPT ![q] = TRUE] /\ Ask("startQueue")
  BY DEF StartQueue
<1>2. PlacesOK' /\ Kept /\ LimitsOK'
  BY <1>1, SamePlaces, SameLimits DEF work
<1>3. WorkOK'
  BY <1>1, InvParts DEF WorkOK, work
<1>4. CallsOK'
  <2>1. PICK call \in Call : call = [NoCall EXCEPT !.op = "startQueue", !.q = q]
    BY NoCallFacts DEF Call, Ops
  <2>2. call.op = "startQueue" /\ Goto(Least(IdleSlots), call, "saving")
    BY <2>1, NoCallFacts DEF StartQueue, Call
  <2> QED
    BY <1>1, <1>2, <2>2, QueueCallKeeps
<1>5. RestOK'
  <2>1. asked' \in 0..MaxAsked
    BY <1>1, Asking
  <2> QED
    BY <1>1, <2>1, InvParts DEF RestOK
<1> QED
  BY <1>2, <1>3, <1>4, <1>5, InvAfter

\* stopQueue, up to its loop
LEMMA StopQueueKeeps ==
    ASSUME Inv, NEW q \in Queues, StopQueue(q)
    PROVE  Inv'
<1>1. /\ UNCHANGED <<entry, status, order, open, work, shut, want, turns>>
      /\ running' = [running EXCEPT ![q] = FALSE] /\ Ask("stopQueue")
  BY DEF StopQueue
<1>2. PlacesOK' /\ Kept /\ LimitsOK'
  BY <1>1, SamePlaces, SameLimits DEF work
<1>3. WorkOK'
  BY <1>1, InvParts DEF WorkOK, work
<1>4. CallsOK'
  <2>1. order[q] \in Seq(Items)
    BY DEF Inv, TypeOK
  <2>2. PICK call \in Call : call = [NoCall EXCEPT !.op = "stopQueue", !.q = q, !.left = order[q]]
    BY <2>1, NoCallFacts DEF Call, Ops
  <2>3. call.op = "stopQueue" /\ Goto(Least(IdleSlots), call, "next")
    BY <2>2, NoCallFacts DEF StopQueue, Call
  <2> QED
    BY <1>1, <1>2, <2>3, QueueCallKeeps
<1>5. RestOK'
  <2>1. asked' \in 0..MaxAsked
    BY <1>1, Asking
  <2> QED
    BY <1>1, <2>1, InvParts DEF RestOK
<1> QED
  BY <1>2, <1>3, <1>4, <1>5, InvAfter

\* A step of shutdown(), of a window or of nobody: what it may change besides
\* the work is well formed.
LEMMA NoCallMoves ==
    ASSUME Inv, UNCHANGED <<entry, order, calls>>, WorkOK', RestOK',
           LimitsOK' \/ \A i \in Items : tasks'[i] = 0 \/ tasks'[i] = tasks[i]
    PROVE  Inv'
<1>1. PlacesOK' /\ Kept
  BY SamePlaces
<1>2. LimitsOK'
  BY SameLimits
<1>3. CallsOK'
  BY <1>1, CallsStay
<1> QED
  BY <1>1, <1>2, <1>3, InvAfter

\* shutdown(), before its first await
LEMMA ShutdownKeeps ==
    ASSUME Inv, Shutdown
    PROVE  Inv'
<1>1. UNCHANGED <<entry, status, order, running, open, work, calls, want, turns>> /\ Ask("shutdown")
  BY DEF Shutdown, setup
<1>2. WorkOK'
  BY <1>1, InvParts DEF WorkOK, work
<1>3. RestOK'
  <2>1. asked' \in 0..MaxAsked
    BY <1>1, Asking
  <2>2. {<<i, scheduledPauses[i]>> : i \in {i \in Items : scheduledPauses[i] # 0}}
            \in SUBSET (Items \X RoundIds)
    <3>1. \A i \in Items : scheduledPauses[i] # 0 => scheduledPauses[i] \in RoundIds
      BY ManagerAssumption DEF Inv, TypeOK, RoundIds
    <3> QED
      BY <3>1
  <2>3. shut' \in [pc: {"no", "settling", "pausing", "saving", "done"},
                   waits: SUBSET (Items \X RoundIds), halting: SUBSET Items]
    BY <2>2 DEF Shutdown
  <2> QED
    BY <1>1, <2>1, <2>3, InvParts DEF RestOK
<1> QED
  BY <1>1, <1>2, <1>3, NoCallMoves DEF work

\* shutdown(), after its first await: it pauses the tasks of the map.
LEMMA ShutdownPausesKeeps ==
    ASSUME Inv, ShutdownPauses
    PROVE  Inv'
<1>1. UNCHANGED <<entry, order, running, open, tasks, auto, calls, bounds>> /\ WorkOK /\ RestOK
  BY InvParts DEF ShutdownPauses, setup
<1>2. WorkOK'
  <2>1. status' \in [Items -> Statuses]
    BY <1>1 DEF ShutdownPauses, WorkOK, Statuses
  <2>2. \A pc \in TaskPcs : HaltPc(pc) \in TaskPcs
    BY DEF HaltPc, TaskPcs
  <2>3. inst' \in [Items -> [TaskIds -> TaskPcs]]
    BY <1>1, <2>2 DEF ShutdownPauses, WorkOK
  <2>4. scheduledPauses' \in [Items -> 0..Rounds]
    BY ManagerAssumption DEF ShutdownPauses
  <2> QED
    BY <1>1, <2>1, <2>3, <2>4 DEF WorkOK
<1>3. RestOK'
  <2>1. Active(tasks) \in SUBSET Items
    BY DEF Active
  <2>2. shut' \in [pc: {"no", "settling", "pausing", "saving", "done"},
                   waits: SUBSET (Items \X RoundIds), halting: SUBSET Items]
    BY <2>1 DEF ShutdownPauses
  <2> QED
    BY <1>1, <2>2 DEF RestOK, bounds
<1> QED
  BY <1>1, <1>2, <1>3, NoCallMoves

\* The rest of shutdown().
LEMMA ShutdownRestKeeps ==
    ASSUME Inv, ShutdownDrains \/ ShutdownDone \/ \E i \in Items : ShutdownHalted(i)
    PROVE  Inv'
<1>1. RestOK /\ WorkOK
  BY InvParts
<1>2. CASE ShutdownDrains \/ ShutdownDone
  <2>1. UNCHANGED <<entry, status, order, running, open, work, calls, bounds>>
    BY <1>2 DEF ShutdownDrains, ShutdownDone, setup
  <2>2. WorkOK'
    BY <1>1, <2>1 DEF WorkOK, work
  <2>3. RestOK'
    BY <1>1, <1>2, <2>1 DEF RestOK, bounds, ShutdownDrains, ShutdownDone
  <2> QED
    BY <2>1, <2>2, <2>3, NoCallMoves DEF work
<1>3. ASSUME NEW i \in Items, ShutdownHalted(i) PROVE Inv'
  <2>1. /\ UNCHANGED <<entry, status, order, running, open, inst, scheduledPauses, auto, calls, bounds>>
        /\ tasks' = [tasks EXCEPT ![i] = 0]
        /\ shut' = [shut EXCEPT !.halting = @ \ {i}]
    BY <1>3 DEF ShutdownHalted, OffMap, setup
  <2>2. WorkOK'
    BY <1>1, <2>1, ManagerAssumption DEF WorkOK
  <2>3. RestOK'
    BY <1>1, <2>1 DEF RestOK, bounds
  <2>4. \A j \in Items : tasks'[j] = 0 \/ tasks'[j] = tasks[j]
    BY <1>1, <2>1 DEF WorkOK
  <2> QED
    BY <2>1, <2>2, <2>3, <2>4, NoCallMoves
<1> QED
  BY <1>2, <1>3

\* A window opens or closes.
LEMMA TurnKeeps ==
    ASSUME Inv, NEW q \in Queues, Turn(q)
    PROVE  Inv'
<1>1. /\ UNCHANGED <<entry, status, order, running, work, calls, shut, want, asked>>
      /\ open' = [open EXCEPT ![q] = ~@] /\ turns' = turns + 1 /\ turns < MaxTurns
  BY DEF Turn
<1>2. WorkOK'
  BY <1>1, InvParts DEF WorkOK, work
<1>3. RestOK'
  <2>1. turns' \in 0..MaxTurns
    BY <1>1, ManagerAssumption DEF Inv, TypeOK
  <2>2. open \in [Queues -> BOOLEAN] /\ \A b \in BOOLEAN : (~b) \in BOOLEAN
    BY DEF Inv, TypeOK
  <2>3. open' \in [Queues -> BOOLEAN]
    BY <1>1, <2>2
  <2> QED
    BY <1>1, <2>1, <2>3, InvParts DEF RestOK
<1> QED
  BY <1>1, <1>2, <1>3, NoCallMoves DEF work

\* An operation in flight past its first await, as the lemmas above take it.
LEMMA InFlight ==
    ASSUME Inv, NEW c \in 1..Slots
    PROVE  \E call \in Call :
               /\ call = calls[c] /\ call.left \in Seq(Items)
               /\ call.pc \in Workplaces => OnItem(call)
               /\ call.pc = "next" /\ call.left # <<>> => OnItem(call)
               /\ call.left # <<>> => Head(call.left) \in Items
<1>1. PICK call \in Call : call = calls[c]
  BY DEF Inv, TypeOK
<1>2. Addition(call)
  BY <1>1 DEF Inv, Additions
<1>3. call.pc \in Workplaces => call.left # <<>>
  BY <1>1 DEF Inv, Named, Naming
<1>4. call.pc \in Workplaces \cup {"next"} => call.op \notin {"add", "addLater"}
  BY <1>2 DEF Addition, Workplaces
<1>5. call.left \in Seq(Items)
  BY DEF Call
<1>6. call.left # <<>> => Head(call.left) \in Items
  BY <1>5
<1> QED
  BY <1>1, <1>3, <1>4, <1>5, <1>6 DEF OnItem

\* The rest of the state, in the continuations of the operations.
LEMMA RestStays ==
    ASSUME Inv, UNCHANGED <<running, open, shut, want, asked, turns>>
    PROVE  RestOK'
<1>1. RestOK
  BY InvParts
<1> QED
  BY <1>1 DEF RestOK

\* An operation that throws and takes nothing back.
LEMMA ThrowKeeps ==
    ASSUME Inv, NEW c \in 1..Slots, Return(c), UNCHANGED <<entry, status, setup, work, shut, bounds>>
    PROVE  Inv'
<1>1. PlacesOK' /\ Kept /\ LimitsOK'
  BY SamePlaces, SameLimits DEF work, setup
<1>2. CallsOK'
  BY <1>1, CallReturns
<1>3. WorkOK'
  BY InvParts DEF WorkOK, work
<1> QED
  BY <1>1, <1>2, <1>3, RestStays, InvAfter DEF setup, bounds

\* stopQueue's loop
LEMMA StopNextKeeps ==
    ASSUME Inv, NEW c \in 1..Slots, StopNext(c)
    PROVE  Inv'
<1>1. PICK call \in Call : /\ call = calls[c] /\ call.left \in Seq(Items)
                           /\ call.pc = "next" /\ call.left # <<>> => OnItem(call)
                           /\ call.left # <<>> => Head(call.left) \in Items
  BY InFlight
<1>2. call.pc = "next" /\ UNCHANGED <<running, open, shut, bounds>>
  BY <1>1 DEF StopNext
<1>3. CASE Goto(c, call, "saving") /\ UNCHANGED <<entry, status, order, work>>
  <2>1. PlacesOK' /\ Kept /\ LimitsOK'
    BY <1>3, SamePlaces, SameLimits DEF work
  <2>2. WorkOK'
    BY <1>3, InvParts DEF WorkOK, work
  <2>3. call.op \notin {"add", "addLater"}
    BY <1>1, <1>2 DEF Inv, Additions, Addition
  <2>4. "saving" \in CallPcs /\ "saving" \notin Workplaces
    BY DEF CallPcs, Workplaces
  <2>5. Naming(call)
    BY <1>1 DEF Inv, Named
  <2>6. CallsOK'
    BY <1>3, <2>1, <2>3, <2>4, <2>5, CallContinues DEF Naming
  <2> QED
    BY <1>2, <2>1, <2>2, <2>6, RestStays, InvAfter DEF bounds
<1>4. CASE call.left # <<>> /\ SettleOrAct(c, call, Head(call.left))
  <2>1. OnItem(call) /\ Head(call.left) \in Items
    BY <1>1, <1>2, <1>4
  <2>2. PlacesOK' /\ CallsOK' /\ WorkOK' /\ LimitsOK'
    BY <1>4, <2>1, OperationOK
  <2> QED
    BY <1>2, <2>2, RestStays, InvAfter DEF bounds
<1> QED
  BY <1>1, <1>3, <1>4 DEF StopNext

\* The automatic pause an operation waited for is over.
LEMMA SettledKeeps ==
    ASSUME Inv, NEW c \in 1..Slots, Settled(c)
    PROVE  Inv'
<1>1. PICK call \in Call : /\ call = calls[c]
                           /\ call.pc \in Workplaces => OnItem(call)
                           /\ call.left # <<>> => Head(call.left) \in Items
  BY InFlight
<1>2. call.pc = "settle" /\ UNCHANGED <<running, open, shut, bounds>>
      /\ Act(c, call, Head(call.left))
  BY <1>1 DEF Settled
<1>3. OnItem(call) /\ Head(call.left) \in Items
  BY <1>1, <1>2 DEF Workplaces, OnItem
<1>4. PlacesOK' /\ CallsOK' /\ WorkOK' /\ LimitsOK'
  BY <1>2, <1>3, OperationOK
<1> QED
  BY <1>2, <1>4, RestStays, InvAfter DEF bounds

\* The task's pause() or cancel() is over.
LEMMA HaltedKeeps ==
    ASSUME Inv, NEW c \in 1..Slots, Halted(c)
    PROVE  Inv'
<1>1. PICK call \in Call : /\ call = calls[c]
                           /\ call.pc \in Workplaces => OnItem(call)
                           /\ call.left # <<>> => Head(call.left) \in Items
  BY InFlight
<1>2. PICK i \in Items : i = Head(call.left)
  BY <1>1 DEF Halted, Workplaces, OnItem
<1>3. /\ tasks' = [tasks EXCEPT ![i] = 0]
      /\ UNCHANGED <<running, open, inst, scheduledPauses, auto, shut, bounds>>
  BY <1>1, <1>2 DEF Halted
<1>4. OnItem(call) /\ WorkOK
  BY <1>1, InvParts DEF Halted, Workplaces
<1>5. \A j \in Items : tasks'[j] = 0 \/ tasks'[j] = tasks[j]
  BY <1>3, <1>4 DEF WorkOK
<1>6. tasks' \in [Items -> 0..Lives]
  BY <1>3, <1>4, ManagerAssumption DEF WorkOK
<1>7. ASSUME UNCHANGED <<entry, order>> PROVE PlacesOK' /\ Kept /\ LimitsOK'
  BY <1>5, <1>7, SamePlaces, SameLimits
<1>8. PlacesOK' /\ CallsOK' /\ LimitsOK' /\ status' \in [Items -> Statuses]
  <2>1. CASE Goto(c, call, "saving") /\ UNCHANGED <<entry, status, order>>
    <3>1. CallsOK'
      BY <1>4, <1>7, <2>1, ItemCalls, Places
    <3> QED
      BY <1>4, <1>7, <2>1, <3>1 DEF WorkOK
  <2>2. CASE /\ Goto(c, call, "saving") /\ UNCHANGED <<entry, order>>
             /\ IF Listed(i) THEN SetStatus(i, "cancelled") ELSE UNCHANGED status
    <3>1. CallsOK'
      BY <1>4, <1>7, <2>2, ItemCalls, Places
    <3>2. status' \in [Items -> Statuses]
      BY <1>4, <2>2 DEF WorkOK, SetStatus, Statuses
    <3> QED
      BY <1>7, <2>2, <3>1, <3>2
  <2>3. CASE RemoveEntry(c, call, i)
    BY <1>4, <1>5, <2>3, RemoveEntryOK
  <2>4. CASE /\ call.op = "stopQueue" /\ Goto(c, [call EXCEPT !.left = Tail(@)], "next")
             /\ UNCHANGED <<entry, status, order>>
    <3>1. CallsOK'
      BY <1>4, <1>7, <2>4, TailFacts
    <3> QED
      BY <1>4, <1>7, <2>4, <3>1 DEF WorkOK
  <2> QED
    BY <1>1, <1>2, <2>1, <2>2, <2>3, <2>4 DEF Halted
<1>9. WorkOK'
  BY <1>3, <1>4, <1>6, <1>8 DEF WorkOK
<1> QED
  BY <1>3, <1>8, <1>9, RestStays, InvAfter DEF bounds

\* The file of an item to erase is gone.
LEMMA ErasedKeeps ==
    ASSUME Inv, NEW c \in 1..Slots, Erased(c)
    PROVE  Inv'
<1>1. PICK call \in Call : /\ call = calls[c]
                           /\ call.pc \in Workplaces => OnItem(call)
                           /\ call.left # <<>> => Head(call.left) \in Items
  BY InFlight
<1>2. PICK i \in Items : i = Head(call.left)
  BY <1>1 DEF Erased, Workplaces, OnItem
<1>3. RemoveEntry(c, call, i) /\ UNCHANGED <<running, open, work, shut, bounds>> /\ OnItem(call)
  BY <1>1, <1>2 DEF Erased, Workplaces
<1>4. PlacesOK' /\ CallsOK' /\ LimitsOK' /\ status' \in [Items -> Statuses]
  BY <1>3, RemoveEntryOK DEF work
<1>5. WorkOK'
  BY <1>3, <1>4, InvParts DEF WorkOK, work
<1> QED
  BY <1>3, <1>4, <1>5, RestStays, InvAfter DEF bounds

\* The state save of an operation is over.
LEMMA SavedKeeps ==
    ASSUME Inv, NEW c \in 1..Slots, Saved(c)
    PROVE  Inv'
<1>1. PICK call \in Call : call = calls[c]
  BY InFlight
<1>2. UNCHANGED <<entry, order, running, open, shut, bounds>> /\ WorkOK
  BY InvParts DEF Saved, setup
<1>3. PlacesOK' /\ Kept
  BY <1>2, SamePlaces
<1>4. WorkOK' /\ LimitsOK'
  <2>1. CASE UNCHANGED <<status, work>>
    BY <1>2, <2>1, SameLimits DEF WorkOK, work
  <2>2. CASE ProcessQueue(call.q)
    BY <1>2, <2>2, PassOne DEF Call
  <2>3. CASE ProcessAllQueues(tasks, scheduledPauses, auto, inst)
    BY <1>2, <2>3, PassAll DEF WorkOK
  <2> QED
    BY <1>1, <2>1, <2>2, <2>3 DEF Saved
<1>5. CallsOK'
  <2>1. CASE Return(c)
    BY <1>3, <2>1, CallReturns
  <2>2. CASE call.op = "cancel" /\ Goto(c, call, "vault")
    <3>1. "vault" \in CallPcs /\ Naming(call) /\ "cancel" \in ItemOps
      BY <1>1 DEF CallPcs, Inv, Named, ItemOps
    <3> QED
      BY <1>3, <2>2, <3>1, CallContinues DEF Naming
  <2> QED
    BY <1>1, <2>1, <2>2 DEF Saved
<1> QED
  BY <1>2, <1>3, <1>4, <1>5, RestStays, InvAfter DEF bounds

\* A save that fails: an addition leaves the list and its queue, if it is still there.
LEMMA SaveFailsKeeps ==
    ASSUME Inv, NEW c \in 1..Slots, SaveFails(c)
    PROVE  Inv'
<1>1. PICK call \in Call : call = calls[c] /\ call.left \in Seq(Items)
  BY InFlight
<1>2. Return(c) /\ UNCHANGED <<status, running, open, work, shut, bounds>>
  BY DEF SaveFails
<1>3. CASE UNCHANGED <<entry, order>>
  BY <1>2, <1>3, ThrowKeeps DEF setup
<1>4. CASE /\ call.op \in {"add", "addLater"}
           /\ entry' = [entry EXCEPT ![Head(call.left)] = "gone"]
           /\ order' = [order EXCEPT ![call.q] = Without(@, Head(call.left))]
  <2>1. Addition(call) /\ call.q \in Queues
    BY <1>1 DEF Inv, Additions, Call
  <2>2. PICK i \in Items : /\ i = Head(call.left) /\ entry[i] # "absent"
                           /\ Listed(i) => i \in InQueue(call.q)
    BY <1>4, <2>1 DEF Addition
  <2>3. ItemsPlaced /\ order \in [Queues -> Seq(Items)]
        /\ entry \in [Items -> {"absent", "listed", "gone"}]
    BY DEF Inv, TypeOK
  <2>4. ASSUME NEW q \in Queues PROVE order'[q] = Without(order[q], i)
    <3>1. CASE q = call.q
      BY <1>4, <2>1, <2>2, <2>3, <3>1
    <3>2. CASE q # call.q
      <4>1. i \notin InQueue(q)
        <5>1. ASSUME i \in InQueue(q) PROVE FALSE
          <6>1. i \in InQueue(call.q)
            BY <2>2, <2>3, <5>1 DEF ItemsPlaced
          <6> QED
            BY <2>1, <2>3, <3>2, <5>1, <6>1 DEF ItemsPlaced, InQueue
        <5> QED
          BY <5>1
      <4>2. Without(order[q], i) = order[q]
        BY <4>1 DEF Without, InQueue
      <4> QED
        BY <1>4, <2>3, <3>2, <4>2
    <3> QED
      BY <3>1, <3>2
  <2>5. order' = [q \in Queues |-> Without(order[q], i)]
    <3>1. order' = [q \in Queues |-> order'[q]]
      BY <1>4, <2>3
    <3> QED
      BY <2>4, <3>1
  <2>6. /\ entry' \in [Items -> {"absent", "listed", "gone"}]
        /\ \A j \in Items \ {i} : entry'[j] = entry[j]
        /\ entry'[i] # "listed" /\ (entry'[i] = "absent" => entry[i] = "absent")
    BY <1>4, <2>2, <2>3
  <2>7. /\ Kept /\ PlacesOK'
        /\ \A j \in Items : \A q \in Queues : j \in InQueue(q)' => j \in InQueue(q)
    BY <2>5, <2>6, Unlisting
  <2>8. LimitsOK'
    <3>1. \A j \in Items : entry'[j] = "absent" => entry[j] = "absent"
      BY <2>6
    <3>2. UNCHANGED tasks
      BY <1>2 DEF work
    <3> QED
      BY <2>7, <3>1, <3>2, Shrinking DEF LimitsOK
  <2>9. CallsOK'
    BY <1>2, <2>7, CallReturns
  <2>10. WorkOK'
    BY <1>2, InvParts DEF WorkOK, work
  <2> QED
    BY <1>2, <2>7, <2>8, <2>9, <2>10, RestStays, InvAfter DEF bounds
<1> QED
  BY <1>1, <1>3, <1>4 DEF SaveFails

\* The cancelled record of a protected item is saved.
LEMMA MarkedKeeps ==
    ASSUME Inv, NEW c \in 1..Slots, Marked(c)
    PROVE  Inv'
<1>1. PICK call \in Call : call = calls[c] /\ (call.pc \in Workplaces => OnItem(call))
  BY InFlight
<1>2. Goto(c, call, "vault") /\ UNCHANGED <<entry, status, setup, work, shut, bounds>> /\ OnItem(call)
  BY <1>1 DEF Marked, Workplaces
<1>3. PlacesOK' /\ Kept /\ LimitsOK'
  BY <1>2, SamePlaces, SameLimits DEF work, setup
<1>4. CallsOK'
  BY <1>2, <1>3, ItemCalls, Places
<1>5. WorkOK'
  BY <1>2, InvParts DEF WorkOK, work
<1> QED
  BY <1>2, <1>3, <1>4, <1>5, RestStays, InvAfter DEF setup, bounds

\* The secret is out of the vault.
LEMMA VaultClearedKeeps ==
    ASSUME Inv, NEW c \in 1..Slots, VaultCleared(c)
    PROVE  Inv'
<1>1. PICK call \in Call : /\ call = calls[c]
                           /\ call.pc \in Workplaces => OnItem(call)
                           /\ call.left # <<>> => Head(call.left) \in Items
  BY InFlight
<1>2. /\ UNCHANGED <<running, open, shut, bounds>> /\ OnItem(call) /\ WorkOK
      /\ Head(call.left) \in Items
  BY <1>1, InvParts DEF VaultCleared, Workplaces, OnItem
<1>3. CASE /\ Return(c) /\ ProcessAllQueues(tasks, scheduledPauses, auto, inst)
           /\ UNCHANGED <<entry, order>>
  <2>1. PlacesOK' /\ Kept
    BY <1>3, SamePlaces
  <2>2. WorkOK' /\ LimitsOK'
    BY <1>2, <1>3, PassAll DEF WorkOK
  <2>3. CallsOK'
    BY <1>3, <2>1, CallReturns
  <2> QED
    BY <1>2, <2>1, <2>2, <2>3, RestStays, InvAfter DEF bounds
<1>4. CASE Unlist(c, call, Head(call.left)) /\ UNCHANGED <<status, work>>
  <2>1. PlacesOK' /\ CallsOK' /\ LimitsOK'
    BY <1>2, <1>4, UnlistOK DEF work
  <2>2. WorkOK'
    BY <1>2, <1>4 DEF WorkOK, work
  <2> QED
    BY <1>2, <2>1, <2>2, RestStays, InvAfter DEF bounds
<1> QED
  BY <1>1, <1>3, <1>4 DEF VaultCleared

\* Every step of an operation in flight.
LEMMA CallKeeps ==
    ASSUME Inv, NEW c \in 1..Slots, CallStep(c)
    PROVE  Inv'
<1>1. CASE HaltFails(c) \/ EraseFails(c) \/ VaultFails(c)
  BY <1>1, ThrowKeeps DEF HaltFails, EraseFails, VaultFails
<1> QED
  BY <1>1, StopNextKeeps, SettledKeeps, HaltedKeeps, ErasedKeeps, SavedKeeps, SaveFailsKeeps,
     MarkedKeeps, VaultClearedKeeps DEF CallStep

\* An event of a task, or of its start().
LEMMA TaskKeeps ==
    ASSUME Inv, NEW i \in Items, NEW n \in TaskIds, TaskStep(i, n)
    PROVE  Inv'
<1>1. UNCHANGED <<entry, order, calls>> /\ UNCHANGED <<running, open, shut, want, asked, turns>>
  BY DEF TaskStep, Opened, OpenFails, Transferred, Emits, Reported, ReportFails, setup, bounds
<1>2. RestOK'
  BY <1>1, RestStays
<1>3. WorkOK /\ 0 \in 0..Lives
  BY InvParts, ManagerAssumption
<1>4. {"running", "ended", "reporting", "finishing", "failing"} \subseteq TaskPcs
      /\ {"downloading", "error", "completed"} \subseteq Statuses
  BY DEF TaskPcs, Statuses
<1>5. CASE Reported(i, n)
  <2>1. [inst EXCEPT ![i][n] = "ended"] \in [Items -> [TaskIds -> TaskPcs]]
    BY <1>3, <1>4 DEF WorkOK
  <2>2. WorkOK' /\ LimitsOK'
    BY <1>1, <1>3, <1>5, <2>1, PassAll DEF WorkOK, Reported
  <2> QED
    BY <1>1, <1>2, <2>2, NoCallMoves
<1>6. CASE Opened(i, n) \/ OpenFails(i, n) \/ Transferred(i, n) \/ Emits(i, n) \/ ReportFails(i, n)
  <2>1. UNCHANGED <<scheduledPauses, auto>>
    BY <1>6 DEF Opened, OpenFails, Transferred, Emits, ReportFails
  <2>2. inst' \in [Items -> [TaskIds -> TaskPcs]]
    <3>1. PICK pc \in {"running", "ended", "reporting", "finishing", "failing"} :
              inst' = [inst EXCEPT ![i][n] = pc]
      BY <1>6 DEF Opened, OpenFails, Transferred, Emits, ReportFails, SetPc
    <3> QED
      BY <1>3, <1>4, <3>1 DEF WorkOK
  <2>3. status' \in [Items -> Statuses]
    BY <1>3, <1>4, <1>6 DEF Opened, OpenFails, Transferred, Emits, ReportFails, SetStatus, WorkOK
  <2>4. tasks' \in [Items -> 0..Lives] /\ \A j \in Items : tasks'[j] = 0 \/ tasks'[j] = tasks[j]
    <3>1. UNCHANGED tasks \/ tasks' = [tasks EXCEPT ![i] = 0]
      BY <1>6 DEF Opened, OpenFails, Transferred, Emits, ReportFails, OffMap
    <3> QED
      BY <1>3, <3>1 DEF WorkOK
  <2>5. WorkOK'
    BY <1>3, <2>1, <2>2, <2>3, <2>4 DEF WorkOK
  <2> QED
    BY <1>1, <1>2, <2>4, <2>5, NoCallMoves
<1> QED
  BY <1>5, <1>6 DEF TaskStep

\* An automatic pause.
LEMMA AutoKeeps ==
    ASSUME Inv, NEW i \in Items, NEW r \in RoundIds, AutoStep(i, r)
    PROVE  Inv'
<1>1. UNCHANGED <<entry, order, calls>> /\ UNCHANGED <<running, open, shut, want, asked, turns>>
  BY DEF AutoStep, AutoPaused, AutoSaved, AutoSaveFails, setup, bounds
<1>2. RestOK'
  BY <1>1, RestStays
<1>3. WorkOK /\ 0 \in 0..Lives /\ 0 \in 0..Rounds
  BY InvParts, ManagerAssumption
<1>4. {"none", "saving"} \subseteq AutoPcs /\ "queued" \in Statuses
  BY DEF AutoPcs, Statuses
<1>5. /\ [auto EXCEPT ![i][r] = "none"] \in [Items -> [RoundIds -> AutoPcs]]
      /\ [auto EXCEPT ![i][r] = "saving"] \in [Items -> [RoundIds -> AutoPcs]]
      /\ [tasks EXCEPT ![i] = 0] \in [Items -> 0..Lives]
      /\ [scheduledPauses EXCEPT ![i] = 0] \in [Items -> 0..Rounds]
      /\ \A j \in Items : [tasks EXCEPT ![i] = 0][j] = 0 \/ [tasks EXCEPT ![i] = 0][j] = tasks[j]
  BY <1>3, <1>4 DEF WorkOK
<1>6. CASE /\ auto[i][r] = "pausing" /\ scheduledPauses[i] = r /\ AutoPaused(i, r)
  <2>1. /\ tasks' = [tasks EXCEPT ![i] = 0] /\ UNCHANGED inst
        /\ scheduledPauses' = [scheduledPauses EXCEPT ![i] = 0]
        /\ auto' = [auto EXCEPT ![i][r] = "saving"]
        /\ status' = [status EXCEPT ![i] = "queued"] \/ UNCHANGED status
    BY <1>6 DEF AutoPaused, OffMap, SetStatus
  <2>2. WorkOK'
    BY <1>3, <1>4, <1>5, <2>1 DEF WorkOK
  <2> QED
    BY <1>1, <1>2, <1>5, <2>1, <2>2, NoCallMoves
<1>7. CASE /\ auto[i][r] = "pausing" /\ scheduledPauses[i] # r /\ AutoPaused(i, r)
  <2>1. ProcessAllQueues([tasks EXCEPT ![i] = 0], [scheduledPauses EXCEPT ![i] = 0],
                         [auto EXCEPT ![i][r] = "none"], inst)
    BY <1>7 DEF AutoPaused
  <2>2. WorkOK' /\ LimitsOK'
    BY <1>1, <1>3, <1>5, <2>1, PassAll DEF WorkOK
  <2> QED
    BY <1>1, <1>2, <2>2, NoCallMoves
<1>8. CASE AutoSaved(i, r)
  <2>1. WorkOK' /\ LimitsOK'
    BY <1>1, <1>3, <1>5, <1>8, PassAll DEF WorkOK, AutoSaved
  <2> QED
    BY <1>1, <1>2, <2>1, NoCallMoves
<1>9. CASE AutoSaveFails(i, r)
  <2>1. UNCHANGED <<status, tasks, inst, scheduledPauses>> /\ auto' = [auto EXCEPT ![i][r] = "none"]
    BY <1>9 DEF AutoSaveFails
  <2>2. WorkOK'
    BY <1>3, <1>5, <2>1 DEF WorkOK
  <2> QED
    BY <1>1, <1>2, <2>1, <2>2, NoCallMoves
<1> QED
  BY <1>6, <1>7, <1>8, <1>9 DEF AutoStep, AutoPaused

\* A tick of the clock.
LEMMA TickKeeps ==
    ASSUME Inv, Tick
    PROVE  Inv'
<1>1. UNCHANGED <<entry, order, calls>> /\ UNCHANGED <<running, open, shut, want, asked, turns>> /\ WorkOK
  BY InvParts DEF Tick, setup, bounds
<1>2. WorkOK' /\ LimitsOK'
  BY <1>1, PassAll DEF WorkOK, Tick
<1> QED
  BY <1>1, <1>2, RestStays, NoCallMoves

\* The manager starts with an empty list.
LEMMA InitInv == Init => Inv
<1> SUFFICES ASSUME Init PROVE Inv
  OBVIOUS
<1>1. WorkOK
  BY ManagerAssumption DEF Init, WorkOK, Statuses, TaskPcs, AutoPcs
<1>2. RestOK
  BY ManagerAssumption DEF Init, RestOK, NoShutdown
<1>3. CallsOK
  BY NoCallFacts DEF Init, CallsOK, Named, Naming, Additions, Addition, Workplaces, ItemOps
<1>4. PlacesOK
  <2>1. \A q \in Queues : order[q] = <<>> /\ DOMAIN order[q] = {}
    BY DEF Init
  <2>2. order \in [Queues -> Seq(Items)] /\ entry \in [Items -> {"absent", "listed", "gone"}]
    BY DEF Init
  <2>3. \A i \in Items : ~Listed(i)
    BY DEF Init, Listed
  <2>4. ItemsPlaced
    BY <2>1, <2>3 DEF ItemsPlaced, InQueue
  <2> QED
    BY <2>2, <2>4 DEF PlacesOK
<1>5. LimitsOK
  <2>1. \A i \in Items : tasks[i] = 0
    BY DEF Init
  <2>2. Active(tasks) = {}
    BY <2>1 DEF Active
  <2>3. Active(tasks) = {} /\ (\A q \in Queues : Active(tasks) \cap InQueue(q) = {}) /\ Cardinality({}) = 0
    BY <2>2, FS_EmptySet
  <2>4. MaxActive \in Nat /\ \A q \in Queues : Cap[q] \in Nat
    BY ManagerAssumption
  <2>5. WithinLimits
    BY <2>3, <2>4 DEF WithinLimits
  <2> QED
    BY <2>1, <2>5 DEF LimitsOK, Fresh
<1> QED
  BY <1>1, <1>2, <1>3, <1>4, <1>5, InvParts

\* Every step keeps the invariant.
LEMMA NextKeeps == Inv /\ [Next]_vars => Inv'
<1> SUFFICES ASSUME Inv, [Next]_vars PROVE Inv'
  OBVIOUS
<1>1. CASE UNCHANGED vars
  <2>1. UNCHANGED <<entry, order, calls>> /\ UNCHANGED <<running, open, shut, want, asked, turns>>
        /\ UNCHANGED <<status, tasks, inst, scheduledPauses, auto>>
    BY <1>1 DEF vars
  <2>2. WorkOK'
    BY <2>1, InvParts DEF WorkOK
  <2> QED
    BY <2>1, <2>2, RestStays, NoCallMoves
<1>2. CASE UserStep
  BY <1>2, AskItemKeeps, AddKeeps, StartQueueKeeps, StopQueueKeeps, ShutdownKeeps DEF UserStep
<1>3. CASE ShutStep
  BY <1>3, ShutdownPausesKeeps, ShutdownRestKeeps DEF ShutStep
<1> QED
  BY <1>1, <1>2, <1>3, TickKeeps, TurnKeeps, CallKeeps, TaskKeeps, AutoKeeps DEF Next

\* The invariant holds throughout.
LEMMA Invariance == Spec => []Inv
BY InitInv, NextKeeps, PTL DEF Spec

-----------------------------------------------------------------------------
(* What holds of every operation, however many overlap *)

\* The state of the manager is well formed whatever operations, events, faults
\* and clock ticks come in whatever order.
THEOREM TypeCorrect == Spec => []TypeOK
<1>1. Inv => TypeOK
  BY DEF Inv
<1> QED
  BY <1>1, Invariance, PTL

\* addDownload, remove and the rollback of a failed addition keep the list and
\* the queues in step: each listed item is in one place of one queue.
THEOREM ListMatchesQueues == Spec => []ItemsPlaced
<1>1. Inv => ItemsPlaced
  BY DEF Inv
<1> QED
  BY <1>1, Invariance, PTL

\* processQueue and processAllQueues never give out more tasks than
\* maxActiveDownloads, nor more in a queue than its maxConcurrent, for any
\* number of queues and items and with any operations in flight.
THEOREM LimitsHold == Spec => []WithinLimits
<1>1. Inv => WithinLimits
  BY DEF Inv
<1> QED
  BY <1>1, Invariance, PTL
-----------------------------------------------------------------------------
(* What a step does to one item *)

Known(i) == entry[i] # "absent"
Live(i, n) == inst[i][n] \notin {"reporting", "ended"}
Quiet(i) == \A n \in TaskIds : ~Transferring(i, n)
InLine(i) == status[i] \in {"queued", "added"}
Halting(i) == \E c \in 1..Slots : calls[c].pc = "halting" /\ Head(calls[c].left) = i
Adding == \E c \in 1..Slots : calls[c].op = "add"

\* A task is as it was, or its manager's handler is done with its event.
Cooled(i, n) ==
    \/ inst'[i][n] = inst[i][n]
    \/ inst[i][n] = "reporting" /\ inst'[i][n] = "ended"

\* What pause() and cancel() of the item's task in the map do to its start().
Halts(i) ==
    \A n \in TaskIds :
        \/ Cooled(i, n) /\ (n = tasks[i] => ~Transferring(i, n))
        \/ n = tasks[i] /\ inst[i][n] = "loading" /\ inst'[i][n] = "stopping"
        \/ n = tasks[i] /\ inst[i][n] = "running" /\ inst'[i][n] = "ended"

AutoSame(i) == scheduledPauses'[i] = scheduledPauses[i] /\ auto'[i] = auto[i]
AutoEbbs(i) ==
    /\ scheduledPauses'[i] \in {scheduledPauses[i], 0}
    /\ \A r \in RoundIds : \/ auto'[i][r] = auto[i][r]
                           \/ auto[i][r] = "saving" /\ auto'[i][r] = "none"
AutoLess(i) ==
    /\ scheduledPauses'[i] \in {scheduledPauses[i], 0}
    /\ \A r \in RoundIds : auto'[i][r] # "none" => auto[i][r] # "none"

\* Nothing happens to it, but for what comes to its end.
Idles(i) ==
    /\ tasks'[i] = tasks[i] /\ status'[i] = status[i]
    /\ \A n \in TaskIds : Cooled(i, n)
    /\ AutoEbbs(i)

\* A pass starts it.
Begins(i) ==
    /\ Listed(i) /\ InLine(i) /\ status'[i] = "downloading"
    /\ \E q \in Queues : running[q] /\ open[q] /\ i \in InQueue(q)
    /\ shut.pc = "no" \/ Adding
    /\ tasks[i] = 0 \/ \E r \in RoundIds : auto[i][r] = "pausing"
    /\ tasks'[i] \in TaskIds /\ ~Live(i, tasks'[i]) /\ inst'[i][tasks'[i]] = "loading"
    /\ \A n \in TaskIds : n # tasks'[i] => Cooled(i, n)
    /\ AutoLess(i)

\* A pass would start it, and cannot create its task.
Refused(i) ==
    /\ Listed(i) /\ InLine(i) /\ status'[i] = "error"
    /\ \E q \in Queues : running[q] /\ open[q] /\ i \in InQueue(q)
    /\ tasks[i] = 0 \/ \E r \in RoundIds : auto[i][r] = "pausing"
    /\ tasks'[i] = 0 /\ \A n \in TaskIds : Cooled(i, n)
    /\ AutoLess(i)

\* A pass pauses its task, since the window of its queue is closed.
Expels(i) ==
    /\ Listed(i) /\ status'[i] = "paused"
    /\ \E q \in Queues : q \in Scheduled /\ ~open[q] /\ i \in InQueue(q)
    /\ tasks[i] # 0 /\ tasks'[i] = tasks[i]
    /\ Halts(i)
    /\ \E r \in RoundIds : auto'[i][r] = "pausing"

\* An operation stops its task and waits for that.
Stops(i) ==
    /\ tasks[i] # 0 /\ tasks'[i] = tasks[i]
    /\ Halts(i)
    /\ AutoSame(i)
    /\ \E c \in 1..Slots :
          /\ calls'[c].pc = "halting" /\ Head(calls'[c].left) = i
          /\ \/ status'[i] = "paused"
             \/ status'[i] = status[i] /\ calls'[c].op \in {"cancel", "remove", "erase"}

\* shutdown() does.
QuitStops(i) ==
    /\ tasks[i] # 0 /\ tasks'[i] = tasks[i] /\ status'[i] = "paused"
    /\ Halts(i)
    /\ AutoEbbs(i)
    /\ shut'.pc = "pausing" /\ i \in shut'.halting

\* Its task leaves the map, for an operation,
OperationClears(i) ==
    /\ \E c \in 1..Slots :
          /\ calls[c].pc = "halting" /\ Head(calls[c].left) = i
          /\ \/ calls[c].op \in {"pause", "stopQueue"} /\ status'[i] = status[i]
             \/ calls[c].op \in {"cancel", "remove", "erase"}
                    /\ \/ status'[i] = "cancelled"
                       \/ status'[i] = status[i] /\ ~Listed(i)'
    /\ AutoSame(i)

\* an automatic pause,
AutoClears(i) ==
    /\ \E r \in RoundIds : auto[i][r] = "pausing"
    /\ \/ status'[i] = status[i]
       \/ status[i] = "paused" /\ status'[i] = "queued"
    /\ AutoLess(i)

\* or shutdown().
QuitClears(i) ==
    /\ i \in shut.halting /\ status'[i] = status[i]
    /\ AutoSame(i)

Clears(i) ==
    /\ tasks'[i] = 0 /\ inst'[i] = inst[i]
    /\ OperationClears(i) \/ AutoClears(i) \/ QuitClears(i)

\* An event of one of its tasks.
Happens(i) ==
    /\ AutoSame(i)
    /\ \E n \in TaskIds :
          /\ \A m \in TaskIds : m # n => inst'[i][m] = inst[i][m]
          /\ \/ /\ inst[i][n] = "loading" /\ inst'[i][n] = "running"
                /\ status'[i] = "downloading" /\ tasks'[i] = tasks[i]
             \/ /\ inst[i][n] = "stopping" /\ inst'[i][n] = "ended"
                /\ status'[i] = status[i] /\ tasks'[i] = tasks[i]
             \/ /\ "open" \in Faults
                /\ inst[i][n] \in {"loading", "stopping"} /\ inst'[i][n] = "reporting"
                /\ status'[i] = "error" /\ tasks'[i] = 0
             \/ /\ inst[i][n] = "running" /\ inst'[i][n] \in {"finishing", "failing"}
                /\ status'[i] \in {"completed", "error"} /\ tasks'[i] = tasks[i]
             \/ /\ inst[i][n] \in {"finishing", "failing"} /\ inst'[i][n] = "reporting"
                /\ status'[i] = status[i] /\ tasks'[i] = 0

\* An operation that changes the item alone.
Marks(i) ==
    /\ tasks'[i] = tasks[i] /\ inst'[i] = inst[i]
    /\ AutoSame(i)
    /\ \/ tasks[i] = 0 /\ Known(i) /\ status'[i] \in {"paused", "cancelled"}
          /\ (status'[i] = "paused" => InLine(i))
       \/ /\ status'[i] = "cancelled"
          /\ \E c \in 1..Slots : calls[c].pc = "erasing" /\ Head(calls[c].left) = i
       \/ /\ Known(i) /\ status'[i] = "queued" /\ ~(i \in Protected /\ status[i] = "cancelled")
          /\ \/ want'[i] = "run" /\ (Serial => AtRest(i) /\ ~Busy(i))
             \/ \E c \in 1..Slots : /\ calls[c].pc = "settle" /\ Head(calls[c].left) = i
                                    /\ calls[c].op = "resume"
       \/ ~Known(i) /\ Known(i)' /\ InLine(i)'

ItemMoves(i) ==
    \/ Idles(i) \/ Begins(i) \/ Expels(i) \/ Stops(i) \/ QuitStops(i)
    \/ Clears(i) \/ Happens(i) \/ Marks(i) \/ Refused(i)

\* What stopping a task does to its start().
LEMMA HaltPcFacts ==
    ASSUME NEW pc \in TaskPcs
    PROVE  /\ pc = "loading" => HaltPc(pc) = "stopping"
           /\ pc = "running" => HaltPc(pc) = "ended"
           /\ pc \notin {"loading", "running"} => HaltPc(pc) = pc
BY DEF HaltPc, TaskPcs

\* The task of the map is stopped.
LEMMA HaltIsHalts ==
    ASSUME Inv, NEW i \in Items, inst' = Halt(inst, i, tasks[i])
    PROVE  Halts(i)
<1> SUFFICES ASSUME NEW n \in TaskIds
             PROVE  \/ Cooled(i, n) /\ (n = tasks[i] => ~Transferring(i, n))
                    \/ n = tasks[i] /\ inst[i][n] = "loading" /\ inst'[i][n] = "stopping"
                    \/ n = tasks[i] /\ inst[i][n] = "running" /\ inst'[i][n] = "ended"
  BY DEF Halts
<1>1. inst[i][n] \in TaskPcs
  BY DEF Inv, TypeOK
<1>2. inst'[i][n] = IF n = tasks[i] THEN HaltPc(inst[i][n]) ELSE inst[i][n]
  BY DEF Halt, Inv, TypeOK
<1> QED
  BY <1>1, <1>2, HaltPcFacts DEF Cooled, Transferring

\* The maps from which a pass starts, next to the present ones: they differ in a
\* task and an automatic pause that come to their end, or the item's task has
\* left the map after its automatic pause.
Agree(i, t, sp, au, ts) ==
    /\ t[i] = tasks[i] /\ sp[i] = scheduledPauses[i]
    /\ \A r \in RoundIds : \/ au[i][r] = auto[i][r]
                           \/ auto[i][r] = "saving" /\ au[i][r] = "none"
    /\ \A n \in TaskIds : \/ ts[i][n] = inst[i][n]
                          \/ inst[i][n] = "reporting" /\ ts[i][n] = "ended"
Freed(i, t, sp, au, ts) ==
    /\ t[i] = 0 /\ sp[i] = 0 /\ ts[i] = inst[i]
    /\ \E r \in RoundIds : auto[i][r] = "pausing"
    /\ \A r \in RoundIds : au[i][r] # "none" => auto[i][r] # "none"

\* A pass from maps that agree with the present ones on an item leaves it
\* alone, starts it or expels it.
LEMMA PassMoves ==
    ASSUME Inv, NEW Q \in SUBSET Queues, NEW P \in SUBSET Items,
           NEW t \in [Items -> 0..Lives], NEW sp \in [Items -> 0..Rounds],
           NEW au \in [Items -> [RoundIds -> AutoPcs]], NEW ts \in [Items -> [TaskIds -> TaskPcs]],
           Pass(Q, P, t, sp, au, ts), P \subseteq Expelled(t, sp),
           \A q \in Q : running[q] /\ open[q], shut.pc = "no" \/ Adding,
           NEW i \in Items
    PROVE  /\ Agree(i, t, sp, au, ts) => Idles(i) \/ Begins(i) \/ Refused(i) \/ Expels(i)
           /\ Freed(i, t, sp, au, ts) => Clears(i) \/ Begins(i) \/ Refused(i)
<1>0. PICK S \in SUBSET Items, U \in SUBSET Items :
          U \subseteq S /\ Startable(S, U, Q, t) /\ Reassign(S \ U, U, P, t, sp, au, ts)
  BY DEF Pass, Uncreatable
<1> DEFINE C == S \ U
           m == Least(FreeTasks(i, ts))
           k == Least(FreeRounds(i, au))
<1>1. /\ tasks'[i] = IF i \in C THEN m ELSE t[i]
      /\ scheduledPauses'[i] = IF i \in P THEN k ELSE sp[i]
      /\ status'[i] = IF i \in C THEN "downloading" ELSE IF i \in U THEN "error"
                      ELSE IF i \in P THEN "paused" ELSE status[i]
      /\ \A n \in TaskIds : inst'[i][n] = IF i \in C /\ n = m THEN "loading"
                                          ELSE IF i \in P /\ n = t[i] THEN HaltPc(ts[i][n]) ELSE ts[i][n]
      /\ \A r \in RoundIds : auto'[i][r] = IF i \in P /\ r = k THEN "pausing" ELSE au[i][r]
  BY <1>0 DEF Reassign
<1>2. i \in C => m \in TaskIds /\ ts[i][m] = "ended"
  <2>1. FreeTasks(i, ts) \in SUBSET Nat /\ (i \in C => FreeTasks(i, ts) # {})
    BY <1>0 DEF Reassign, FreeTasks, TaskIds
  <2>2. i \in C => m \in FreeTasks(i, ts)
    BY <2>1, LeastIn
  <2> QED
    BY <2>2 DEF FreeTasks
<1>3. i \in P => k \in RoundIds
  <2>1. FreeRounds(i, au) \in SUBSET RoundIds /\ RoundIds \in SUBSET Nat
    BY DEF FreeRounds, RoundIds
  <2>2. i \in P => FreeRounds(i, au) # {}
    BY <1>0 DEF Reassign
  <2> QED
    BY <2>1, <2>2, LeastIn
<1>4. i \in P => /\ t[i] # 0 /\ Listed(i)
                 /\ \E q \in Queues : q \in Scheduled /\ ~open[q] /\ i \in InQueue(q)
  BY ManagerAssumption DEF Expelled
<1>5. i \in S => /\ t[i] = 0 /\ Listed(i) /\ InLine(i)
                 /\ \E q \in Queues : running[q] /\ open[q] /\ i \in InQueue(q)
  <2>1. SUFFICES ASSUME i \in S
                 PROVE  /\ t[i] = 0 /\ Listed(i) /\ InLine(i)
                        /\ \E q \in Queues : running[q] /\ open[q] /\ i \in InQueue(q)
    OBVIOUS
  <2>2. PICK q \in Q : i \in InQueue(q)
    BY <1>0, <2>1 DEF Startable
  <2>3. PICK n : i \in FirstWaiting(q, n) \ Active(t)
    BY <1>0, <2>1, <2>2 DEF Startable
  <2>4. i \in Waiting(q) /\ i \notin Active(t)
    BY <2>3 DEF FirstWaiting
  <2> QED
    BY <2>2, <2>4 DEF Waiting, Active, InLine
<1>6. ~(i \in S /\ i \in P) /\ (i \in C => i \in S) /\ (i \in U => i \in S)
  <2>1. ~(i \in S /\ i \in P)
    BY <1>4, <1>5
  <2>2. (i \in C => i \in S) /\ (i \in U => i \in S)
    BY <1>0
  <2> QED
    BY <2>1, <2>2
<1> HIDE DEF m, k, C
<1>7. \A n \in TaskIds : inst[i][n] \in TaskPcs /\ ts[i][n] \in TaskPcs
  BY DEF Inv, TypeOK
<1>8. ASSUME Agree(i, t, sp, au, ts)
      PROVE  Idles(i) \/ Begins(i) \/ Refused(i) \/ Expels(i)
  <2>1. CASE i \in C
    <3>1. AutoLess(i)
      BY <1>1, <1>6, <1>8, <2>1 DEF AutoLess, Agree
    <3>2. \A n \in TaskIds : n # tasks'[i] => Cooled(i, n)
      BY <1>1, <1>6, <1>8, <2>1 DEF Cooled, Agree
    <3> QED
      BY <1>1, <1>2, <1>5, <1>6, <1>8, <2>1, <3>1, <3>2 DEF Begins, Live, Agree
  <2>2. CASE i \in P
    <3>1. Halts(i)
      <4> SUFFICES ASSUME NEW n \in TaskIds
                   PROVE  \/ Cooled(i, n) /\ (n = tasks[i] => ~Transferring(i, n))
                          \/ n = tasks[i] /\ inst[i][n] = "loading" /\ inst'[i][n] = "stopping"
                          \/ n = tasks[i] /\ inst[i][n] = "running" /\ inst'[i][n] = "ended"
        BY DEF Halts
      <4>1. inst'[i][n] = IF n = tasks[i] THEN HaltPc(ts[i][n]) ELSE ts[i][n]
        BY <1>1, <1>6, <1>8, <2>2 DEF Agree
      <4> QED
        BY <1>7, <1>8, <4>1, HaltPcFacts DEF Cooled, Transferring, Agree
    <3>2. \E r \in RoundIds : auto'[i][r] = "pausing"
      BY <1>1, <1>3, <2>2
    <3>3. tasks'[i] = tasks[i] /\ status'[i] = "paused" /\ tasks[i] # 0
      BY <1>1, <1>4, <1>6, <1>8, <2>2 DEF Agree
    <3> QED
      BY <1>4, <2>2, <3>1, <3>2, <3>3 DEF Expels
  <2>3. CASE i \notin C /\ i \notin U /\ i \notin P
    BY <1>1, <1>8, <2>3 DEF Idles, Cooled, AutoEbbs, Agree
  <2>4. CASE i \in U /\ i \notin C
    <3>1. AutoLess(i) /\ \A n \in TaskIds : Cooled(i, n)
      BY <1>1, <1>6, <1>8, <2>4 DEF AutoLess, Cooled, Agree
    <3> QED
      BY <1>1, <1>5, <1>6, <1>8, <2>4, <3>1 DEF Refused, Agree
  <2> QED
    BY <2>1, <2>2, <2>3, <2>4
<1>9. ASSUME Freed(i, t, sp, au, ts)
      PROVE  Clears(i) \/ Begins(i) \/ Refused(i)
  <2>1. i \notin P
    BY <1>4, <1>9 DEF Freed
  <2>2. AutoLess(i)
    BY <1>1, <1>9, <2>1 DEF AutoLess, Freed
  <2>3. CASE i \in C
    <3>1. \A n \in TaskIds : n # tasks'[i] => Cooled(i, n)
      BY <1>1, <1>9, <2>1, <2>3 DEF Cooled, Freed
    <3> QED
      BY <1>1, <1>2, <1>5, <1>6, <1>9, <2>2, <2>3, <3>1 DEF Begins, Live, Freed
  <2>5. CASE i \in U /\ i \notin C
    <3>1. \A n \in TaskIds : Cooled(i, n)
      BY <1>1, <1>9, <2>1, <2>5 DEF Cooled, Freed
    <3> QED
      BY <1>1, <1>5, <1>6, <1>9, <2>2, <2>5, <3>1 DEF Refused, Freed
  <2>4. CASE i \notin C /\ i \notin U
    <3>1. tasks'[i] = 0 /\ status'[i] = status[i]
      BY <1>1, <1>9, <2>1, <2>4 DEF Freed
    <3>2. inst'[i] = inst[i]
      <4>1. inst' = [j \in Items |-> [n \in TaskIds |->
                        IF j \in C /\ n = Least(FreeTasks(j, ts)) THEN "loading"
                        ELSE IF j \in P /\ n = t[j] THEN HaltPc(ts[j][n]) ELSE ts[j][n]]]
        BY <1>0 DEF Reassign, C
      <4>2. inst'[i] = [n \in TaskIds |-> ts[i][n]]
        BY <2>1, <2>4, <4>1
      <4>3. ts[i] = [n \in TaskIds |-> ts[i][n]]
        OBVIOUS
      <4> QED
        BY <1>9, <4>2, <4>3 DEF Freed
    <3> QED
      BY <1>9, <2>2, <3>1, <3>2 DEF Clears, AutoClears, Freed
  <2> QED
    BY <2>3, <2>4, <2>5
<1> QED
  BY <1>8, <1>9

\* So does a pass over all queues.
LEMMA PassAllMoves ==
    ASSUME Inv, NEW t \in [Items -> 0..Lives], NEW sp \in [Items -> 0..Rounds],
           NEW au \in [Items -> [RoundIds -> AutoPcs]], NEW ts \in [Items -> [TaskIds -> TaskPcs]],
           ProcessAllQueues(t, sp, au, ts), NEW i \in Items
    PROVE  /\ Agree(i, t, sp, au, ts) => Idles(i) \/ Begins(i) \/ Refused(i) \/ Expels(i)
           /\ Freed(i, t, sp, au, ts) => Clears(i) \/ Begins(i) \/ Refused(i)
<1>1. CASE shut.pc = "no"
  <2>1. Pass({q \in Queues : running[q] /\ open[q]}, Expelled(t, sp), t, sp, au, ts)
    BY <1>1 DEF ProcessAllQueues
  <2> DEFINE Q == {q \in Queues : running[q] /\ open[q]}
             P == Expelled(t, sp)
  <2>2. P \in SUBSET Items /\ P \subseteq Expelled(t, sp)
    <3>1. \A q \in Scheduled : InQueue(q) \subseteq Items
      BY Finiteness, ManagerAssumption DEF Inv
    <3> QED
      BY <3>1 DEF Expelled
  <2>3. Q \in SUBSET Queues /\ \A q \in Q : running[q] /\ open[q]
    OBVIOUS
  <2>4. Pass(Q, P, t, sp, au, ts)
    BY <2>1
  <2> HIDE DEF P, Q
  <2> QED
    BY <1>1, <2>2, <2>3, <2>4, PassMoves
<1>2. CASE shut.pc # "no"
  <2>1. tasks' = t /\ scheduledPauses' = sp /\ auto' = au /\ inst' = ts /\ UNCHANGED status
    BY <1>2 DEF ProcessAllQueues
  <2> QED
    BY <2>1 DEF Agree, Freed, Idles, Cooled, AutoEbbs, Clears, AutoClears, AutoLess
<1> QED
  BY <1>1, <1>2

\* And a pass over the queue of an addition.
LEMMA PassOneMoves ==
    ASSUME Inv, NEW q \in Queues, ProcessQueue(q), Adding, NEW i \in Items
    PROVE  Idles(i) \/ Begins(i) \/ Refused(i) \/ Expels(i)
<1>0. WorkOK
  BY InvParts
<1>1. CASE running[q] /\ open[q]
  <2>1. Pass({q}, {}, tasks, scheduledPauses, auto, inst)
    BY <1>1 DEF ProcessQueue
  <2> DEFINE Q == {q}
             P == {}
  <2>2. Q \in SUBSET Queues /\ P \in SUBSET Items /\ P \subseteq Expelled(tasks, scheduledPauses)
        /\ \A p \in Q : running[p] /\ open[p]
    BY <1>1
  <2>3. Pass(Q, P, tasks, scheduledPauses, auto, inst)
    BY <2>1
  <2>4. Agree(i, tasks, scheduledPauses, auto, inst)
    BY DEF Agree
  <2> HIDE DEF P, Q
  <2> QED
    BY <1>0, <2>2, <2>3, <2>4, PassMoves DEF WorkOK
<1>2. CASE ~(running[q] /\ open[q])
  <2>1. UNCHANGED <<work, status>>
    BY <1>2 DEF ProcessQueue
  <2> QED
    BY <2>1 DEF work, Idles, Cooled, AutoEbbs
<1> QED
  BY <1>1, <1>2

\* A step that leaves the item's tasks, status and automatic pauses alone.
LEMMA StillIdles ==
    ASSUME UNCHANGED <<status, tasks, inst, scheduledPauses, auto>>
    PROVE  \A i : Idles(i)
BY DEF Idles, Cooled, AutoEbbs

\* A step that changes these of another item only.
LEMMA OthersIdle ==
    ASSUME NEW i, tasks'[i] = tasks[i], status'[i] = status[i], inst'[i] = inst[i],
           scheduledPauses'[i] = scheduledPauses[i], auto'[i] = auto[i]
    PROVE  Idles(i)
BY DEF Idles, Cooled, AutoEbbs

\* An operation waits for a task to stop only once it has stopped it, and gives
\* up waiting only if the task's file cannot be removed.
HaltsKept ==
    /\ \A i \in Items : Halting(i)' => Halting(i) \/ Stops(i)
    /\ "rm" \notin Faults => \A i \in Items : Halting(i) => Halting(i)' \/ tasks'[i] = 0

StepMoves == (\A i \in Items : ItemMoves(i)) /\ HaltsKept

\* A step that no operation takes.
LEMMA CallsStill ==
    ASSUME UNCHANGED calls
    PROVE  HaltsKept
BY DEF HaltsKept, Halting

\* Where an operation goes, it takes its items.
LEMMA GoneTo ==
    ASSUME Inv, NEW c \in 1..Slots, NEW call \in Call, NEW pc \in CallPcs, Goto(c, call, pc)
    PROVE  /\ calls'[c].pc = pc /\ calls'[c].left = call.left /\ calls'[c].op = call.op
              /\ calls'[c].q = call.q
           /\ \A d \in 1..Slots : d # c => calls'[d] = calls[d]
<1>1. 0 \in 0..Rounds /\ calls \in [1..Slots -> Call]
  BY ManagerAssumption DEF Inv, TypeOK
<1>2. PICK new : new = [call EXCEPT !.pc = pc, !.wait = 0]
  OBVIOUS
<1>3. new.pc = pc /\ new.left = call.left /\ new.op = call.op /\ new.q = call.q
  <2>1. call \in [op: Ops \cup {"none"}, q: Queues, left: Seq(Items), pc: CallPcs, wait: 0..Rounds]
    BY DEF Call
  <2> QED
    BY <1>1, <1>2, <2>1, Moves
<1>4. calls' = [calls EXCEPT ![c] = new]
  BY <1>2 DEF Goto
<1> QED
  BY <1>1, <1>3, <1>4

\* An operation that goes on or returns without waiting for a task.
LEMMA NotHalting ==
    ASSUME Inv, NEW c \in 1..Slots, calls'[c].pc # "halting",
           \A d \in 1..Slots : d # c => calls'[d] = calls[d],
           calls[c].pc = "halting" => "rm" \in Faults \/ tasks'[Head(calls[c].left)] = 0
    PROVE  HaltsKept
BY DEF HaltsKept, Halting

\* One that waits for the task it has stopped.
LEMMA NowHalting ==
    ASSUME Inv, NEW c \in 1..Slots, NEW i \in Items, calls'[c].pc = "halting", Head(calls'[c].left) = i,
           \A d \in 1..Slots : d # c => calls'[d] = calls[d],
           calls[c].pc # "halting", Stops(i)
    PROVE  HaltsKept
BY DEF HaltsKept, Halting

\* An operation that returns leaves its slot.
LEMMA Returned ==
    ASSUME Inv, NEW c \in 1..Slots, Return(c)
    PROVE  calls'[c] = NoCall /\ \A d \in 1..Slots : d # c => calls'[d] = calls[d]
BY DEF Return, Inv, TypeOK

\* One item changes, in a step that leaves the others alone.
Alone(i) ==
    \A j \in Items \ {i} :
        /\ tasks'[j] = tasks[j] /\ status'[j] = status[j] /\ inst'[j] = inst[j]
        /\ scheduledPauses'[j] = scheduledPauses[j] /\ auto'[j] = auto[j]

\* What moves one item alone leaves the others where they are.
LEMMA AloneMoves ==
    ASSUME NEW i \in Items, Alone(i), ItemMoves(i)
    PROVE  \A j \in Items : ItemMoves(j)
<1> SUFFICES ASSUME NEW j \in Items, j # i PROVE ItemMoves(j)
  OBVIOUS
<1>1. Idles(j)
  BY OthersIdle DEF Alone
<1> QED
  BY <1>1 DEF ItemMoves

\* The task of an item is stopped and waited for.
LEMMA StopMoves ==
    ASSUME Inv, NEW c \in 1..Slots, NEW i \in Items, NEW call, OnItem(call), Head(call.left) = i,
           calls[c].pc # "halting", tasks[i] # 0, UNCHANGED <<tasks, scheduledPauses, auto>>,
           inst' = Halt(inst, i, tasks[i]), Goto(c, call, "halting"),
           \/ SetStatus(i, "paused")
           \/ UNCHANGED status /\ call.op \in {"cancel", "remove", "erase"}
    PROVE  StepMoves
<1>1. /\ calls'[c].pc = "halting" /\ Head(calls'[c].left) = i /\ calls'[c].op = call.op
      /\ \A d \in 1..Slots : d # c => calls'[d] = calls[d]
  BY GoneTo, Places DEF OnItem
<1>2. Halts(i)
  BY HaltIsHalts
<1>3. \/ status'[i] = "paused"
      \/ status'[i] = status[i] /\ call.op \in {"cancel", "remove", "erase"}
  BY DEF SetStatus, Inv, TypeOK
<1>4. Stops(i)
  BY <1>1, <1>2, <1>3 DEF Stops, AutoSame
<1>5. Alone(i)
  BY DEF Alone, SetStatus, Halt, Inv, TypeOK
<1> QED
  BY <1>1, <1>4, <1>5, AloneMoves, NowHalting DEF StepMoves, ItemMoves

\* An operation changes an item that has no task in its way, or none.
LEMMA MarkMoves ==
    ASSUME Inv, NEW c \in 1..Slots, NEW i \in Items, HaltsKept, UNCHANGED <<tasks, inst, scheduledPauses, auto>>,
           \/ UNCHANGED status
           \/ (\A j \in Items \ {i} : status'[j] = status[j]) /\ Marks(i)
    PROVE  StepMoves
<1>1. CASE UNCHANGED status
  BY <1>1, StillIdles DEF StepMoves, ItemMoves
<1>2. CASE (\A j \in Items \ {i} : status'[j] = status[j]) /\ Marks(i)
  <2>1. Alone(i)
    BY <1>2 DEF Alone
  <2> QED
    BY <1>2, <2>1, AloneMoves DEF StepMoves, ItemMoves
<1> QED
  BY <1>1, <1>2

\* settleScheduledPause
LEMMA SettleMoves ==
    ASSUME Inv, NEW c \in 1..Slots, NEW i \in Items, NEW call, OnItem(call), calls[c].pc # "halting",
           Settle(c, call, i)
    PROVE  StepMoves
<1>1. calls' = [calls EXCEPT ![c] = [call EXCEPT !.pc = "settle", !.wait = scheduledPauses[i]]]
      /\ UNCHANGED <<status, tasks, inst, auto>> /\ scheduledPauses' = [scheduledPauses EXCEPT ![i] = 0]
  BY DEF Settle
<1>2. /\ calls'[c].pc = "settle"
      /\ \A d \in 1..Slots : d # c => calls'[d] = calls[d]
  <2>1. calls \in [1..Slots -> Call] /\ call \in Call
    BY DEF Inv, TypeOK, OnItem
  <2>2. PICK new : new = [call EXCEPT !.pc = "settle", !.wait = scheduledPauses[i]]
    OBVIOUS
  <2>3. new.pc = "settle"
    BY <2>1, <2>2 DEF Call
  <2> QED
    BY <1>1, <2>1, <2>2, <2>3
<1>3. \A j \in Items : Idles(j)
  BY <1>1 DEF Idles, Cooled, AutoEbbs, Inv, TypeOK
<1> QED
  BY <1>2, <1>3, NotHalting DEF StepMoves, ItemMoves

\* pause
LEMMA PauseMoves ==
    ASSUME Inv, NEW c \in 1..Slots, NEW i \in Items, NEW call, OnItem(call), Head(call.left) = i,
           calls[c].pc # "halting", PauseActs(c, call, i)
    PROVE  StepMoves
<1>1. CASE tasks[i] # 0 /\ SetStatus(i, "paused") /\ inst' = Halt(inst, i, tasks[i])
           /\ Goto(c, call, "halting") /\ UNCHANGED <<entry, order, tasks, scheduledPauses, auto>>
  BY <1>1, StopMoves
<1>2. CASE tasks[i] = 0 /\ UNCHANGED inst /\ Goto(c, call, "saving")
           /\ UNCHANGED <<entry, order, tasks, scheduledPauses, auto>>
  <2>1. HaltsKept
    BY <1>2, GoneTo, NotHalting, Places DEF OnItem
  <2>2. UNCHANGED status \/ (Listed(i) /\ InLine(i) /\ SetStatus(i, "paused"))
    BY <1>2 DEF PauseActs, InLine
  <2>3. CASE Listed(i) /\ InLine(i) /\ SetStatus(i, "paused")
    <3>1. status'[i] = "paused" /\ \A j \in Items \ {i} : status'[j] = status[j]
      BY <2>3 DEF SetStatus, Inv, TypeOK
    <3>2. Marks(i)
      BY <1>2, <2>3, <3>1 DEF Marks, AutoSame, Known, Listed
    <3> QED
      BY <1>2, <2>1, <3>1, <3>2, MarkMoves
  <2> QED
    BY <1>2, <2>1, <2>2, <2>3, MarkMoves
<1> QED
  BY <1>1, <1>2 DEF PauseActs

\* resume and retry
LEMMA ResumeMoves ==
    ASSUME Inv, NEW c \in 1..Slots, NEW i \in Items, NEW call, OnItem(call), Head(call.left) = i,
           calls[c].pc # "halting", ResumeActs(c, call, i),
           \/ want'[i] = "run" /\ (Serial => AtRest(i) /\ ~Busy(i))
           \/ calls[c].pc = "settle" /\ Head(calls[c].left) = i /\ calls[c].op = "resume"
    PROVE  StepMoves
<1>1. UNCHANGED <<tasks, inst, scheduledPauses, auto>>
  BY DEF ResumeActs, work
<1>2. CASE /\ Listed(i) /\ ~(i \in Protected /\ status[i] = "cancelled")
           /\ SetStatus(i, "queued") /\ Goto(c, call, "saving")
  <2>1. HaltsKept
    BY <1>2, GoneTo, NotHalting, Places DEF OnItem
  <2>2. status'[i] = "queued" /\ \A j \in Items \ {i} : status'[j] = status[j]
    BY <1>2 DEF SetStatus, Inv, TypeOK
  <2>3. Marks(i)
    BY <1>1, <1>2, <2>2 DEF Marks, AutoSame, Known, Listed
  <2> QED
    BY <1>1, <2>1, <2>2, <2>3, MarkMoves
<1>3. CASE UNCHANGED status /\ Return(c)
  BY <1>1, <1>3, Returned, NoCallFacts, NotHalting, MarkMoves
<1> QED
  BY <1>2, <1>3 DEF ResumeActs

\* cancel
LEMMA CancelMoves ==
    ASSUME Inv, NEW c \in 1..Slots, NEW i \in Items, NEW call, OnItem(call), Head(call.left) = i,
           calls[c].pc # "halting", CancelActs(c, call, i), call.op = "cancel"
    PROVE  StepMoves
<1>1. CASE tasks[i] # 0 /\ UNCHANGED status /\ inst' = Halt(inst, i, tasks[i])
           /\ Goto(c, call, "halting") /\ UNCHANGED <<entry, order, tasks, scheduledPauses, auto>>
  BY <1>1, StopMoves
<1>2. CASE tasks[i] = 0 /\ UNCHANGED inst /\ Goto(c, call, "saving")
           /\ UNCHANGED <<entry, order, tasks, scheduledPauses, auto>>
  <2>1. HaltsKept
    BY <1>2, GoneTo, NotHalting, Places DEF OnItem
  <2>2. UNCHANGED status \/ (Listed(i) /\ SetStatus(i, "cancelled"))
    BY <1>2 DEF CancelActs
  <2>3. CASE Listed(i) /\ SetStatus(i, "cancelled")
    <3>1. status'[i] = "cancelled" /\ \A j \in Items \ {i} : status'[j] = status[j]
      BY <2>3 DEF SetStatus, Inv, TypeOK
    <3>2. Marks(i)
      BY <1>2, <2>3, <3>1 DEF Marks, AutoSame, Known, Listed
    <3> QED
      BY <1>2, <2>1, <3>1, <3>2, MarkMoves
  <2> QED
    BY <1>2, <2>1, <2>2, <2>3, MarkMoves
<1> QED
  BY <1>1, <1>2 DEF CancelActs

\* What remove() does to the record once no task is in the way.
LEMMA EntryFacts ==
    ASSUME Inv, NEW c \in 1..Slots, NEW i \in Items, NEW call, OnItem(call), RemoveEntry(c, call, i)
    PROVE  /\ calls'[c].pc \in {"saving", "marking"} /\ calls'[c].left = call.left
              /\ calls'[c].op = call.op
           /\ \A d \in 1..Slots : d # c => calls'[d] = calls[d]
           /\ \A j \in Items \ {i} : status'[j] = status[j]
           /\ \/ Listed(i) /\ status'[i] = "cancelled" /\ calls'[c].pc = "marking"
              \/ UNCHANGED status /\ ~Listed(i)' /\ calls'[c].pc = "saving"
<1>1. CASE Listed(i) /\ SetStatus(i, "cancelled") /\ Goto(c, call, "marking")
  <2>1. status'[i] = "cancelled" /\ \A j \in Items \ {i} : status'[j] = status[j]
    BY <1>1 DEF SetStatus, Inv, TypeOK
  <2> QED
    BY <1>1, <2>1, GoneTo, Places DEF OnItem
<1>2. CASE Unlist(c, call, i) /\ UNCHANGED status
  <2>1. Goto(c, call, "saving")
    BY <1>2 DEF Unlist
  <2>2. ~Listed(i)'
    BY <1>2 DEF Unlist, Listed, Inv, TypeOK
  <2> QED
    BY <1>2, <2>1, <2>2, GoneTo, Places DEF OnItem
<1> QED
  BY <1>1, <1>2 DEF RemoveEntry

\* remove
LEMMA RemoveMoves ==
    ASSUME Inv, NEW c \in 1..Slots, NEW i \in Items, NEW call, OnItem(call), Head(call.left) = i,
           calls[c].pc # "halting", RemoveActs(c, call, i), call.op \in {"remove", "erase"}
    PROVE  StepMoves
<1>1. CASE tasks[i] # 0 /\ UNCHANGED status /\ inst' = Halt(inst, i, tasks[i])
           /\ Goto(c, call, "halting") /\ UNCHANGED <<tasks, scheduledPauses, auto>>
  BY <1>1, StopMoves
<1>2. CASE Goto(c, call, "erasing") /\ UNCHANGED <<status, tasks, inst, scheduledPauses, auto>>
  BY <1>2, GoneTo, NotHalting, MarkMoves, Places DEF OnItem
<1>3. CASE tasks[i] = 0 /\ RemoveEntry(c, call, i) /\ UNCHANGED <<tasks, inst, scheduledPauses, auto>>
  <2>1. HaltsKept
    BY <1>3, EntryFacts, NotHalting
  <2>2. CASE Listed(i) /\ status'[i] = "cancelled"
    <3>1. Marks(i)
      BY <1>3, <2>2 DEF Marks, AutoSame, Known, Listed
    <3> QED
      BY <1>3, <2>1, <3>1, EntryFacts, MarkMoves
  <2>3. CASE UNCHANGED status
    BY <1>3, <2>1, <2>3, MarkMoves
  <2> QED
    BY <1>3, <2>2, <2>3, EntryFacts
<1> QED
  BY <1>1, <1>2, <1>3 DEF RemoveActs

\* What stopQueue's loop does to its place in the queue.
LEMMA TailGone ==
    ASSUME Inv, NEW c \in 1..Slots, NEW call, OnItem(call),
           Goto(c, [call EXCEPT !.left = Tail(@)], "next")
    PROVE  /\ calls'[c].pc = "next" /\ calls'[c].left = Tail(call.left) /\ calls'[c].op = call.op
              /\ calls'[c].q = call.q
           /\ \A d \in 1..Slots : d # c => calls'[d] = calls[d]
<1> DEFINE rest == [call EXCEPT !.left = Tail(@)]
<1>1. call.left \in Seq(Items) /\ call.left # <<>> /\ call \in Call
  BY DEF OnItem, Call
<1>2. Tail(call.left) \in Seq(Items)
  BY <1>1
<1>3. rest = [call EXCEPT !.left = Tail(call.left)]
  BY <1>1 DEF Call
<1>4. rest \in Call /\ rest.op = call.op /\ rest.left = Tail(call.left) /\ rest.q = call.q
  BY <1>1, <1>2, <1>3 DEF Call
<1>5. Goto(c, rest, "next")
  OBVIOUS
<1> HIDE DEF rest
<1> QED
  BY <1>4, <1>5, GoneTo, Places

\* stopQueue, one item
LEMMA StopItemMoves ==
    ASSUME Inv, NEW c \in 1..Slots, NEW i \in Items, NEW call, OnItem(call), Head(call.left) = i,
           calls[c].pc # "halting", StopActs(c, call, i)
    PROVE  StepMoves
<1>1. CASE tasks[i] # 0 /\ SetStatus(i, "paused") /\ inst' = Halt(inst, i, tasks[i])
           /\ Goto(c, call, "halting") /\ UNCHANGED <<tasks, scheduledPauses, auto>>
  BY <1>1, StopMoves
<1>2. CASE UNCHANGED <<status, tasks, inst, scheduledPauses, auto>>
           /\ Goto(c, [call EXCEPT !.left = Tail(@)], "next")
  BY <1>2, TailGone, NotHalting, MarkMoves
<1> QED
  BY <1>1, <1>2 DEF StopActs

\* An operation, asked for or after the item's automatic pause.
LEMMA ActMoves ==
    ASSUME Inv, NEW c \in 1..Slots, NEW i \in Items, NEW call, OnItem(call), Head(call.left) = i,
           calls[c].pc # "halting", Act(c, call, i),
           \/ call.op = "resume" => want'[i] = "run" /\ (Serial => AtRest(i) /\ ~Busy(i))
           \/ calls[c].pc = "settle" /\ Head(calls[c].left) = i /\ calls[c] = call
    PROVE  StepMoves
BY PauseMoves, ResumeMoves, CancelMoves, RemoveMoves, StopItemMoves DEF Act

-----------------------------------------------------------------------------
(* Where the operations go *)

\* The operations and the awaits they can be at.
Shape(call) ==
    \/ call = NoCall
    \/ call.op \in {"add", "addLater"} /\ call.pc = "saving"
    \/ call.op = "startQueue" /\ call.pc = "saving" /\ call.left = <<>>
    \/ call.op = "stopQueue" /\ call.pc \in {"next", "settle", "halting"}
    \/ call.op = "stopQueue" /\ call.pc = "saving" /\ call.left = <<>>
    \/ /\ call.op \in ItemOps /\ Len(call.left) = 1
       /\ \/ call.pc \in {"settle", "saving"}
          \/ call.pc = "halting" /\ call.op # "resume"
          \/ call.pc = "vault" /\ call.op \in {"cancel", "remove", "erase"}
          \/ call.pc \in {"erasing", "marking"} /\ call.op \in {"remove", "erase"}

Shapes == \A c \in 1..Slots : Shape(calls[c])

\* settleScheduledPause, then the operation.
LEMMA OperationMoves ==
    ASSUME Inv, NEW c \in 1..Slots, NEW i \in Items, NEW call, OnItem(call), Head(call.left) = i,
           calls[c].pc # "halting", SettleOrAct(c, call, i) \/ Act(c, call, i),
           \/ call.op = "resume" => want'[i] = "run" /\ (Serial => AtRest(i) /\ ~Busy(i))
           \/ calls[c].pc = "settle" /\ Head(calls[c].left) = i /\ calls[c] = call
    PROVE  StepMoves
BY SettleMoves, ActMoves DEF SettleOrAct

\* The call that asks for an operation on an item goes to an idle slot.
LEMMA AskedCall ==
    ASSUME Inv, NEW op \in ItemOps, NEW i \in Items, Ask(op)
    PROVE  \E c \in 1..Slots : \E call \in Call :
               /\ c = Least(IdleSlots) /\ calls[c] = NoCall
               /\ call = [NoCall EXCEPT !.op = op, !.left = <<i>>]
               /\ OnItem(call) /\ call.op = op /\ call.left = <<i>> /\ Head(call.left) = i
<1>1. PICK call : call = [NoCall EXCEPT !.op = op, !.left = <<i>>]
  OBVIOUS
<1>2. op \in Ops \cup {"none"} /\ op \notin {"add", "addLater"}
  BY DEF ItemOps, Ops
<1>3. /\ NoCall \in [op: Ops \cup {"none"}, q: Queues, left: Seq(Items), pc: CallPcs, wait: 0..Rounds]
      /\ <<i>> \in Seq(Items) /\ <<i>> # <<>> /\ Head(<<i>>) = i
  BY NoCallFacts DEF Call
<1>4. call \in Call /\ call.op = op /\ call.left = <<i>>
  BY <1>1, <1>2, <1>3 DEF Call
<1>5. OnItem(call) /\ Head(call.left) = i
  BY <1>2, <1>3, <1>4 DEF OnItem
<1>6. Least(IdleSlots) \in IdleSlots
  <2>1. IdleSlots \in SUBSET Nat /\ IdleSlots # {}
    BY DEF IdleSlots, Ask
  <2> QED
    BY <2>1, LeastIn
<1> QED
  BY <1>1, <1>4, <1>5, <1>6 DEF IdleSlots

\* An operation on an item, asked for.
LEMMA AskItemMoves ==
    ASSUME Inv, NEW op \in ItemOps, NEW i \in Items, AskItem(op, i)
    PROVE  StepMoves
<1>1. Ask(op)
  BY DEF AskItem
<1>2. PICK c \in 1..Slots : \E call \in Call :
          /\ c = Least(IdleSlots) /\ calls[c] = NoCall
          /\ call = [NoCall EXCEPT !.op = op, !.left = <<i>>]
          /\ OnItem(call) /\ call.op = op /\ call.left = <<i>> /\ Head(call.left) = i
  BY <1>1, AskedCall
<1>3. PICK call \in Call : /\ c = Least(IdleSlots) /\ calls[c] = NoCall
                           /\ call = [NoCall EXCEPT !.op = op, !.left = <<i>>]
                           /\ OnItem(call) /\ call.op = op /\ Head(call.left) = i
  BY <1>2
<1>4. SettleOrAct(c, call, i) /\ (Serial => ~Busy(i) /\ (op = "resume" => AtRest(i)))
  BY <1>3 DEF AskItem
<1>5. calls[c].pc # "halting"
  BY <1>3, NoCallFacts
<1>6. op = "resume" => want'[i] = "run"
  BY DEF AskItem, Wish, Inv, TypeOK
<1> QED
  BY <1>3, <1>4, <1>5, <1>6, OperationMoves

\* A step that moves one operation, which was not waiting for a task and does
\* not now, and leaves the items alone.
LEMMA NoItemMoves ==
    ASSUME Inv, UNCHANGED <<status, tasks, inst, scheduledPauses, auto>>, HaltsKept
    PROVE  StepMoves
BY StillIdles DEF StepMoves, ItemMoves

\* An addition.
LEMMA AddMoves ==
    ASSUME Inv, NEW op \in {"add", "addLater"}, NEW i \in Items, NEW q \in Queues, Add(op, i, q)
    PROVE  StepMoves
<1>1. PICK c \in 1..Slots : c = Least(IdleSlots) /\ calls[c] = NoCall
  <2>1. IdleSlots \in SUBSET Nat /\ IdleSlots # {}
    BY DEF IdleSlots, Ask, Add
  <2>2. Least(IdleSlots) \in IdleSlots
    BY <2>1, LeastIn
  <2> QED
    BY <2>2 DEF IdleSlots
<1>2. PICK call \in Call : call = [NoCall EXCEPT !.op = op, !.q = q, !.left = <<i>>]
  <2>1. op \in Ops \cup {"none"} /\ <<i>> \in Seq(Items)
    BY DEF Ops
  <2> QED
    BY <2>1, NoCallFacts DEF Call
<1>3. Goto(c, call, "saving")
  BY <1>1, <1>2 DEF Add
<1>4. HaltsKept
  BY <1>1, <1>3, GoneTo, NotHalting, NoCallFacts, Places
<1>5. /\ entry[i] = "absent" /\ entry' = [entry EXCEPT ![i] = "listed"]
      /\ UNCHANGED <<tasks, inst, scheduledPauses, auto>>
      /\ status' = [status EXCEPT ![i] = IF op = "add" THEN "queued" ELSE "added"]
  BY DEF Add, work, SetStatus
<1>6. status'[i] \in {"queued", "added"} /\ \A j \in Items \ {i} : status'[j] = status[j]
  BY <1>5 DEF Inv, TypeOK
<1>7. Marks(i)
  BY <1>5, <1>6 DEF Marks, AutoSame, Known, InLine, Inv, TypeOK
<1> QED
  BY <1>1, <1>4, <1>5, <1>6, <1>7, MarkMoves

\* startQueue and stopQueue.
LEMMA QueueOpMoves ==
    ASSUME Inv, NEW q \in Queues, StartQueue(q) \/ StopQueue(q)
    PROVE  StepMoves
<1>1. UNCHANGED <<status, tasks, inst, scheduledPauses, auto>>
  BY DEF StartQueue, StopQueue, work
<1>2. PICK c \in 1..Slots : c = Least(IdleSlots) /\ calls[c] = NoCall
  <2>1. IdleSlots \in SUBSET Nat /\ IdleSlots # {}
    BY DEF IdleSlots, Ask, StartQueue, StopQueue
  <2>2. Least(IdleSlots) \in IdleSlots
    BY <2>1, LeastIn
  <2> QED
    BY <2>2 DEF IdleSlots
<1>3. PICK call \in Call, pc \in {"saving", "next"} : Goto(c, call, pc)
  <2>1. order[q] \in Seq(Items)
    BY DEF Inv, TypeOK
  <2>2. /\ [NoCall EXCEPT !.op = "startQueue", !.q = q] \in Call
        /\ [NoCall EXCEPT !.op = "stopQueue", !.q = q, !.left = order[q]] \in Call
    BY <2>1, NoCallFacts DEF Call, Ops
  <2> QED
    BY <1>2, <2>2 DEF StartQueue, StopQueue
<1>4. HaltsKept
  BY <1>2, <1>3, GoneTo, NotHalting, NoCallFacts, Places
<1> QED
  BY <1>1, <1>4, NoItemMoves

\* stopQueue's loop
LEMMA StopNextMoves ==
    ASSUME Inv, Shapes, NEW c \in 1..Slots, StopNext(c)
    PROVE  StepMoves
<1>1. PICK call \in Call : /\ call = calls[c]
                           /\ call.pc = "next" /\ call.left # <<>> => OnItem(call)
                           /\ call.left # <<>> => Head(call.left) \in Items
  BY InFlight
<1>2. call.pc = "next" /\ call.op = "stopQueue"
  BY <1>1, NoCallFacts DEF StopNext, Shapes, Shape
<1>3. CASE Goto(c, call, "saving") /\ UNCHANGED <<entry, status, order, work>>
  <2>1. HaltsKept
    BY <1>1, <1>2, <1>3, GoneTo, NotHalting, Places
  <2> QED
    BY <1>3, <2>1, NoItemMoves DEF work
<1>4. CASE call.left # <<>> /\ SettleOrAct(c, call, Head(call.left))
  BY <1>1, <1>2, <1>4, OperationMoves
<1> QED
  BY <1>1, <1>3, <1>4 DEF StopNext

\* The automatic pause an operation waited for is over.
LEMMA SettledMoves ==
    ASSUME Inv, NEW c \in 1..Slots, Settled(c)
    PROVE  StepMoves
<1>1. PICK call \in Call : /\ call = calls[c]
                           /\ call.pc \in Workplaces => OnItem(call)
                           /\ call.left # <<>> => Head(call.left) \in Items
  BY InFlight
<1>2. call.pc = "settle" /\ Act(c, call, Head(call.left))
  BY <1>1 DEF Settled
<1>3. OnItem(call) /\ Head(call.left) \in Items
  BY <1>1, <1>2 DEF Workplaces, OnItem
<1> QED
  BY <1>1, <1>2, <1>3, OperationMoves

\* The task's pause() or cancel() is over.
LEMMA HaltedMoves ==
    ASSUME Inv, NEW c \in 1..Slots, Halted(c)
    PROVE  StepMoves
<1>1. PICK call \in Call : /\ call = calls[c]
                           /\ call.pc \in Workplaces => OnItem(call)
                           /\ call.left # <<>> => Head(call.left) \in Items
  BY InFlight
<1>2. PICK i \in Items : i = Head(call.left)
  BY <1>1 DEF Halted, Workplaces, OnItem
<1>3. /\ tasks' = [tasks EXCEPT ![i] = 0]
      /\ UNCHANGED <<running, open, inst, scheduledPauses, auto, shut, bounds>>
  BY <1>1, <1>2 DEF Halted
<1>4. OnItem(call) /\ WorkOK /\ call.pc = "halting"
  BY <1>1, InvParts DEF Halted, Workplaces
<1>5. tasks'[i] = 0 /\ inst' = inst /\ \A j \in Items \ {i} : tasks'[j] = tasks[j]
  BY <1>3, <1>4 DEF WorkOK
<1>6. /\ calls'[c].pc # "halting" /\ \A d \in 1..Slots : d # c => calls'[d] = calls[d]
      /\ \A j \in Items \ {i} : status'[j] = status[j]
      /\ \/ call.op \in {"pause", "stopQueue"} /\ status'[i] = status[i]
         \/ call.op \in {"cancel", "remove", "erase"}
               /\ (status'[i] = "cancelled" \/ (status'[i] = status[i] /\ ~Listed(i)'))
  <2>1. CASE call.op = "pause" /\ Goto(c, call, "saving") /\ UNCHANGED <<entry, status, order>>
    BY <1>4, <2>1, GoneTo, Places
  <2>2. CASE /\ call.op = "cancel" /\ Goto(c, call, "saving") /\ UNCHANGED <<entry, order>>
             /\ IF Listed(i) THEN SetStatus(i, "cancelled") ELSE UNCHANGED status
    <3>1. calls'[c].pc # "halting" /\ \A d \in 1..Slots : d # c => calls'[d] = calls[d]
      BY <1>4, <2>2, GoneTo, Places
    <3>2. Listed(i)' <=> Listed(i)
      BY <2>2 DEF Listed
    <3> QED
      BY <1>4, <2>2, <3>1, <3>2 DEF SetStatus, WorkOK
  <2>3. CASE call.op \in {"remove", "erase"} /\ RemoveEntry(c, call, i)
    BY <1>4, <2>3, EntryFacts
  <2>4. CASE /\ call.op = "stopQueue" /\ Goto(c, [call EXCEPT !.left = Tail(@)], "next")
             /\ UNCHANGED <<entry, status, order>>
    BY <1>4, <2>4, TailGone
  <2> QED
    BY <1>1, <1>2, <2>1, <2>2, <2>3, <2>4 DEF Halted
<1>7. HaltsKept
  BY <1>1, <1>2, <1>5, <1>6, NotHalting
<1>8. OperationClears(i)
  BY <1>1, <1>2, <1>3, <1>4, <1>6 DEF OperationClears, AutoSame
<1>9. Alone(i) /\ Clears(i)
  BY <1>3, <1>5, <1>6, <1>8 DEF Alone, Clears
<1> QED
  BY <1>7, <1>9, AloneMoves DEF StepMoves, ItemMoves

\* The file of an item to erase is gone.
LEMMA ErasedMoves ==
    ASSUME Inv, NEW c \in 1..Slots, Erased(c)
    PROVE  StepMoves
<1>1. PICK call \in Call : /\ call = calls[c]
                           /\ call.pc \in Workplaces => OnItem(call)
                           /\ call.left # <<>> => Head(call.left) \in Items
  BY InFlight
<1>2. PICK i \in Items : i = Head(call.left)
  BY <1>1 DEF Erased, Workplaces, OnItem
<1>3. RemoveEntry(c, call, i) /\ UNCHANGED <<tasks, inst, scheduledPauses, auto>> /\ OnItem(call)
      /\ call.pc = "erasing"
  BY <1>1, <1>2 DEF Erased, Workplaces, work
<1>4. HaltsKept
  BY <1>1, <1>3, EntryFacts, NotHalting
<1>5. CASE status'[i] = "cancelled"
  <2>1. Marks(i)
    BY <1>1, <1>2, <1>3, <1>5 DEF Marks, AutoSame
  <2> QED
    BY <1>3, <1>4, <2>1, EntryFacts, MarkMoves
<1>6. CASE UNCHANGED status
  BY <1>3, <1>4, <1>6, MarkMoves
<1> QED
  BY <1>3, <1>5, <1>6, EntryFacts

\* Operations that throw.
LEMMA ThrowMoves ==
    ASSUME Inv, NEW c \in 1..Slots, HaltFails(c) \/ EraseFails(c) \/ VaultFails(c) \/ SaveFails(c)
    PROVE  StepMoves
<1>1. UNCHANGED <<status, tasks, inst, scheduledPauses, auto>> /\ Return(c)
      /\ (calls[c].pc = "halting" => "rm" \in Faults)
  BY DEF HaltFails, EraseFails, VaultFails, SaveFails, work
<1>2. HaltsKept
  BY <1>1, Returned, NotHalting, NoCallFacts
<1> QED
  BY <1>1, <1>2, NoItemMoves

\* A pass over all queues moves each item by itself.
LEMMA PassStepMoves ==
    ASSUME Inv, HaltsKept,
           \/ ProcessAllQueues(tasks, scheduledPauses, auto, inst)
           \/ \E q \in Queues : ProcessQueue(q) /\ Adding
    PROVE  StepMoves
<1>1. ASSUME NEW i \in Items PROVE ItemMoves(i)
  <2>1. WorkOK /\ Agree(i, tasks, scheduledPauses, auto, inst)
    BY InvParts DEF Agree
  <2>2. CASE ProcessAllQueues(tasks, scheduledPauses, auto, inst)
    BY <2>1, <2>2, PassAllMoves DEF ItemMoves, WorkOK
  <2>3. CASE \E q \in Queues : ProcessQueue(q) /\ Adding
    BY <2>3, PassOneMoves DEF ItemMoves
  <2> QED
    BY <2>2, <2>3
<1> QED
  BY <1>1 DEF StepMoves

\* The state save of an operation is over.
LEMMA SavedMoves ==
    ASSUME Inv, NEW c \in 1..Slots, Saved(c)
    PROVE  StepMoves
<1>1. PICK call \in Call : call = calls[c]
  BY InFlight
<1>2. call.pc = "saving"
  BY <1>1 DEF Saved
<1>3. HaltsKept
  <2>1. CASE Return(c)
    BY <1>1, <1>2, <2>1, Returned, NotHalting, NoCallFacts
  <2>2. CASE Goto(c, call, "vault")
    BY <1>1, <1>2, <2>2, GoneTo, NotHalting, Places
  <2> QED
    BY <1>1, <2>1, <2>2 DEF Saved
<1>4. CASE UNCHANGED <<status, work>>
  BY <1>3, <1>4, NoItemMoves DEF work
<1>5. CASE call.op = "add" /\ ProcessQueue(call.q)
  <2>1. call.q \in Queues /\ Adding
    BY <1>1, <1>5 DEF Call, Adding
  <2> QED
    BY <1>3, <1>5, <2>1, PassStepMoves
<1>6. CASE ProcessAllQueues(tasks, scheduledPauses, auto, inst)
  BY <1>3, <1>6, PassStepMoves
<1> QED
  BY <1>1, <1>4, <1>5, <1>6 DEF Saved

\* The cancelled record is saved, or the secret is out of the vault.
LEMMA VaultMoves ==
    ASSUME Inv, NEW c \in 1..Slots, Marked(c) \/ VaultCleared(c)
    PROVE  StepMoves
<1>1. PICK call \in Call : call = calls[c]
  BY InFlight
<1>2. call.pc \in {"marking", "vault"}
  BY <1>1 DEF Marked, VaultCleared
<1>3. HaltsKept
  <2>1. CASE Return(c)
    BY <1>1, <1>2, <2>1, Returned, NotHalting, NoCallFacts
  <2>2. CASE \E pc \in {"vault", "saving"} : Goto(c, call, pc)
    BY <1>1, <1>2, <2>2, GoneTo, NotHalting, Places
  <2> QED
    BY <1>1, <2>1, <2>2 DEF Marked, VaultCleared, Unlist
<1>4. CASE UNCHANGED <<status, work>>
  BY <1>3, <1>4, NoItemMoves DEF work
<1>5. CASE ProcessAllQueues(tasks, scheduledPauses, auto, inst)
  BY <1>3, <1>5, PassStepMoves
<1> QED
  BY <1>1, <1>4, <1>5 DEF Marked, VaultCleared

\* Every step of an operation in flight.
LEMMA CallStepMoves ==
    ASSUME Inv, Shapes, NEW c \in 1..Slots, CallStep(c)
    PROVE  StepMoves
BY StopNextMoves, SettledMoves, HaltedMoves, ErasedMoves, ThrowMoves, SavedMoves, VaultMoves
   DEF CallStep

\* An event of a task, or of its start().
LEMMA EventMoves ==
    ASSUME Inv, NEW i \in Items, NEW n \in TaskIds, NEW pc, SetPc(i, n, pc),
           UNCHANGED <<scheduledPauses, auto, calls>>,
           \/ /\ inst[i][n] = "loading" /\ pc = "running"
              /\ SetStatus(i, "downloading") /\ UNCHANGED tasks
           \/ /\ inst[i][n] = "stopping" /\ pc = "ended"
              /\ UNCHANGED <<status, tasks>>
           \/ /\ "open" \in Faults /\ inst[i][n] \in {"loading", "stopping"} /\ pc = "reporting"
              /\ SetStatus(i, "error") /\ OffMap(i)
           \/ /\ inst[i][n] = "running" /\ pc \in {"finishing", "failing"}
              /\ SetStatus(i, "completed") \/ SetStatus(i, "error")
              /\ UNCHANGED tasks
           \/ /\ inst[i][n] \in {"finishing", "failing"} /\ pc = "reporting"
              /\ UNCHANGED status /\ OffMap(i)
    PROVE  StepMoves
<1>0. WorkOK
  BY InvParts
<1>1. /\ inst'[i][n] = pc /\ \A m \in TaskIds : m # n => inst'[i][m] = inst[i][m]
      /\ \A j \in Items \ {i} : inst'[j] = inst[j]
  BY <1>0 DEF SetPc, WorkOK
<1>2. AutoSame(i)
  BY DEF AutoSame
<1>3. Happens(i)
  <2> SUFFICES
          \/ /\ inst[i][n] = "loading" /\ pc = "running"
             /\ status'[i] = "downloading" /\ tasks'[i] = tasks[i]
          \/ /\ inst[i][n] = "stopping" /\ pc = "ended"
             /\ status'[i] = status[i] /\ tasks'[i] = tasks[i]
          \/ /\ "open" \in Faults
             /\ inst[i][n] \in {"loading", "stopping"} /\ pc = "reporting"
             /\ status'[i] = "error" /\ tasks'[i] = 0
          \/ /\ inst[i][n] = "running" /\ pc \in {"finishing", "failing"}
             /\ status'[i] \in {"completed", "error"} /\ tasks'[i] = tasks[i]
          \/ /\ inst[i][n] \in {"finishing", "failing"} /\ pc = "reporting"
             /\ status'[i] = status[i] /\ tasks'[i] = 0
    BY <1>1, <1>2 DEF Happens
  <2> QED
    BY <1>0 DEF SetStatus, OffMap, WorkOK
<1>4. Alone(i)
  BY <1>0, <1>1 DEF Alone, SetStatus, OffMap, WorkOK
<1> QED
  BY <1>3, <1>4, AloneMoves, CallsStill DEF StepMoves, ItemMoves

\* The events of a task.
LEMMA TaskStepMoves ==
    ASSUME Inv, NEW i \in Items, NEW n \in TaskIds, TaskStep(i, n)
    PROVE  StepMoves
<1>0. UNCHANGED calls /\ WorkOK
  BY InvParts DEF TaskStep, Opened, OpenFails, Transferred, Emits, Reported, ReportFails
<1>1. CASE Opened(i, n)
  BY <1>1, EventMoves DEF Opened
<1>2. CASE OpenFails(i, n)
  BY <1>2, EventMoves DEF OpenFails
<1>3. CASE Transferred(i, n)
  <2>1. CASE SetPc(i, n, "finishing") /\ SetStatus(i, "completed")
    BY <1>3, <2>1, EventMoves DEF Transferred
  <2>2. CASE SetPc(i, n, "failing") /\ SetStatus(i, "error")
    BY <1>3, <2>2, EventMoves DEF Transferred
  <2> QED
    BY <1>3, <2>1, <2>2 DEF Transferred
<1>4. CASE Emits(i, n)
  BY <1>4, EventMoves DEF Emits
<1>5. CASE Reported(i, n)
  <2> DEFINE ts == [inst EXCEPT ![i][n] = "ended"]
  <2>1. ts \in [Items -> [TaskIds -> TaskPcs]]
    BY <1>0 DEF WorkOK, TaskPcs
  <2>2. ProcessAllQueues(tasks, scheduledPauses, auto, ts) /\ inst[i][n] = "reporting"
    BY <1>5 DEF Reported
  <2>3. ASSUME NEW j \in Items PROVE Agree(j, tasks, scheduledPauses, auto, ts)
    <3>1. \A m \in TaskIds : ts[j][m] = inst[j][m] \/ (inst[j][m] = "reporting" /\ ts[j][m] = "ended")
      BY <1>0, <2>2 DEF WorkOK
    <3> QED
      BY <3>1 DEF Agree
  <2> HIDE DEF ts
  <2>4. \A j \in Items : ItemMoves(j)
    BY <1>0, <2>1, <2>2, <2>3, PassAllMoves DEF ItemMoves, WorkOK
  <2> QED
    BY <1>0, <2>4, CallsStill DEF StepMoves
<1>6. CASE ReportFails(i, n)
  <2>1. \A j \in Items : Idles(j)
    <3>1. UNCHANGED <<status, tasks, scheduledPauses, auto>>
          /\ inst' = [inst EXCEPT ![i][n] = "ended"] /\ inst[i][n] = "reporting"
      BY <1>6 DEF ReportFails, SetPc
    <3>2. \A j \in Items : \A m \in TaskIds : Cooled(j, m)
      BY <1>0, <3>1 DEF Cooled, WorkOK
    <3> QED
      BY <3>1, <3>2 DEF Idles, AutoEbbs
  <2> QED
    BY <1>0, <2>1, CallsStill DEF StepMoves, ItemMoves
<1> QED
  BY <1>1, <1>2, <1>3, <1>4, <1>5, <1>6 DEF TaskStep

\* A task's automatic pause is over.
LEMMA AutoPausedMoves ==
    ASSUME Inv, NEW i \in Items, NEW r \in RoundIds, AutoPaused(i, r)
    PROVE  StepMoves
<1>0. UNCHANGED calls /\ WorkOK /\ auto[i][r] = "pausing"
  BY InvParts DEF AutoPaused
<1>1. CASE /\ scheduledPauses' = [scheduledPauses EXCEPT ![i] = 0]
           /\ OffMap(i)
           /\ IF shut.pc = "no" /\ status[i] = "paused" THEN SetStatus(i, "queued")
              ELSE UNCHANGED status
           /\ auto' = [auto EXCEPT ![i][r] = "saving"]
           /\ UNCHANGED inst
  <2>1. AutoLess(i)
    BY <1>0, <1>1 DEF AutoLess, WorkOK
  <2>2. tasks'[i] = 0 /\ inst'[i] = inst[i]
        /\ (status'[i] = status[i] \/ (status[i] = "paused" /\ status'[i] = "queued"))
    BY <1>0, <1>1 DEF OffMap, SetStatus, WorkOK
  <2>3. Clears(i)
    BY <1>0, <2>1, <2>2 DEF Clears, AutoClears
  <2>4. Alone(i)
    BY <1>0, <1>1 DEF Alone, OffMap, SetStatus, WorkOK
  <2> QED
    BY <1>0, <2>3, <2>4, AloneMoves, CallsStill DEF StepMoves, ItemMoves
<1>2. CASE ProcessAllQueues([tasks EXCEPT ![i] = 0], [scheduledPauses EXCEPT ![i] = 0],
                            [auto EXCEPT ![i][r] = "none"], inst)
  <2>1. PICK t, sp, au : /\ t = [tasks EXCEPT ![i] = 0] /\ sp = [scheduledPauses EXCEPT ![i] = 0]
                         /\ au = [auto EXCEPT ![i][r] = "none"]
    OBVIOUS
  <2>2. /\ t \in [Items -> 0..Lives] /\ sp \in [Items -> 0..Rounds]
        /\ au \in [Items -> [RoundIds -> AutoPcs]] /\ inst \in [Items -> [TaskIds -> TaskPcs]]
    BY <1>0, <2>1, ManagerAssumption DEF WorkOK, AutoPcs
  <2>3. Freed(i, t, sp, au, inst)
    BY <1>0, <2>1 DEF Freed, WorkOK
  <2>4. \A j \in Items \ {i} : Agree(j, t, sp, au, inst)
    BY <1>0, <2>1 DEF Agree, WorkOK
  <2>5. ProcessAllQueues(t, sp, au, inst)
    BY <1>2, <2>1
  <2>6. \A j \in Items : ItemMoves(j)
    BY <2>2, <2>3, <2>4, <2>5, PassAllMoves DEF ItemMoves
  <2> QED
    BY <1>0, <2>6, CallsStill DEF StepMoves
<1> QED
  BY <1>1, <1>2 DEF AutoPaused

\* The steps of an automatic pause.
LEMMA AutoStepMoves ==
    ASSUME Inv, NEW i \in Items, NEW r \in RoundIds, AutoStep(i, r)
    PROVE  StepMoves
<1>0. UNCHANGED calls /\ WorkOK
  BY InvParts DEF AutoStep, AutoPaused, AutoSaved, AutoSaveFails
<1>1. CASE AutoSaved(i, r)
  <2>1. PICK au : au = [auto EXCEPT ![i][r] = "none"]
    OBVIOUS
  <2>2. au \in [Items -> [RoundIds -> AutoPcs]] /\ auto[i][r] = "saving"
        /\ ProcessAllQueues(tasks, scheduledPauses, au, inst)
    BY <1>0, <1>1, <2>1 DEF AutoSaved, WorkOK, AutoPcs
  <2>3. \A j \in Items : Agree(j, tasks, scheduledPauses, au, inst)
    BY <1>0, <2>1, <2>2 DEF Agree, WorkOK
  <2>4. \A j \in Items : ItemMoves(j)
    BY <1>0, <2>2, <2>3, PassAllMoves DEF ItemMoves, WorkOK
  <2> QED
    BY <1>0, <2>4, CallsStill DEF StepMoves
<1>2. CASE AutoSaveFails(i, r)
  <2>1. UNCHANGED <<status, tasks, inst, scheduledPauses>>
        /\ auto[i][r] = "saving" /\ auto' = [auto EXCEPT ![i][r] = "none"]
    BY <1>2 DEF AutoSaveFails
  <2>2. \A j \in Items : \A s \in RoundIds :
            auto'[j][s] = auto[j][s] \/ (auto[j][s] = "saving" /\ auto'[j][s] = "none")
    BY <1>0, <2>1 DEF WorkOK
  <2>3. \A j \in Items : Idles(j)
    BY <2>1, <2>2 DEF Idles, Cooled, AutoEbbs
  <2> QED
    BY <1>0, <2>3, CallsStill DEF StepMoves, ItemMoves
<1> QED
  BY <1>1, <1>2, AutoPausedMoves DEF AutoStep

\* shutdown()
LEMMA ShutStepMoves ==
    ASSUME Inv, ShutStep
    PROVE  StepMoves
<1>0. UNCHANGED calls /\ WorkOK
  BY InvParts DEF ShutStep, ShutdownPauses, ShutdownDrains, ShutdownDone, ShutdownHalted
<1>1. CASE ShutdownPauses
  <2>1. /\ shut'.pc = "pausing" /\ shut'.halting = Active(tasks)
        /\ scheduledPauses' = [i \in Items |-> 0]
        /\ status' = [i \in Items |-> IF i \in Active(tasks) THEN "paused" ELSE status[i]]
        /\ inst' = [i \in Items |-> [n \in TaskIds |->
                   IF n = tasks[i] THEN HaltPc(inst[i][n]) ELSE inst[i][n]]]
        /\ UNCHANGED <<tasks, auto>>
    BY <1>1 DEF ShutdownPauses
  <2>2. ASSUME NEW i \in Items PROVE ItemMoves(i)
    <3>1. AutoEbbs(i)
      BY <2>1 DEF AutoEbbs
    <3>2. CASE i \in Active(tasks)
      <4>1. Halts(i)
        <5> SUFFICES ASSUME NEW n \in TaskIds
                     PROVE  \/ Cooled(i, n) /\ (n = tasks[i] => ~Transferring(i, n))
                            \/ n = tasks[i] /\ inst[i][n] = "loading" /\ inst'[i][n] = "stopping"
                            \/ n = tasks[i] /\ inst[i][n] = "running" /\ inst'[i][n] = "ended"
          BY DEF Halts
        <5>1. inst'[i][n] = IF n = tasks[i] THEN HaltPc(inst[i][n]) ELSE inst[i][n]
          BY <2>1
        <5>2. inst[i][n] \in TaskPcs
          BY <1>0 DEF WorkOK
        <5> QED
          BY <5>1, <5>2, HaltPcFacts DEF Cooled, Transferring
      <4> QED
        BY <2>1, <3>1, <3>2, <4>1 DEF ItemMoves, QuitStops, Active
    <3>3. CASE i \notin Active(tasks)
      <4>1. tasks[i] = 0 /\ \A n \in TaskIds : n # tasks[i]
        BY <3>3, ManagerAssumption DEF Active, TaskIds
      <4>2. \A n \in TaskIds : Cooled(i, n)
        BY <2>1, <4>1 DEF Cooled
      <4> QED
        BY <2>1, <3>1, <3>3, <4>2 DEF ItemMoves, Idles
    <3> QED
      BY <3>2, <3>3
  <2> QED
    BY <1>0, <2>2, CallsStill DEF StepMoves
<1>2. CASE ShutdownDrains \/ ShutdownDone
  BY <1>0, <1>2, CallsStill, NoItemMoves DEF ShutdownDrains, ShutdownDone, work
<1>3. ASSUME NEW i \in Items, ShutdownHalted(i) PROVE StepMoves
  <2>1. UNCHANGED <<status, inst, scheduledPauses, auto>> /\ OffMap(i) /\ i \in shut.halting
    BY <1>3 DEF ShutdownHalted
  <2>2. Alone(i) /\ tasks'[i] = 0
    BY <1>0, <2>1 DEF Alone, OffMap, WorkOK
  <2>3. Clears(i)
    BY <2>1, <2>2 DEF Clears, QuitClears, AutoSame
  <2> QED
    BY <1>0, <2>2, <2>3, AloneMoves, CallsStill DEF StepMoves, ItemMoves
<1> QED
  BY <1>1, <1>2, <1>3 DEF ShutStep

\* Every step moves each item in one of these ways.
LEMMA NextMoves ==
    ASSUME Inv, Shapes, [Next]_vars
    PROVE  StepMoves
<1>1. CASE UNCHANGED vars
  BY <1>1, CallsStill, NoItemMoves DEF vars
<1>2. CASE UserStep
  <2>1. CASE Shutdown
    BY <2>1, CallsStill, NoItemMoves DEF Shutdown, work
  <2> QED
    BY <1>2, <2>1, AskItemMoves, AddMoves, QueueOpMoves DEF UserStep
<1>3. CASE Tick
  BY <1>3, CallsStill, PassStepMoves DEF Tick
<1>4. CASE \E q \in Queues : Turn(q)
  BY <1>4, CallsStill, NoItemMoves DEF Turn, work
<1> QED
  BY <1>1, <1>2, <1>3, <1>4, ShutStepMoves, CallStepMoves, TaskStepMoves, AutoStepMoves DEF Next

-----------------------------------------------------------------------------
(* What a step does to the operations *)

Goes(c, call, pc) ==
    /\ calls'[c].op = call.op /\ calls'[c].q = call.q /\ calls'[c].left = call.left
    /\ calls'[c].pc = pc

\* An operation waits for the automatic pause of its item.
Settling(c, call, i) == scheduledPauses[i] # 0 /\ Goes(c, call, "settle")

\* It stops the task of its item and waits for that.
Halted1(c, call, i) ==
    /\ tasks[i] # 0 /\ call.op # "resume" /\ Goes(c, call, "halting")
    /\ status'[i] = "paused" \/ call.op \in {"cancel", "remove", "erase"}

\* What pause(), cancel() and remove() leave of an item without a task.
PauseLeaves(i) ==
    status'[i] = "paused" \/ (status'[i] = status[i] /\ ~(Listed(i)' /\ InLine(i)))
RecordLeaves(i) == status'[i] = "cancelled" \/ ~Listed(i)'

\* It has done to the item what it has to do before it saves the state.
Done1(c, call, i) ==
    /\ tasks[i] = 0 /\ tasks'[i] = 0 /\ inst'[i] = inst[i]
    /\ \/ call.op = "pause" /\ Goes(c, call, "saving") /\ PauseLeaves(i)
       \/ call.op = "cancel" /\ Goes(c, call, "saving") /\ RecordLeaves(i)
       \/ /\ call.op \in {"remove", "erase"} /\ RecordLeaves(i)
          /\ Goes(c, call, "marking") \/ Goes(c, call, "saving")
       \/ call.op = "erase" /\ Goes(c, call, "erasing")

\* It puts the item back into line, or does not and returns.
Resumed1(c, call) ==
    call.op = "resume" /\ (Goes(c, call, "saving") \/ calls'[c] = NoCall)

\* stopQueue goes on to its next item.
Next1(c, call) ==
    /\ call.op = "stopQueue" /\ calls'[c].op = "stopQueue" /\ calls'[c].q = call.q
    /\ calls'[c].left = Tail(call.left) /\ calls'[c].pc = "next"
Skips1(c, call, i) ==
    tasks[i] = 0 /\ tasks'[i] = 0 /\ inst'[i] = inst[i] /\ Next1(c, call)

Acts(c, call, i) ==
    Halted1(c, call, i) \/ Done1(c, call, i) \/ Resumed1(c, call) \/ Skips1(c, call, i)

\* Its item's task has left the map.
Freed1(c, call, i) ==
    /\ tasks'[i] = 0 /\ inst'[i] = inst[i]
    /\ \/ call.op = "pause" /\ Goes(c, call, "saving") /\ status'[i] = status[i]
       \/ call.op = "cancel" /\ Goes(c, call, "saving") /\ RecordLeaves(i)
       \/ /\ call.op \in {"remove", "erase"} /\ RecordLeaves(i)
          /\ Goes(c, call, "marking") \/ Goes(c, call, "saving")
       \/ Next1(c, call) /\ status'[i] = status[i]

\* An operation is asked for.
ItemAsked(c) ==
    \E i \in Items : \E op \in ItemOps \cap UserOps : \E call \in Call :
        /\ calls[c] = NoCall /\ shut.pc = "no" /\ UNCHANGED <<shut, running>>
        /\ Known(i) /\ (Serial => ~Busy(i))
        /\ call.op = op /\ call.left = <<i>>
        /\ want' = [want EXCEPT ![i] = Wish(op)]
        /\ Settling(c, call, i) \/ Acts(c, call, i)
Added(c) ==
    \E i \in Items : \E q \in Queues :
        /\ calls[c] = NoCall /\ shut.pc = "no" /\ UNCHANGED <<shut, running>>
        /\ ~Known(i) /\ Known(i)' /\ want' = [want EXCEPT ![i] = "run"]
        /\ calls'[c].op \in {"add", "addLater"} /\ calls'[c].q = q
        /\ calls'[c].left = <<i>> /\ calls'[c].pc = "saving"
QueueAsked(c) ==
    \E q \in Queues :
        /\ calls[c] = NoCall /\ shut.pc = "no" /\ UNCHANGED <<shut, want, order, tasks, inst>>
        /\ calls'[c].q = q
        /\ \/ /\ calls'[c].op = "startQueue" /\ calls'[c].left = <<>> /\ calls'[c].pc = "saving"
              /\ \A p \in Queues : ~running'[p] => ~running[p]
           \/ /\ calls'[c].op = "stopQueue" /\ calls'[c].left = order[q] /\ calls'[c].pc = "next"
              /\ \A p \in Queues : p # q => running'[p] = running[p]
              /\ Serial => \A i \in InQueue(q) : ~Busy(i)

\* It goes on.
Continues(c) ==
    LET call == calls[c]
        i == Head(call.left)
    IN  /\ UNCHANGED <<shut, want, running>>
        /\ \/ call.pc = "next" /\ call.left = <<>> /\ Goes(c, call, "saving")
           \/ /\ call.pc = "next" /\ call.left # <<>>
              /\ Settling(c, call, i) \/ Acts(c, call, i)
           \/ call.pc = "settle" /\ Acts(c, call, i)
           \/ call.pc = "halting" /\ Freed1(c, call, i)
           \/ call.pc = "halting" /\ "rm" \in Faults /\ calls'[c] = NoCall
                 /\ call.op \in {"cancel", "remove", "erase"}
           \/ call.pc = "erasing" /\ (Goes(c, call, "marking") \/ Goes(c, call, "saving"))
           \/ call.pc = "marking" /\ Goes(c, call, "vault")
           \/ call.pc = "saving" /\ call.op = "cancel" /\ Goes(c, call, "vault")
           \/ call.pc = "vault" /\ call.op # "cancel" /\ Goes(c, call, "saving")
           \/ call.pc \in {"erasing", "saving", "marking", "vault"} /\ calls'[c] = NoCall

Others(c) == \A d \in 1..Slots : d # c => calls'[d] = calls[d]

CallsMove ==
    \/ UNCHANGED <<calls, want, running>>
       /\ (shut.pc = "no" /\ shut'.pc # "no" /\ Serial => ~Adding)
    \/ \E c \in 1..Slots : /\ Others(c)
                           /\ ItemAsked(c) \/ Added(c) \/ QueueAsked(c) \/ Continues(c)

\* The settling of an automatic pause, and the operations.
LEMMA SettleGoes ==
    ASSUME Inv, NEW c \in 1..Slots, NEW i \in Items, NEW call, OnItem(call),
           scheduledPauses[i] # 0, Settle(c, call, i)
    PROVE  Settling(c, call, i) /\ Others(c)
<1>1. calls' = [calls EXCEPT ![c] = [call EXCEPT !.pc = "settle", !.wait = scheduledPauses[i]]]
  BY DEF Settle
<1>2. calls \in [1..Slots -> Call] /\ call \in Call /\ scheduledPauses[i] \in 0..Rounds
      /\ "settle" \in CallPcs
  BY Places DEF Inv, TypeOK, OnItem
<1>3. PICK new : new = [call EXCEPT !.pc = "settle", !.wait = scheduledPauses[i]]
  OBVIOUS
<1>4. new.pc = "settle" /\ new.op = call.op /\ new.left = call.left /\ new.q = call.q
  BY <1>2, <1>3, Moves DEF Call
<1> QED
  BY <1>1, <1>2, <1>3, <1>4 DEF Settling, Others, Goes

\* An operation goes on to another await,
LEMMA Going ==
    ASSUME Inv, NEW c \in 1..Slots, NEW call \in Call, NEW pc \in CallPcs, Goto(c, call, pc)
    PROVE  Goes(c, call, pc) /\ Others(c)
BY GoneTo DEF Goes, Others

\* or returns.
LEMMA Leaving ==
    ASSUME Inv, NEW c \in 1..Slots, Return(c)
    PROVE  calls'[c] = NoCall /\ Others(c)
BY Returned DEF Others

\* remove() marks or drops its entry.
LEMMA EntryGoes ==
    ASSUME Inv, NEW c \in 1..Slots, NEW i \in Items, NEW call, OnItem(call), RemoveEntry(c, call, i)
    PROVE  /\ RecordLeaves(i) /\ Others(c)
           /\ Goes(c, call, "marking") \/ Goes(c, call, "saving")
<1>1. CASE SetStatus(i, "cancelled") /\ Goto(c, call, "marking")
  <2>1. status'[i] = "cancelled"
    BY <1>1 DEF SetStatus, Inv, TypeOK
  <2> QED
    BY <1>1, <2>1, Going, Places DEF OnItem, RecordLeaves
<1>2. CASE Unlist(c, call, i)
  <2>1. Goto(c, call, "saving")
    BY <1>2 DEF Unlist
  <2>2. ~Listed(i)'
    BY <1>2 DEF Unlist, Listed, Inv, TypeOK
  <2> QED
    BY <2>1, <2>2, Going, Places DEF OnItem, RecordLeaves
<1> QED
  BY <1>1, <1>2 DEF RemoveEntry

\* stopQueue goes on with the rest of its items.
LEMMA NextGoes ==
    ASSUME Inv, NEW c \in 1..Slots, NEW call, OnItem(call), call.op = "stopQueue",
           Goto(c, [call EXCEPT !.left = Tail(@)], "next")
    PROVE  Next1(c, call) /\ Others(c)
BY TailGone DEF Next1, Others

\* An operation acts on its item.
LEMMA ActGoes ==
    ASSUME Inv, NEW c \in 1..Slots, NEW i \in Items, NEW call, OnItem(call), Act(c, call, i)
    PROVE  Acts(c, call, i) /\ Others(c)
<1>0. WorkOK /\ call \in Call
  BY InvParts DEF OnItem
<1>1. CASE /\ tasks[i] # 0 /\ Goto(c, call, "halting") /\ call.op # "resume"
           /\ SetStatus(i, "paused") \/ call.op \in {"cancel", "remove", "erase"}
  <2>1. status'[i] = "paused" \/ call.op \in {"cancel", "remove", "erase"}
    BY <1>0, <1>1 DEF SetStatus, WorkOK
  <2> QED
    BY <1>0, <1>1, <2>1, Going, Places DEF Acts, Halted1
<1>2. CASE call.op = "pause" /\ PauseActs(c, call, i)
  <2>1. CASE tasks[i] = 0 /\ UNCHANGED <<entry, tasks, inst>> /\ Goto(c, call, "saving")
             /\ IF Listed(i) /\ status[i] \in {"queued", "added"} THEN SetStatus(i, "paused")
                ELSE UNCHANGED status
    <3>1. PauseLeaves(i)
      BY <1>0, <2>1 DEF PauseLeaves, SetStatus, InLine, Listed, WorkOK
    <3> QED
      BY <1>0, <1>2, <2>1, <3>1, Going, Places DEF Acts, Done1
  <2> QED
    BY <1>1, <1>2, <2>1 DEF PauseActs
<1>3. CASE call.op = "resume" /\ ResumeActs(c, call, i)
  BY <1>0, <1>3, Going, Leaving, Places DEF ResumeActs, Acts, Resumed1
<1>4. CASE call.op = "cancel" /\ CancelActs(c, call, i)
  <2>1. CASE tasks[i] = 0 /\ UNCHANGED <<entry, tasks, inst>> /\ Goto(c, call, "saving")
             /\ IF Listed(i) THEN SetStatus(i, "cancelled") ELSE UNCHANGED status
    <3>1. RecordLeaves(i)
      BY <1>0, <2>1 DEF RecordLeaves, SetStatus, Listed, WorkOK
    <3> QED
      BY <1>0, <1>4, <2>1, <3>1, Going, Places DEF Acts, Done1
  <2> QED
    BY <1>1, <1>4, <2>1 DEF CancelActs
<1>5. CASE call.op \in {"remove", "erase"} /\ RemoveActs(c, call, i)
  <2>1. CASE tasks[i] = 0 /\ call.op = "erase" /\ Goto(c, call, "erasing") /\ UNCHANGED <<tasks, inst>>
    BY <1>0, <2>1, Going, Places DEF Acts, Done1
  <2>2. CASE tasks[i] = 0 /\ RemoveEntry(c, call, i) /\ UNCHANGED <<tasks, inst>>
    BY <1>5, <2>2, EntryGoes DEF Acts, Done1
  <2> QED
    BY <1>1, <1>5, <2>1, <2>2 DEF RemoveActs
<1>6. CASE call.op = "stopQueue" /\ StopActs(c, call, i)
  <2>1. CASE tasks[i] = 0 /\ UNCHANGED <<tasks, inst>>
             /\ Goto(c, [call EXCEPT !.left = Tail(@)], "next")
    BY <1>6, <2>1, NextGoes DEF Acts, Skips1
  <2> QED
    BY <1>1, <1>6, <2>1 DEF StopActs
<1> QED
  BY <1>2, <1>3, <1>4, <1>5, <1>6 DEF Act

\* settleScheduledPause, then the operation.
LEMMA OperationGoes ==
    ASSUME Inv, NEW c \in 1..Slots, NEW i \in Items, NEW call, OnItem(call), SettleOrAct(c, call, i)
    PROVE  (Settling(c, call, i) \/ Acts(c, call, i)) /\ Others(c)
BY SettleGoes, ActGoes DEF SettleOrAct

\* An operation on an item, asked for.
LEMMA AskItemGoes ==
    ASSUME Inv, NEW op \in ItemOps, NEW i \in Items, AskItem(op, i)
    PROVE  CallsMove
<1>1. Ask(op) /\ op \in UserOps /\ shut.pc = "no" /\ UNCHANGED <<shut, running>> /\ Known(i) /\ (Serial => ~Busy(i))
      /\ want' = [want EXCEPT ![i] = Wish(op)]
  BY DEF AskItem, Ask, Known
<1>2. PICK c \in 1..Slots : \E call \in Call :
          /\ c = Least(IdleSlots) /\ calls[c] = NoCall
          /\ call = [NoCall EXCEPT !.op = op, !.left = <<i>>]
          /\ OnItem(call) /\ call.op = op /\ call.left = <<i>> /\ Head(call.left) = i
  BY <1>1, AskedCall
<1>3. PICK call \in Call : /\ c = Least(IdleSlots) /\ calls[c] = NoCall
                           /\ call = [NoCall EXCEPT !.op = op, !.left = <<i>>]
                           /\ OnItem(call) /\ call.op = op /\ call.left = <<i>>
  BY <1>2
<1>4. SettleOrAct(c, call, i)
  BY <1>3 DEF AskItem
<1>5. ItemAsked(c) /\ Others(c)
  BY <1>1, <1>3, <1>4, OperationGoes DEF ItemAsked
<1> QED
  BY <1>5 DEF CallsMove

\* What a new call is made from.
LEMMA NewCall ==
    /\ NoCall \in [op: Ops \cup {"none"}, q: Queues, left: Seq(Items), pc: CallPcs, wait: 0..Rounds]
    /\ NoCall.left = <<>>
BY NoCallFacts DEF Call

\* An addition.
LEMMA AddGoes ==
    ASSUME Inv, NEW op \in {"add", "addLater"}, NEW i \in Items, NEW q \in Queues, Add(op, i, q)
    PROVE  CallsMove
<1>1. PICK c \in 1..Slots : c = Least(IdleSlots) /\ calls[c] = NoCall
  <2>1. IdleSlots \in SUBSET Nat /\ IdleSlots # {}
    BY DEF IdleSlots, Ask, Add
  <2>2. Least(IdleSlots) \in IdleSlots
    BY <2>1, LeastIn
  <2> QED
    BY <2>2 DEF IdleSlots
<1>2. PICK call \in Call : /\ call = [NoCall EXCEPT !.op = op, !.q = q, !.left = <<i>>]
                           /\ call.op = op /\ call.q = q /\ call.left = <<i>>
  <2>1. op \in Ops /\ <<i>> \in Seq(Items)
    BY DEF Ops
  <2>2. PICK call : call = [NoCall EXCEPT !.op = op, !.q = q, !.left = <<i>>]
    OBVIOUS
  <2>3. call \in Call /\ call.op = op /\ call.q = q /\ call.left = <<i>>
    BY <2>1, <2>2, NewCall DEF Call
  <2> QED
    BY <2>2, <2>3
<1>3. Goes(c, call, "saving") /\ Others(c)
  BY <1>1, <1>2, Going, Places DEF Add
<1>4. /\ shut.pc = "no" /\ UNCHANGED <<shut, running>> /\ ~Known(i) /\ Known(i)'
      /\ want' = [want EXCEPT ![i] = "run"]
  BY DEF Add, Ask, Known, Inv, TypeOK
<1>5. Added(c)
  BY <1>1, <1>2, <1>3, <1>4 DEF Added, Goes
<1> QED
  BY <1>3, <1>5 DEF CallsMove

\* startQueue and stopQueue.
LEMMA QueueOpGoes ==
    ASSUME Inv, NEW q \in Queues, StartQueue(q) \/ StopQueue(q)
    PROVE  CallsMove
<1>1. shut.pc = "no" /\ UNCHANGED <<shut, want, order, tasks, inst>>
  BY DEF StartQueue, StopQueue, Ask, work
<1>2. PICK c \in 1..Slots : c = Least(IdleSlots) /\ calls[c] = NoCall
  <2>1. IdleSlots \in SUBSET Nat /\ IdleSlots # {}
    BY DEF IdleSlots, Ask, StartQueue, StopQueue
  <2>2. Least(IdleSlots) \in IdleSlots
    BY <2>1, LeastIn
  <2> QED
    BY <2>2 DEF IdleSlots
<1>3. running \in [Queues -> BOOLEAN]
  BY DEF Inv, TypeOK
<1>4. CASE StartQueue(q)
  <2>1. PICK call \in Call : /\ call = [NoCall EXCEPT !.op = "startQueue", !.q = q]
                             /\ call.op = "startQueue" /\ call.q = q /\ call.left = <<>>
    <3>1. "startQueue" \in Ops /\ <<>> \in Seq(Items)
      BY DEF Ops
    <3>2. PICK call : call = [NoCall EXCEPT !.op = "startQueue", !.q = q]
      OBVIOUS
    <3>3. call \in Call /\ call.op = "startQueue" /\ call.q = q /\ call.left = <<>>
      BY <3>1, <3>2, NewCall DEF Call
    <3> QED
      BY <3>2, <3>3
  <2>2. Goes(c, call, "saving") /\ Others(c)
    BY <1>2, <1>4, <2>1, Going, Places DEF StartQueue
  <2>3. \A p \in Queues : ~running'[p] => ~running[p]
    BY <1>3, <1>4 DEF StartQueue
  <2>4. QueueAsked(c)
    BY <1>1, <1>2, <2>1, <2>2, <2>3 DEF QueueAsked, Goes
  <2> QED
    BY <2>2, <2>4 DEF CallsMove
<1>5. CASE StopQueue(q)
  <2>0. order[q] \in Seq(Items)
    BY DEF Inv, TypeOK
  <2>1. PICK call \in Call : /\ call = [NoCall EXCEPT !.op = "stopQueue", !.q = q, !.left = order[q]]
                             /\ call.op = "stopQueue" /\ call.q = q /\ call.left = order[q]
    <3>1. "stopQueue" \in Ops
      BY DEF Ops
    <3>2. PICK call : call = [NoCall EXCEPT !.op = "stopQueue", !.q = q, !.left = order[q]]
      OBVIOUS
    <3>3. call \in Call /\ call.op = "stopQueue" /\ call.q = q /\ call.left = order[q]
      BY <2>0, <3>1, <3>2, NewCall DEF Call
    <3> QED
      BY <3>2, <3>3
  <2>2. Goes(c, call, "next") /\ Others(c)
    BY <1>2, <1>5, <2>1, Going, Places DEF StopQueue
  <2>3. /\ \A p \in Queues : p # q => running'[p] = running[p]
        /\ Serial => \A i \in InQueue(q) : ~Busy(i)
    BY <1>3, <1>5 DEF StopQueue
  <2>4. QueueAsked(c)
    BY <1>1, <1>2, <2>1, <2>2, <2>3 DEF QueueAsked, Goes
  <2> QED
    BY <2>2, <2>4 DEF CallsMove
<1> QED
  BY <1>4, <1>5

\* Every step of an operation in flight.
LEMMA CallStepGoes ==
    ASSUME Inv, NEW c \in 1..Slots, CallStep(c)
    PROVE  Continues(c) /\ Others(c)
<1>1. PICK call \in Call : /\ call = calls[c]
                           /\ call.pc \in Workplaces => OnItem(call)
                           /\ call.pc = "next" /\ call.left # <<>> => OnItem(call)
                           /\ call.left # <<>> => Head(call.left) \in Items
  BY InFlight
<1>2. UNCHANGED <<shut, want, running>>
  BY DEF CallStep, StopNext, Settled, Halted, HaltFails, Erased, EraseFails, Saved, SaveFails,
         Marked, VaultCleared, VaultFails, bounds, setup
<1>3. call.pc \in Workplaces => OnItem(call) /\ Head(call.left) \in Items
  BY <1>1 DEF OnItem
<1>4. CASE StopNext(c)
  <2>1. CASE call.left = <<>> /\ Goto(c, call, "saving")
    BY <1>1, <1>2, <1>4, <2>1, Going, Places DEF StopNext, Continues
  <2>2. CASE call.left # <<>> /\ SettleOrAct(c, call, Head(call.left))
    BY <1>1, <1>2, <1>4, <2>2, OperationGoes DEF StopNext, Continues
  <2> QED
    BY <1>1, <1>4, <2>1, <2>2 DEF StopNext
<1>5. CASE Settled(c)
  <2>1. call.pc = "settle" /\ Act(c, call, Head(call.left)) /\ OnItem(call) /\ Head(call.left) \in Items
    BY <1>1, <1>3, <1>5 DEF Settled, Workplaces
  <2> QED
    BY <1>1, <1>2, <2>1, ActGoes DEF Continues
<1>6. CASE Halted(c)
  <2>1. PICK i \in Items : i = Head(call.left) /\ OnItem(call) /\ call.pc = "halting"
    BY <1>1, <1>3, <1>6 DEF Halted, Workplaces
  <2>2. WorkOK /\ tasks' = [tasks EXCEPT ![i] = 0] /\ UNCHANGED inst
    BY <1>1, <1>6, <2>1, InvParts DEF Halted
  <2>3. tasks'[i] = 0 /\ inst'[i] = inst[i]
    BY <2>2 DEF WorkOK
  <2>4. ASSUME call.op = "pause", Goto(c, call, "saving"), UNCHANGED <<entry, status, order>>
        PROVE  Freed1(c, call, i) /\ Others(c)
    BY <2>3, <2>4, Going, Places DEF Freed1
  <2>5. ASSUME call.op = "cancel", Goto(c, call, "saving"), UNCHANGED <<entry, order>>,
               IF Listed(i) THEN SetStatus(i, "cancelled") ELSE UNCHANGED status
        PROVE  Freed1(c, call, i) /\ Others(c)
    <3>1. RecordLeaves(i)
      BY <2>2, <2>5 DEF RecordLeaves, SetStatus, Listed, WorkOK
    <3> QED
      BY <2>3, <2>5, <3>1, Going, Places DEF Freed1
  <2>6. ASSUME call.op \in {"remove", "erase"}, RemoveEntry(c, call, i)
        PROVE  Freed1(c, call, i) /\ Others(c)
    BY <2>1, <2>3, <2>6, EntryGoes DEF Freed1
  <2>7. ASSUME call.op = "stopQueue", Goto(c, [call EXCEPT !.left = Tail(@)], "next"),
               UNCHANGED <<entry, status, order>>
        PROVE  Freed1(c, call, i) /\ Others(c)
    BY <2>1, <2>3, <2>7, NextGoes DEF Freed1
  <2>8. Freed1(c, call, i) /\ Others(c)
    BY <1>1, <1>6, <2>1, <2>4, <2>5, <2>6, <2>7 DEF Halted
  <2> QED
    BY <1>1, <1>2, <2>1, <2>8 DEF Continues
<1>7. CASE HaltFails(c) \/ EraseFails(c) \/ SaveFails(c) \/ VaultFails(c)
  BY <1>1, <1>2, <1>7, Leaving DEF HaltFails, EraseFails, SaveFails, VaultFails, Continues
<1>8. CASE Erased(c)
  <2>1. call.pc = "erasing" /\ OnItem(call) /\ RemoveEntry(c, call, Head(call.left))
        /\ Head(call.left) \in Items
    BY <1>1, <1>3, <1>8 DEF Erased, Workplaces
  <2> QED
    BY <1>1, <1>2, <2>1, EntryGoes DEF Continues
<1>9. CASE Saved(c) \/ Marked(c) \/ VaultCleared(c)
  <2>1. call.pc \in {"saving", "marking", "vault"}
    BY <1>1, <1>9 DEF Saved, Marked, VaultCleared
  <2>2. CASE Return(c)
    BY <1>1, <1>2, <2>1, <2>2, Leaving DEF Continues
  <2>3. CASE call.pc = "saving" /\ call.op = "cancel" /\ Goto(c, call, "vault")
    BY <1>1, <1>2, <2>3, Going, Places DEF Continues
  <2>4. CASE call.pc = "marking" /\ Goto(c, call, "vault")
    BY <1>1, <1>2, <2>4, Going, Places DEF Continues
  <2>5. CASE call.pc = "vault" /\ call.op # "cancel" /\ Goto(c, call, "saving")
    BY <1>1, <1>2, <2>5, Going, Places DEF Continues
  <2> QED
    BY <1>1, <1>9, <2>2, <2>3, <2>4, <2>5 DEF Saved, Marked, VaultCleared, Unlist
<1> QED
  BY <1>4, <1>5, <1>6, <1>7, <1>8, <1>9 DEF CallStep

\* Every step.
LEMMA NextGoesOn ==
    ASSUME Inv, [Next]_vars
    PROVE  CallsMove
<1>1. CASE UNCHANGED vars
  BY <1>1 DEF vars, CallsMove
<1>2. CASE UserStep
  <2>1. CASE Shutdown
    BY <2>1 DEF Shutdown, CallsMove, setup, Adding
  <2> QED
    BY <1>2, <2>1, AskItemGoes, AddGoes, QueueOpGoes DEF UserStep
<1>3. CASE Tick \/ \E q \in Queues : Turn(q)
  BY <1>3 DEF Tick, Turn, CallsMove, setup, bounds
<1>4. CASE ShutStep
  <2>1. UNCHANGED <<calls, want, running>> /\ (shut.pc # "no" \/ shut'.pc = shut.pc)
    <3>1. CASE \E i \in Items : ShutdownHalted(i)
      BY <3>1 DEF ShutdownHalted, setup, bounds, Inv, TypeOK
    <3> QED
      BY <1>4, <3>1 DEF ShutStep, ShutdownPauses, ShutdownDrains, ShutdownDone, setup, bounds
  <2> QED
    BY <2>1 DEF CallsMove
<1>5. ASSUME NEW i \in Items, NEW n \in TaskIds, TaskStep(i, n)
      PROVE  CallsMove
  BY <1>5 DEF TaskStep, Opened, OpenFails, Transferred, Emits, Reported, ReportFails, CallsMove,
              setup, bounds
<1>6. ASSUME NEW i \in Items, NEW r \in RoundIds, AutoStep(i, r)
      PROVE  CallsMove
  BY <1>6 DEF AutoStep, AutoPaused, AutoSaved, AutoSaveFails, CallsMove, setup, bounds
<1> QED
  BY <1>1, <1>2, <1>3, <1>4, <1>5, <1>6, CallStepGoes DEF Next, CallsMove

-----------------------------------------------------------------------------
(* What a step does to the list and the queues *)

\* An item leaves the list by remove() or by the rollback of its addition.
Unlists(i) ==
    \/ want'[i] = "stop"
    \/ \E c \in 1..Slots : /\ calls[c].op \in {"add", "addLater", "remove", "erase"}
                           /\ calls[c].left # <<>> /\ Head(calls[c].left) = i

PlaceMoves(i) ==
    \/ entry'[i] = entry[i] /\ \A q \in Queues : i \in InQueue(q)' <=> i \in InQueue(q)
    \/ ~Known(i) /\ Listed(i)' /\ want'[i] = "run"
    \/ Known(i) /\ Known(i)' /\ ~Listed(i)' /\ (\A q \in Queues : i \notin InQueue(q)') /\ Unlists(i)

\* One item leaves the list and its queue.
LEMMA OneLeaves ==
    ASSUME Inv, Inv', NEW i \in Items, ~Listed(i)', Known(i)' <=> Known(i),
           \A j \in Items \ {i} : entry'[j] = entry[j],
           \A q \in Queues : order'[q] \in {order[q], Without(order[q], i)},
           Unlists(i)
    PROVE  \A j \in Items : PlaceMoves(j)
<1>1. ASSUME NEW q \in Queues, NEW j \in Items, j # i
      PROVE  j \in InQueue(q)' <=> j \in InQueue(q)
  <2>1. order[q] \in Seq(Items) /\ \A m, n \in DOMAIN order[q] : order[q][m] = order[q][n] => m = n
    BY DEF Inv, TypeOK, ItemsPlaced
  <2>2. PICK rest : rest = Without(order[q], i)
    OBVIOUS
  <2>3. /\ \A n \in DOMAIN rest : \E m \in DOMAIN order[q] : rest[n] = order[q][m] /\ order[q][m] # i
        /\ \A m \in DOMAIN order[q] : order[q][m] # i => \E n \in DOMAIN rest : rest[n] = order[q][m]
    BY <2>1, <2>2, WithoutFacts
  <2>4. order'[q] = order[q] \/ order'[q] = rest
    BY <2>2
  <2> QED
    BY <1>1, <2>3, <2>4 DEF InQueue
<1>2. /\ \A q \in Queues : i \notin InQueue(q)'
      /\ ~Listed(i) => \A q \in Queues : i \notin InQueue(q)
  BY DEF Inv, ItemsPlaced
<1>3. PlaceMoves(i)
  <2>1. CASE Listed(i)
    BY <1>2, <2>1 DEF PlaceMoves, Known, Listed
  <2>2. CASE ~Listed(i)
    <3>1. entry'[i] = entry[i]
      BY <2>2 DEF Inv, TypeOK, Known, Listed
    <3> QED
      BY <1>2, <2>2, <3>1 DEF PlaceMoves
  <2> QED
    BY <2>1, <2>2
<1>4. \A j \in Items \ {i} : PlaceMoves(j)
  BY <1>1 DEF PlaceMoves
<1> QED
  BY <1>3, <1>4

\* A step that leaves the list and the queues alone.
LEMMA SamePlaceMoves ==
    ASSUME UNCHANGED <<entry, order>>
    PROVE  \A i \in Items : PlaceMoves(i)
BY DEF PlaceMoves, InQueue

\* remove() drops the entry.
LEMMA UnlistMoves ==
    ASSUME Inv, Inv', NEW c \in 1..Slots, NEW call, NEW i \in Items, Unlist(c, call, i), Unlists(i)
    PROVE  \A j \in Items : PlaceMoves(j)
<1>1. entry' = [entry EXCEPT ![i] = IF @ = "listed" THEN "gone" ELSE @]
      /\ order' = [q \in Queues |-> Without(order[q], i)]
  BY DEF Unlist
<1>2. ~Listed(i)' /\ (Known(i)' <=> Known(i)) /\ \A j \in Items \ {i} : entry'[j] = entry[j]
  BY <1>1 DEF Listed, Known, Inv, TypeOK
<1>3. \A q \in Queues : order'[q] \in {order[q], Without(order[q], i)}
  BY <1>1
<1> QED
  BY <1>2, <1>3, OneLeaves

\* remove() marks or drops it.
LEMMA RemoveEntryPlaces ==
    ASSUME Inv, Inv', NEW c \in 1..Slots, NEW call, NEW i \in Items, RemoveEntry(c, call, i), Unlists(i)
    PROVE  \A j \in Items : PlaceMoves(j)
BY UnlistMoves, SamePlaceMoves DEF RemoveEntry

\* An operation, and the places of the items:
LEMMA OperationPlaces ==
    ASSUME Inv, Inv', NEW c \in 1..Slots, NEW call, NEW i \in Items,
           SettleOrAct(c, call, i) \/ Act(c, call, i),
           call.op \in {"remove", "erase"} => Unlists(i)
    PROVE  \A j \in Items : PlaceMoves(j)
<1>1. CASE UNCHANGED <<entry, order>>
  BY <1>1, SamePlaceMoves
<1>2. CASE call.op \in {"remove", "erase"} /\ RemoveEntry(c, call, i)
  BY <1>2, RemoveEntryPlaces
<1> QED
  BY <1>1, <1>2 DEF SettleOrAct, Settle, Act, PauseActs, ResumeActs, CancelActs, RemoveActs, StopActs

\* when it is asked for,
LEMMA AskItemPlaces ==
    ASSUME Inv, Inv', NEW op \in ItemOps, NEW i \in Items, AskItem(op, i)
    PROVE  \A j \in Items : PlaceMoves(j)
<1>1. Ask(op) /\ want' = [want EXCEPT ![i] = Wish(op)]
  BY DEF AskItem
<1>2. PICK c \in 1..Slots : \E call \in Call :
          /\ c = Least(IdleSlots) /\ calls[c] = NoCall
          /\ call = [NoCall EXCEPT !.op = op, !.left = <<i>>]
          /\ OnItem(call) /\ call.op = op /\ call.left = <<i>> /\ Head(call.left) = i
  BY <1>1, AskedCall
<1>3. PICK call \in Call : /\ c = Least(IdleSlots)
                           /\ call = [NoCall EXCEPT !.op = op, !.left = <<i>>] /\ call.op = op
  BY <1>2
<1>4. SettleOrAct(c, call, i)
  BY <1>3 DEF AskItem
<1>5. op \in {"remove", "erase"} => Unlists(i)
  BY <1>1 DEF Unlists, Wish, Inv, TypeOK
<1> QED
  BY <1>3, <1>4, <1>5, OperationPlaces

\* an addition,
LEMMA AddPlaces ==
    ASSUME Inv, Inv', NEW op \in {"add", "addLater"}, NEW i \in Items, NEW q \in Queues, Add(op, i, q)
    PROVE  \A j \in Items : PlaceMoves(j)
<1>1. /\ entry' = [entry EXCEPT ![i] = "listed"] /\ entry[i] = "absent"
      /\ order' = [order EXCEPT ![q] = <<i>> \o @] /\ want' = [want EXCEPT ![i] = "run"]
  BY DEF Add
<1>2. PlaceMoves(i)
  BY <1>1 DEF PlaceMoves, Known, Listed, Inv, TypeOK
<1>3. ASSUME NEW j \in Items, j # i PROVE PlaceMoves(j)
  <2>1. entry'[j] = entry[j]
    BY <1>1, <1>3 DEF Inv, TypeOK
  <2>2. ASSUME NEW p \in Queues PROVE j \in InQueue(p)' <=> j \in InQueue(p)
    <3>1. CASE p = q
      <4>1. order'[p] = <<i>> \o order[q] /\ order[q] \in Seq(Items)
        BY <1>1, <3>1 DEF Inv, TypeOK
      <4> DEFINE longer == <<i>> \o order[q]
      <4>2. /\ \A n \in DOMAIN longer : n # 1 => n - 1 \in DOMAIN order[q] /\ longer[n] = order[q][n - 1]
            /\ longer[1] = i
            /\ \A n \in DOMAIN order[q] : n + 1 \in DOMAIN longer /\ longer[n + 1] = order[q][n]
        BY <4>1
      <4> HIDE DEF longer
      <4>3. order'[p] = longer
        BY <4>1 DEF longer
      <4> QED
        BY <1>3, <3>1, <4>2, <4>3 DEF InQueue
    <3>2. CASE p # q
      BY <1>1, <3>2 DEF InQueue, Inv, TypeOK
    <3> QED
      BY <3>1, <3>2
  <2> QED
    BY <2>1, <2>2 DEF PlaceMoves
<1> QED
  BY <1>2, <1>3

\* and the continuations.
LEMMA CallStepPlaces ==
    ASSUME Inv, Inv', Shapes, NEW c \in 1..Slots, CallStep(c)
    PROVE  \A j \in Items : PlaceMoves(j)
<1>1. PICK call \in Call : /\ call = calls[c]
                           /\ call.pc \in Workplaces => OnItem(call)
                           /\ call.left # <<>> => Head(call.left) \in Items
  BY InFlight
<1>2. call.pc \in Workplaces => call.left # <<>> /\ Head(call.left) \in Items
  BY <1>1 DEF OnItem
<1>3. ASSUME call.left # <<>>, call.op \in {"add", "addLater", "remove", "erase"}
      PROVE  Unlists(Head(call.left))
  BY <1>1, <1>3 DEF Unlists
<1>4. CASE UNCHANGED <<entry, order>>
  BY <1>4, SamePlaceMoves
<1>5. CASE StopNext(c)
  BY <1>1, <1>3, <1>4, <1>5, OperationPlaces DEF StopNext
<1>6. CASE Settled(c)
  BY <1>1, <1>2, <1>3, <1>6, OperationPlaces DEF Settled, Workplaces
<1>7. CASE Halted(c)
  BY <1>1, <1>2, <1>3, <1>4, <1>7, RemoveEntryPlaces DEF Halted, Workplaces
<1>8. CASE Erased(c)
  <2>1. call.op \in {"remove", "erase"} /\ call.pc = "erasing"
    BY <1>1, <1>8, NoCallFacts DEF Erased, Shapes, Shape
  <2> QED
    BY <1>1, <1>2, <1>3, <1>8, <2>1, RemoveEntryPlaces DEF Erased, Workplaces
<1>9. CASE VaultCleared(c)
  <2>1. CASE call.op # "cancel" /\ Unlist(c, call, Head(call.left))
    <3>1. call.op \in {"remove", "erase"} /\ call.pc = "vault"
      BY <1>1, <1>9, <2>1, NoCallFacts DEF VaultCleared, Shapes, Shape, ItemOps
    <3> QED
      BY <1>1, <1>2, <1>3, <2>1, <3>1, UnlistMoves DEF Workplaces
  <2> QED
    BY <1>1, <1>4, <1>9, <2>1 DEF VaultCleared
<1>10. CASE SaveFails(c)
  <2>1. CASE /\ call.op \in {"add", "addLater"}
             /\ entry' = [entry EXCEPT ![Head(call.left)] = "gone"]
             /\ order' = [order EXCEPT ![call.q] = Without(@, Head(call.left))]
    <3>1. PICK i \in Items : i = Head(call.left) /\ call.left # <<>> /\ Known(i)
      BY <1>1, <2>1 DEF Inv, Additions, Addition, Known
    <3>2. ~Listed(i)' /\ Known(i)' /\ \A j \in Items \ {i} : entry'[j] = entry[j]
      BY <2>1, <3>1 DEF Listed, Known, Inv, TypeOK
    <3>3. \A q \in Queues : order'[q] \in {order[q], Without(order[q], i)}
      BY <2>1, <3>1 DEF Inv, TypeOK
    <3> QED
      BY <1>3, <2>1, <3>1, <3>2, <3>3, OneLeaves
  <2> QED
    BY <1>1, <1>4, <1>10, <2>1 DEF SaveFails
<1> QED
  BY <1>4, <1>5, <1>6, <1>7, <1>8, <1>9, <1>10
     DEF CallStep, HaltFails, EraseFails, Saved, Marked, VaultFails, setup

\* Every step.
LEMMA NextPlaces ==
    ASSUME Inv, Inv', Shapes, [Next]_vars
    PROVE  \A j \in Items : PlaceMoves(j)
<1>1. CASE UNCHANGED <<entry, order>>
  BY <1>1, SamePlaceMoves
<1>2. CASE UserStep
  <2>1. CASE \E q \in Queues : StartQueue(q) \/ StopQueue(q)
    BY <1>1, <2>1 DEF StartQueue, StopQueue
  <2> QED
    BY <1>1, <1>2, <2>1, AskItemPlaces, AddPlaces DEF UserStep, Shutdown, setup
<1>3. CASE ShutStep
  <2>1. CASE \E i \in Items : ShutdownHalted(i)
    BY <1>1, <2>1 DEF ShutdownHalted, setup
  <2> QED
    BY <1>1, <1>3, <2>1 DEF ShutStep, ShutdownPauses, ShutdownDrains, ShutdownDone, setup
<1>4. ASSUME NEW i \in Items, NEW n \in TaskIds, TaskStep(i, n)
      PROVE  UNCHANGED <<entry, order>>
  BY <1>4 DEF TaskStep, Opened, OpenFails, Transferred, Emits, Reported, ReportFails, setup
<1>5. ASSUME NEW i \in Items, NEW r \in RoundIds, AutoStep(i, r)
      PROVE  UNCHANGED <<entry, order>>
  BY <1>5 DEF AutoStep, AutoPaused, AutoSaved, AutoSaveFails, setup
<1>6. CASE Tick \/ UNCHANGED vars \/ \E q \in Queues : Turn(q)
  BY <1>1, <1>6 DEF Tick, vars, Turn, setup
<1> QED
  BY <1>1, <1>2, <1>3, <1>4, <1>5, <1>6, CallStepPlaces DEF Next

\* The operations stay within their shapes.
LEMMA ActsShape ==
    ASSUME NEW c \in 1..Slots, NEW i, NEW call,
           Settling(c, call, i) \/ Acts(c, call, i),
           call.op = "stopQueue" \/ (call.op \in ItemOps /\ Len(call.left) = 1)
    PROVE  Shape(calls'[c])
BY DEF Settling, Acts, Halted1, Done1, Resumed1, Skips1, Next1, Goes, Shape, ItemOps

\* Every step keeps the operations at awaits they can be at.
LEMMA ShapesKept ==
    ASSUME Inv, Shapes, CallsMove
    PROVE  Shapes'
<1> SUFFICES ASSUME NEW c \in 1..Slots, Others(c),
                    ItemAsked(c) \/ Added(c) \/ QueueAsked(c) \/ Continues(c)
             PROVE  Shapes'
  BY DEF CallsMove, Shapes, Shape
<1>1. Shape(calls'[c])
  <2>1. CASE ItemAsked(c)
    <3>1. PICK i \in Items, op \in ItemOps \cap UserOps, call \in Call :
              call.op = op /\ call.left = <<i>> /\ (Settling(c, call, i) \/ Acts(c, call, i))
      BY <2>1 DEF ItemAsked
    <3>2. Len(call.left) = 1
      BY <3>1
    <3> QED
      BY <3>1, <3>2, ActsShape
  <2>2. CASE Added(c) \/ QueueAsked(c)
    BY <2>2 DEF Added, QueueAsked, Shape
  <2>3. CASE Continues(c)
    <3>1. PICK call \in Call : call = calls[c] /\ Shape(call)
      BY DEF Inv, TypeOK, Shapes
    <3>2. CASE /\ call.pc \in {"next", "settle"}
               /\ Settling(c, call, Head(call.left)) \/ Acts(c, call, Head(call.left))
      <4>1. call.op = "stopQueue" \/ (call.op \in ItemOps /\ Len(call.left) = 1)
        BY <3>1, <3>2, NoCallFacts DEF Shape
      <4> QED
        BY <3>2, <4>1, ActsShape
    <3>3. CASE call.pc = "halting" /\ Freed1(c, call, Head(call.left))
      BY <3>1, <3>3, NoCallFacts DEF Shape, Freed1, Next1, Goes, ItemOps
    <3>4. CASE \/ call.pc = "next" /\ call.left = <<>> /\ Goes(c, call, "saving")
               \/ call.pc = "erasing" /\ (Goes(c, call, "marking") \/ Goes(c, call, "saving"))
               \/ call.pc = "marking" /\ Goes(c, call, "vault")
               \/ call.pc = "saving" /\ call.op = "cancel" /\ Goes(c, call, "vault")
               \/ call.pc = "vault" /\ call.op # "cancel" /\ Goes(c, call, "saving")
      BY <3>1, <3>4, NoCallFacts DEF Shape, Goes, ItemOps
    <3>5. CASE calls'[c] = NoCall
      BY <3>5 DEF Shape
    <3> QED
      BY <2>3, <3>1, <3>2, <3>3, <3>4, <3>5 DEF Continues
  <2> QED
    BY <2>1, <2>2, <2>3
<1> QED
  BY <1>1 DEF Shapes, Others, Shape

-----------------------------------------------------------------------------
(* Slots of the limits that a task which has ended still holds *)

\* shutdown() waits for tasks of items it knows, while it pauses them.
ShutOK == shut.halting # {} => shut.pc = "pausing" /\ \A i \in shut.halting : Known(i)

\* shutdown() goes on waiting for what it has stopped until it is out of the map.
LEMMA ShutKept ==
    ASSUME Inv, Inv', ShutOK, \A i \in Items : PlaceMoves(i), [Next]_vars
    PROVE  /\ ShutOK'
           /\ \A i \in Items : i \in shut.halting => i \in shut'.halting \/ tasks'[i] = 0
<1>0. \A i \in Items : Known(i) => Known(i)'
  BY DEF PlaceMoves, Known, Listed
<1>1. shut.halting \subseteq Items
  BY DEF Inv, TypeOK
<1>2. CASE UNCHANGED shut
  BY <1>0, <1>1, <1>2 DEF ShutOK, Known
<1>3. CASE Shutdown
  BY <1>3 DEF Shutdown, Ask, ShutOK
<1>4. CASE ShutdownPauses
  <2>1. shut'.pc = "pausing" /\ shut'.halting = Active(tasks) /\ shut.halting = {}
    BY <1>4 DEF ShutdownPauses, ShutOK
  <2>2. \A i \in Active(tasks) : Known(i)'
    BY <1>0 DEF Active, Known, Inv, Fresh
  <2> QED
    BY <2>1, <2>2 DEF ShutOK, Known
<1>5. CASE ShutdownDrains \/ ShutdownDone
  <2>1. shut.halting = {} /\ shut'.halting = {}
    BY <1>5 DEF ShutdownDrains, ShutdownDone, ShutOK, Inv, TypeOK
  <2> QED
    BY <2>1 DEF ShutOK
<1>6. ASSUME NEW j \in Items, ShutdownHalted(j)
      PROVE  /\ ShutOK'
             /\ \A i \in Items : i \in shut.halting => i \in shut'.halting \/ tasks'[i] = 0
  <2>1. shut' = [shut EXCEPT !.halting = @ \ {j}] /\ tasks'[j] = 0
    BY <1>6 DEF ShutdownHalted, OffMap, Inv, TypeOK
  <2>2. shut'.pc = shut.pc /\ shut'.halting = shut.halting \ {j}
    BY <2>1 DEF Inv, TypeOK
  <2> QED
    BY <1>0, <1>1, <2>1, <2>2 DEF ShutOK, Known
<1>7. ASSUME NEW i \in Items, NEW n \in TaskIds, TaskStep(i, n)
      PROVE  UNCHANGED shut
  BY <1>7 DEF TaskStep, Opened, OpenFails, Transferred, Emits, Reported, ReportFails
<1>8. ASSUME NEW i \in Items, NEW r \in RoundIds, AutoStep(i, r)
      PROVE  UNCHANGED shut
  BY <1>8 DEF AutoStep, AutoPaused, AutoSaved, AutoSaveFails
<1>9. ASSUME NEW c \in 1..Slots, CallStep(c)
      PROVE  UNCHANGED shut
  BY <1>9, CallStepGoes DEF Continues
<1>10. CASE UserStep
  <2>1. ASSUME NEW q \in Queues, StartQueue(q) \/ StopQueue(q) PROVE UNCHANGED shut
    BY <2>1 DEF StartQueue, StopQueue
  <2>2. ASSUME NEW op, NEW i \in Items, AskItem(op, i) PROVE UNCHANGED shut
    BY <2>2 DEF AskItem
  <2>3. ASSUME NEW op, NEW i \in Items, NEW q \in Queues, Add(op, i, q) PROVE UNCHANGED shut
    BY <2>3 DEF Add
  <2> QED
    BY <1>2, <1>3, <1>10, <2>1, <2>2, <2>3 DEF UserStep
<1>11. CASE Tick \/ UNCHANGED vars \/ \E q \in Queues : Turn(q)
  BY <1>2, <1>11 DEF Tick, vars, Turn
<1>12. CASE ShutStep
  BY <1>4, <1>5, <1>6, <1>12 DEF ShutStep
<1> QED
  BY <1>2, <1>7, <1>8, <1>9, <1>10, <1>11, <1>12 DEF Next

\* A task in the map has not reported its end, and if it was stopped somebody
\* waits for that who takes it out.
Held(i) ==
    tasks[i] # 0 =>
        /\ inst[i][tasks[i]] # "reporting"
        /\ inst[i][tasks[i]] \in {"stopping", "ended"} =>
               Halting(i) \/ (\E r \in RoundIds : auto[i][r] = "pausing") \/ i \in shut.halting

\* A task that has ended stays on its way out of the map.
LEMMA HeldKept ==
    ASSUME Inv, Inv', "rm" \notin Faults, HaltsKept, NEW i \in Items, Held(i), ItemMoves(i),
           i \in shut.halting => i \in shut'.halting \/ tasks'[i] = 0
    PROVE  Held(i)'
<1>0. /\ tasks[i] # 0 => tasks[i] \in TaskIds
      /\ Halting(i) => Halting(i)' \/ tasks'[i] = 0
      /\ \A n \in TaskIds : inst[i][n] \in TaskPcs
  BY ManagerAssumption DEF HaltsKept, TaskIds, Inv, TypeOK
<1>1. CASE Idles(i)
  <2>1. (\E r \in RoundIds : auto[i][r] = "pausing") => (\E r \in RoundIds : auto'[i][r] = "pausing")
    BY <1>1 DEF Idles, AutoEbbs
  <2>2. tasks[i] # 0 /\ inst[i][tasks[i]] # "reporting" => inst'[i][tasks[i]] = inst[i][tasks[i]]
    BY <1>0, <1>1 DEF Idles, Cooled
  <2> QED
    BY <1>0, <1>1, <2>1, <2>2 DEF Held, Idles
<1>2. CASE Begins(i) \/ Refused(i)
  BY <1>2 DEF Begins, Refused, Held
<1>3. ASSUME Halts(i), tasks'[i] = tasks[i], tasks[i] # 0
      PROVE  inst'[i][tasks[i]] # "reporting"
  BY <1>0, <1>3 DEF Halts, Cooled, Held
<1>4. CASE Expels(i)
  BY <1>3, <1>4 DEF Expels, Held
<1>5. CASE Stops(i)
  BY <1>3, <1>5 DEF Stops, Held, Halting
<1>6. CASE QuitStops(i)
  BY <1>3, <1>6 DEF QuitStops, Held
<1>7. CASE Clears(i)
  BY <1>7 DEF Clears, Held
<1>8. CASE Happens(i)
  <2>1. (\E r \in RoundIds : auto[i][r] = "pausing") => (\E r \in RoundIds : auto'[i][r] = "pausing")
    BY <1>8 DEF Happens, AutoSame
  <2>2. tasks'[i] # 0 =>
           /\ tasks'[i] = tasks[i] /\ inst'[i][tasks[i]] # "reporting"
           /\ inst'[i][tasks[i]] \in {"stopping", "ended"} => inst[i][tasks[i]] \in {"stopping", "ended"}
    <3>1. PICK n \in TaskIds :
          /\ \A m \in TaskIds : m # n => inst'[i][m] = inst[i][m]
          /\ \/ inst'[i][n] \in {"running", "finishing", "failing"} /\ tasks'[i] = tasks[i]
             \/ inst[i][n] = "stopping" /\ inst'[i][n] = "ended" /\ tasks'[i] = tasks[i]
             \/ tasks'[i] = 0
      BY <1>8 DEF Happens
    <3> QED
      BY <1>0, <3>1 DEF Held
  <2> QED
    BY <1>0, <2>1, <2>2 DEF Held
<1>9. CASE Marks(i)
  BY <1>0, <1>9 DEF Marks, AutoSame, Held
<1> QED
  BY <1>1, <1>2, <1>4, <1>5, <1>6, <1>7, <1>8, <1>9 DEF ItemMoves

\* The invariant with the operations and shutdown in it.
CallsInv == Inv /\ Shapes /\ ShutOK

\* The invariant holds at first,
LEMMA CallsInvInit == Init => CallsInv
<1> SUFFICES ASSUME Init PROVE CallsInv
  OBVIOUS
<1>1. Inv
  BY InitInv
<1>2. Shapes /\ ShutOK
  BY DEF Init, Shapes, Shape, ShutOK, NoShutdown
<1> QED
  BY <1>1, <1>2 DEF CallsInv

\* every step keeps it,
LEMMA CallsInvNext == CallsInv /\ [Next]_vars => CallsInv'
<1> SUFFICES ASSUME Inv, Shapes, ShutOK, [Next]_vars PROVE CallsInv'
  BY DEF CallsInv
<1>1. Inv'
  BY NextKeeps
<1>2. Shapes'
  BY NextGoesOn, ShapesKept
<1>3. ShutOK'
  BY <1>1, NextPlaces, ShutKept
<1> QED
  BY <1>1, <1>2, <1>3 DEF CallsInv

\* and so it holds throughout.
LEMMA CallsInvariance == Spec => []CallsInv
BY CallsInvInit, CallsInvNext, PTL DEF Spec

\* Every task that has ended and still counts in the limits is on its way out
\* of the map, whatever operations overlap, unless a file cannot be removed.
THEOREM SlotsHeld == "rm" \notin Faults => (Spec => []SlotsHeldByTransfers)
<1> SUFFICES ASSUME "rm" \notin Faults PROVE Spec => []SlotsHeldByTransfers
  OBVIOUS
<1> DEFINE HInv == CallsInv /\ \A i \in Items : Held(i)
<1>1. Init => HInv
  BY CallsInvInit DEF Init, Held
<1>2. HInv /\ [Next]_vars => HInv'
  <2> SUFFICES ASSUME CallsInv, \A i \in Items : Held(i), [Next]_vars PROVE HInv'
    OBVIOUS
  <2>1. Inv /\ Shapes /\ ShutOK /\ CallsInv' /\ Inv'
    BY CallsInvNext DEF CallsInv
  <2>2. HaltsKept /\ \A i \in Items : ItemMoves(i)
    BY <2>1, NextMoves DEF StepMoves
  <2>3. \A i \in Items : i \in shut.halting => i \in shut'.halting \/ tasks'[i] = 0
    BY <2>1, NextPlaces, ShutKept
  <2>4. \A i \in Items : Held(i)'
    BY <2>1, <2>2, <2>3, HeldKept
  <2> QED
    BY <2>1, <2>4
<1>3. HInv => SlotsHeldByTransfers
  BY DEF SlotsHeldByTransfers, Held, Halting
<1> QED
  BY <1>1, <1>2, <1>3, PTL DEF Spec

-----------------------------------------------------------------------------
(* Users that wait.  The code does not make them: what follows is conditional *)

\* Users ask for one operation on an item at a time, resume it when its last task
\* has ended and quit when nothing is being added, and the windows of the schedules
\* turn once at most.  Without any of these the properties below fail.
Steady == Serial /\ (Scheduled = {} \/ MaxTurns <= 1)

\* No pass will ever start the item again.
Barred(i) == Known(i) /\ \A q \in Queues : i \in InQueue(q) => ~open[q] /\ turns >= MaxTurns

Parked(i) == scheduledPauses[i] # 0 \/ \E r \in RoundIds : auto[i][r] # "none"
Occupied(i) == tasks[i] # 0 \/ Halting(i) \/ \E n \in TaskIds : Live(i, n)

\* Who has a task does not wait for one; a task that transfers is the one in
\* the map; an automatic pause or an operation that waits has stopped it.
Lone(i) ==
    /\ Parked(i) => Barred(i) /\ Quiet(i)
    /\ Occupied(i) => Barred(i) \/ ~InLine(i)
    /\ Halting(i) => Quiet(i)
    /\ \A m, n \in TaskIds : Live(i, m) /\ Live(i, n) => m = n
    /\ \A n \in TaskIds : Transferring(i, n) => tasks[i] = n
    /\ ~Known(i) => ~Occupied(i) /\ ~Parked(i) /\ status[i] = "added"

\* Before its window opens no item of a queue has a task.
Unopened(i) ==
    turns = 0 => \A q \in Queues : i \in InQueue(q) /\ ~open[q] => tasks[i] = 0

\* Operations are about known items, and wait for the automatic pause of a barred one.
Asked(i) == \E c \in 1..Slots : \E n \in DOMAIN calls[c].left : calls[c].left[n] = i
SettlesBarred ==
    \A i \in Items : \A c \in 1..Slots :
        calls[c].pc = "settle" /\ Head(calls[c].left) = i => Barred(i)

\* shutdown() begins while nothing is being added, and stops every task.
QuitsQuietly ==
    /\ shut.pc # "no" => ~Adding
    /\ shut.pc \in {"pausing", "saving", "done"} => \A i \in Items : Quiet(i)

\* What still transfers in a stopped queue is what its stopQueue has yet to come to.
StopReaches(q, i) ==
    ~running[q] /\ i \in InQueue(q) /\ ~Quiet(i) =>
        \E c \in 1..Slots : /\ calls[c].op = "stopQueue" /\ calls[c].q = q
                            /\ \E n \in DOMAIN calls[c].left : calls[c].left[n] = i

\* How the windows turn.
Turns ==
    \/ open' = open /\ turns' = turns
    \/ /\ turns < MaxTurns /\ turns' = turns + 1
       /\ \A q \in Queues : open'[q] # open[q] => q \in Scheduled
       /\ UNCHANGED <<entry, status, order, running, work, calls, shut>>

\* Every step leaves the windows alone or is a turn.
LEMMA NextTurns ==
    ASSUME Inv, [Next]_vars
    PROVE  Turns
<1>1. CASE \E q \in Queues : Turn(q)
  BY <1>1 DEF Turn, Turns, Inv, TypeOK
<1>2. CASE UserStep
  <2>1. ASSUME NEW op, NEW i \in Items, AskItem(op, i) PROVE Turns
    BY <2>1 DEF AskItem, Turns
  <2>2. ASSUME NEW op, NEW i \in Items, NEW q \in Queues, Add(op, i, q) PROVE Turns
    BY <2>2 DEF Add, Turns
  <2>3. ASSUME NEW q \in Queues, StartQueue(q) \/ StopQueue(q) PROVE Turns
    BY <2>3 DEF StartQueue, StopQueue, Turns
  <2>4. CASE Shutdown
    BY <2>4 DEF Shutdown, Turns, setup
  <2> QED
    BY <1>2, <2>1, <2>2, <2>3, <2>4 DEF UserStep
<1>3. ASSUME NEW c \in 1..Slots, CallStep(c) PROVE Turns
  BY <1>3 DEF CallStep, StopNext, Settled, Halted, HaltFails, Erased, EraseFails, Saved, SaveFails,
              Marked, VaultCleared, VaultFails, bounds, setup, Turns
<1>4. ASSUME NEW i \in Items, NEW n \in TaskIds, TaskStep(i, n) PROVE Turns
  BY <1>4 DEF TaskStep, Opened, OpenFails, Transferred, Emits, Reported, ReportFails, Turns, bounds, setup
<1>5. ASSUME NEW i \in Items, NEW r \in RoundIds, AutoStep(i, r) PROVE Turns
  BY <1>5 DEF AutoStep, AutoPaused, AutoSaved, AutoSaveFails, Turns, bounds, setup
<1>6. CASE ShutStep
  <2>1. CASE \E i \in Items : ShutdownHalted(i)
    BY <2>1 DEF ShutdownHalted, setup, bounds, Turns
  <2> QED
    BY <1>6, <2>1 DEF ShutStep, ShutdownPauses, ShutdownDrains, ShutdownDone, setup, bounds, Turns
<1>7. CASE Tick \/ UNCHANGED vars
  BY <1>7 DEF Tick, vars, Turns, bounds, setup
<1> QED
  BY <1>1, <1>2, <1>3, <1>4, <1>5, <1>6, <1>7 DEF Next

\* A barred item stays barred.
LEMMA BarredStays ==
    ASSUME Inv, Turns, NEW i \in Items, PlaceMoves(i), Barred(i)
    PROVE  Barred(i)'
<1>1. turns \in Nat /\ MaxTurns \in Nat /\ turns' >= turns
  BY ManagerAssumption DEF Inv, TypeOK, Turns
<1>2. Known(i)'
  BY DEF PlaceMoves, Barred, Known, Listed
<1>3. ASSUME NEW q \in Queues, i \in InQueue(q)' PROVE ~open'[q] /\ turns' >= MaxTurns
  <2>1. i \in InQueue(q)
    BY <1>3 DEF PlaceMoves, Barred
  <2>2. ~open[q] /\ turns >= MaxTurns
    BY <2>1 DEF Barred
  <2> QED
    BY <1>1, <2>2 DEF Turns
<1> QED
  BY <1>2, <1>3 DEF Barred

\* What a pass expels from its queue is barred.
LEMMA ExpelsBarred ==
    ASSUME Inv, Steady, NEW i \in Items, Unopened(i), Expels(i)
    PROVE  Barred(i)
<1>1. PICK q \in Queues : q \in Scheduled /\ ~open[q] /\ i \in InQueue(q)
  BY DEF Expels
<1>2. tasks[i] # 0 /\ Listed(i)
  BY DEF Expels
<1>3. turns # 0 /\ MaxTurns <= 1
  BY <1>1, <1>2 DEF Unopened, Steady
<1>4. turns >= MaxTurns
  BY <1>3, ManagerAssumption DEF Inv, TypeOK
<1>5. \A p \in Queues : i \in InQueue(p) => p = q
  BY <1>1 DEF Inv, ItemsPlaced, InQueue
<1> QED
  BY <1>1, <1>2, <1>4, <1>5 DEF Barred, Known, Listed

\* What a pass starts, or would start, is not.
LEMMA BegunNotBarred ==
    ASSUME NEW i \in Items, Lone(i), Begins(i) \/ Refused(i)
    PROVE  ~Barred(i) /\ ~Parked(i) /\ ~Occupied(i)
<1>1. ~Barred(i)
  BY DEF Begins, Refused, Barred
<1> QED
  BY <1>1 DEF Begins, Refused, Lone

\* What happens to the tasks of an item that nobody starts.
LEMMA HaltsQuiet ==
    ASSUME Inv, NEW i \in Items, Lone(i), Halts(i)
    PROVE  /\ \A n \in TaskIds : ~(inst'[i][n] \in {"loading", "running"})
           /\ \A n \in TaskIds : Live(i, n)' => Live(i, n)
<1> SUFFICES ASSUME NEW n \in TaskIds
             PROVE  ~(inst'[i][n] \in {"loading", "running"}) /\ (Live(i, n)' => Live(i, n))
  OBVIOUS
<1>1. Transferring(i, n) => n = tasks[i]
  BY DEF Lone
<1>2. \/ Cooled(i, n) /\ (n = tasks[i] => ~Transferring(i, n))
      \/ inst[i][n] = "loading" /\ inst'[i][n] = "stopping"
      \/ inst[i][n] = "running" /\ inst'[i][n] = "ended"
  BY DEF Halts
<1> QED
  BY <1>1, <1>2 DEF Cooled, Transferring, Live

\* An item of which no task transfers and none is new.
LEMMA QuietLone ==
    ASSUME NEW i \in Items, Lone(i),
           Barred(i) => Barred(i)', Known(i)', Known(i),
           Parked(i)' => Barred(i)',
           Occupied(i)' => Barred(i)' \/ ~InLine(i)',
           Quiet(i)', \A n \in TaskIds : Live(i, n)' => Live(i, n)
    PROVE  Lone(i)'
BY DEF Lone, Quiet

\* An operation that stops the task keeps the item to one task.
LEMMA StopsLone ==
    ASSUME Inv, NEW i \in Items, Lone(i), Barred(i) => Barred(i)', Known(i) => Known(i)', Stops(i)
    PROVE  Lone(i)'
<1>1. /\ Known(i) /\ Halts(i) /\ AutoSame(i) /\ tasks'[i] = tasks[i] /\ Occupied(i)
      /\ status'[i] = "paused" \/ status'[i] = status[i]
  BY DEF Stops, Inv, Fresh, Known, Occupied
<1>2. Parked(i)' => Barred(i)'
  BY <1>1 DEF Parked, AutoSame, Lone
<1>3. Barred(i)' \/ ~InLine(i)'
  BY <1>1 DEF Lone, InLine
<1>4. Quiet(i)' /\ \A n \in TaskIds : Live(i, n)' => Live(i, n)
  BY <1>1, HaltsQuiet DEF Quiet, Transferring
<1> QED
  BY <1>1, <1>2, <1>3, <1>4, QuietLone

\* Its tasks go on as they were.
LEMMA SameLone ==
    ASSUME NEW i \in Items, Lone(i), Barred(i) => Barred(i)', Known(i) <=> Known(i)',
           status'[i] = status[i] \/ (Known(i) /\ ~InLine(i)'),
           tasks'[i] = tasks[i] \/ (tasks'[i] = 0 /\ Quiet(i)'),
           Parked(i)' => Parked(i), Halting(i)' => Halting(i),
           \A n \in TaskIds : Transferring(i, n)' => Transferring(i, n),
           \A n \in TaskIds : Live(i, n)' => Live(i, n)
    PROVE  Lone(i)'
<1>1. Occupied(i)' => Occupied(i)
  BY DEF Occupied
<1>2. Quiet(i) => Quiet(i)'
  BY DEF Quiet
<1>3. Occupied(i)' => Barred(i)' \/ ~InLine(i)'
  BY <1>1 DEF Lone, InLine
<1>4. \A n \in TaskIds : Transferring(i, n)' => tasks'[i] = n
  BY DEF Lone, Quiet
<1> QED
  BY <1>1, <1>2, <1>3, <1>4 DEF Lone

\* Every step does.
LEMMA LoneKept ==
    ASSUME CallsInv, Steady, HaltsKept, Turns, NEW i \in Items, Lone(i), Unopened(i),
           SettlesBarred, QuitsQuietly, Asked(i) => Known(i),
           ItemMoves(i), PlaceMoves(i)
    PROVE  Lone(i)'
<1>0. /\ Inv /\ WorkOK /\ (Barred(i) => Barred(i)') /\ (Known(i) => Known(i)')
      /\ Halting(i)' => Halting(i) \/ Stops(i)
      /\ ~Known(i) => tasks[i] = 0
      /\ Halting(i) => Occupied(i)
      /\ tasks[i] # 0 => Occupied(i)
  BY InvParts, BarredStays DEF CallsInv, PlaceMoves, Known, Listed, HaltsKept, Inv, Fresh, Occupied
<1>1. CASE Stops(i)
  BY <1>0, <1>1, StopsLone
<1>2. CASE ~Stops(i) /\ Idles(i)
  <2>1. Parked(i)' => Parked(i)
    BY <1>2 DEF Parked, Idles, AutoEbbs
  <2>2. \A n \in TaskIds : (Transferring(i, n)' => Transferring(i, n)) /\ (Live(i, n)' => Live(i, n))
    BY <1>2 DEF Idles, Cooled, Transferring, Live
  <2>3. CASE Known(i) <=> Known(i)'
    BY <1>0, <1>2, <2>1, <2>2, <2>3, SameLone DEF Idles
  <2>4. CASE ~Known(i) /\ Known(i)'
    <3>1. ~Occupied(i)' /\ ~Parked(i)'
      BY <1>0, <1>2, <2>1, <2>2, <2>4 DEF Lone, Occupied, Idles
    <3> QED
      BY <2>4, <3>1, <2>2 DEF Lone, Occupied, Live, Transferring
  <2> QED
    BY <1>0, <2>3, <2>4
<1>3. CASE Begins(i)
  <2>1. ~Barred(i) /\ ~Parked(i) /\ ~Occupied(i)
    BY <1>3, BegunNotBarred
  <2>2. ~Parked(i)'
    BY <1>3, <2>1 DEF Parked, Begins, AutoLess
  <2>3. ~Halting(i)'
    BY <1>0, <2>1 DEF Stops, Occupied
  <2>4. ~InLine(i)' /\ Known(i)'
    BY <1>0, <1>3 DEF InLine, Begins, Known, Listed
  <2>5. \A n \in TaskIds : Live(i, n)' => n = tasks'[i]
    BY <1>3, <2>1 DEF Begins, Cooled, Occupied, Live
  <2>6. \A n \in TaskIds : Transferring(i, n)' => n = tasks'[i]
    BY <2>5 DEF Live, Transferring
  <2> QED
    BY <2>2, <2>3, <2>4, <2>5, <2>6 DEF Lone
<1>4. CASE Expels(i)
  <2>1. Barred(i) /\ Barred(i)'
    BY <1>0, <1>4, ExpelsBarred
  <2>2. Quiet(i)' /\ \A n \in TaskIds : Live(i, n)' => Live(i, n)
    BY <1>0, <1>4, HaltsQuiet DEF Expels, Quiet, Transferring
  <2> QED
    BY <1>0, <2>1, <2>2, QuietLone DEF Barred
<1>5. CASE ~Stops(i) /\ QuitStops(i)
  <2>1. Quiet(i)' /\ \A n \in TaskIds : Live(i, n)' => Live(i, n)
    BY <1>0, <1>5, HaltsQuiet DEF QuitStops, Quiet, Transferring
  <2>2. Parked(i)' => Barred(i)'
    BY <1>0, <1>5 DEF Parked, QuitStops, AutoEbbs, Lone
  <2>3. ~InLine(i)' /\ Known(i)
    BY <1>0, <1>5 DEF InLine, QuitStops
  <2> QED
    BY <1>0, <2>1, <2>2, <2>3, QuietLone
<1>6. CASE ~Stops(i) /\ Clears(i)
  <2>1. /\ inst'[i] = inst[i] /\ tasks'[i] = 0
        /\ OperationClears(i) \/ AutoClears(i) \/ QuitClears(i)
    BY <1>6 DEF Clears
  <2>2. Quiet(i) /\ Known(i)
    <3>1. CASE OperationClears(i)
      BY <1>0, <3>1 DEF OperationClears, Lone, Halting
    <3>2. CASE AutoClears(i)
      BY <1>0, <3>2 DEF AutoClears, Parked, Lone
    <3>3. CASE QuitClears(i)
      BY <3>3 DEF QuitClears, CallsInv, ShutOK, QuitsQuietly
    <3> QED
      BY <2>1, <3>1, <3>2, <3>3
  <2>3. Quiet(i)' /\ \A n \in TaskIds : Live(i, n)' => Live(i, n)
    BY <2>1, <2>2 DEF Quiet, Transferring, Live
  <2>4. Parked(i)' => Parked(i)
    BY <2>1 DEF OperationClears, AutoClears, QuitClears, AutoSame, AutoLess, Parked
  <2>5. Occupied(i)' => Occupied(i)
    BY <1>0, <1>6, <2>1 DEF Occupied, Live
  <2>6. Occupied(i)' => Barred(i)' \/ ~InLine(i)'
    <3>1. CASE AutoClears(i)
      BY <1>0, <3>1 DEF AutoClears, Parked, Lone
    <3>2. CASE OperationClears(i) \/ QuitClears(i)
      <4>1. status'[i] \in {status[i], "cancelled"}
        BY <3>2 DEF OperationClears, QuitClears
      <4> QED
        BY <1>0, <2>5, <4>1 DEF InLine, Lone
    <3> QED
      BY <2>1, <3>1, <3>2
  <2> QED
    BY <1>0, <2>2, <2>3, <2>4, <2>6, QuietLone DEF Lone
<1>7. CASE ~Stops(i) /\ Happens(i)
  <2>1. Parked(i)' => Parked(i)
    BY <1>7 DEF Happens, AutoSame, Parked
  <2>2. PICK n \in TaskIds :
          /\ \A m \in TaskIds : m # n => inst'[i][m] = inst[i][m]
          /\ \/ /\ inst[i][n] = "loading" /\ inst'[i][n] = "running"
                /\ status'[i] = "downloading" /\ tasks'[i] = tasks[i]
             \/ /\ inst[i][n] = "stopping" /\ inst'[i][n] = "ended"
                /\ status'[i] = status[i] /\ tasks'[i] = tasks[i]
             \/ /\ inst[i][n] \in {"loading", "stopping"} /\ inst'[i][n] = "reporting"
                /\ status'[i] = "error" /\ tasks'[i] = 0
             \/ /\ inst[i][n] = "running" /\ inst'[i][n] \in {"finishing", "failing"}
                /\ status'[i] \in {"completed", "error"} /\ tasks'[i] = tasks[i]
             \/ /\ inst[i][n] \in {"finishing", "failing"} /\ inst'[i][n] = "reporting"
                /\ status'[i] = status[i] /\ tasks'[i] = 0
    BY <1>7 DEF Happens
  <2>3. Live(i, n) /\ Known(i) /\ Known(i)'
    BY <1>0, <2>2 DEF Live, Lone, Occupied
  <2>4. \A m \in TaskIds : (Transferring(i, m)' => Transferring(i, m)) /\ (Live(i, m)' => Live(i, m))
    BY <2>2 DEF Transferring, Live
  <2>5. status'[i] = status[i] \/ ~InLine(i)'
    BY <2>2 DEF InLine
  <2>6. tasks'[i] # tasks[i] => tasks'[i] = 0 /\ Quiet(i)'
    <3> SUFFICES ASSUME tasks'[i] # tasks[i], NEW m \in TaskIds
                 PROVE  tasks'[i] = 0 /\ ~Transferring(i, m)'
      BY DEF Quiet
    <3>1. tasks'[i] = 0 /\ inst'[i][n] = "reporting"
      BY <2>2
    <3>2. CASE m = n
      BY <3>1, <3>2 DEF Transferring
    <3>3. CASE m # n
      <4>1. ~Live(i, m)
        BY <2>3, <3>3 DEF Lone
      <4> QED
        BY <2>2, <3>1, <3>3, <4>1 DEF Live, Transferring
    <3> QED
      BY <3>2, <3>3
  <2> QED
    BY <1>0, <1>7, <2>1, <2>3, <2>4, <2>5, <2>6, SameLone
<1>8. CASE ~Stops(i) /\ Marks(i)
  <2>1. tasks'[i] = tasks[i] /\ inst'[i] = inst[i] /\ AutoSame(i)
    BY <1>8 DEF Marks
  <2>2. /\ Parked(i)' => Parked(i)
        /\ \A m \in TaskIds : (Transferring(i, m)' => Transferring(i, m)) /\ (Live(i, m)' => Live(i, m))
        /\ Occupied(i)' => Occupied(i)
    BY <1>0, <1>8, <2>1 DEF AutoSame, Parked, Transferring, Live, Occupied
  <2>3. CASE Known(i) /\ status'[i] \in {"paused", "cancelled"}
    <3>1. ~InLine(i)'
      BY <2>3 DEF InLine
    <3> QED
      BY <1>0, <1>8, <2>1, <2>2, <2>3, <3>1, SameLone
  <2>4. ASSUME NEW c \in 1..Slots, calls[c].pc = "erasing", Head(calls[c].left) = i
        PROVE  Known(i)
    BY <1>0, <2>4, InFlight DEF Asked, OnItem, Workplaces
  <2>5. CASE Known(i) /\ status'[i] = "queued"
             /\ \/ AtRest(i) /\ ~Busy(i)
                \/ \E c \in 1..Slots : calls[c].pc = "settle" /\ Head(calls[c].left) = i
    <3>1. Occupied(i)' => Barred(i)'
      <4>1. CASE AtRest(i) /\ ~Busy(i)
        <5>1. \A n \in TaskIds : ~Live(i, n)
          BY <4>1 DEF AtRest, Live
        <5>2. ~Halting(i)
          BY <1>0, <4>1, InFlight, NoCallFacts DEF Halting, Busy, OnItem, Workplaces
        <5>3. tasks[i] = 0 \/ Parked(i)
          BY <4>1 DEF AtRest, Parked
        <5> QED
          BY <1>0, <2>2, <5>1, <5>2, <5>3 DEF Occupied, Lone
      <4>2. CASE \E c \in 1..Slots : calls[c].pc = "settle" /\ Head(calls[c].left) = i
        BY <1>0, <4>2 DEF SettlesBarred
      <4> QED
        BY <2>5, <4>1, <4>2
    <3>2. Known(i)'
      BY <1>0, <2>5
    <3> QED
      BY <1>0, <1>8, <2>1, <2>2, <3>1, <3>2, <2>5 DEF Lone, Quiet
  <2>6. CASE ~Known(i) /\ Known(i)'
    <3>1. ~Occupied(i)' /\ ~Parked(i)'
      BY <2>2, <2>6 DEF Lone
    <3> QED
      BY <2>6, <3>1, <2>2 DEF Lone, Occupied, Live, Transferring
  <2> QED
    BY <1>8, <2>3, <2>4, <2>5, <2>6 DEF Marks, Steady
<1>9. CASE Refused(i)
  <2>1. ~Parked(i) /\ ~Occupied(i)
    BY <1>9, BegunNotBarred
  <2>2. ~Parked(i)'
    BY <1>9, <2>1 DEF Parked, Refused, AutoLess
  <2>3. ~Halting(i)'
    BY <1>0, <2>1 DEF Stops, Occupied
  <2>4. Known(i)'
    BY <1>0, <1>9 DEF Refused, Known, Listed
  <2>5. \A n \in TaskIds : ~Live(i, n)' /\ ~Transferring(i, n)'
    BY <1>9, <2>1 DEF Refused, Cooled, Occupied, Live, Transferring
  <2>6. ~Occupied(i)'
    BY <1>9, <2>3, <2>5 DEF Refused, Occupied
  <2> QED
    BY <2>2, <2>3, <2>4, <2>5, <2>6 DEF Lone, Quiet
<1> QED
  BY <1>1, <1>2, <1>3, <1>4, <1>5, <1>6, <1>7, <1>8, <1>9 DEF ItemMoves

\* No task comes to an item of a queue whose window has not been open.
LEMMA UnopenedKept ==
    ASSUME Inv, Turns, NEW i \in Items, Unopened(i), ItemMoves(i), PlaceMoves(i)
    PROVE  Unopened(i)'
<1> SUFFICES ASSUME turns' = 0, NEW q \in Queues, i \in InQueue(q)', ~open'[q], tasks'[i] # 0
             PROVE  FALSE
  BY DEF Unopened
<1>1. turns \in Nat
  BY DEF Inv, TypeOK
<1>2. turns = 0 /\ ~open[q]
  BY <1>1 DEF Turns
<1>3. CASE i \in InQueue(q)
  <2>1. tasks[i] = 0
    BY <1>2, <1>3 DEF Unopened
  <2>2. Begins(i)
    BY <2>1 DEF ItemMoves, Idles, Expels, Stops, QuitStops, Clears, Happens, Marks, Refused
  <2>3. PICK p \in Queues : open[p] /\ i \in InQueue(p)
    BY <2>2 DEF Begins
  <2>4. p = q
    BY <1>3, <2>3 DEF Inv, ItemsPlaced, InQueue
  <2> QED
    BY <1>2, <2>3, <2>4
<1>4. CASE i \notin InQueue(q)
  <2>1. ~Known(i)
    BY <1>4 DEF PlaceMoves
  <2>2. tasks[i] = 0 /\ ~Listed(i)
    BY <2>1 DEF Inv, Fresh, Known, Listed
  <2> QED
    BY <2>2 DEF ItemMoves, Idles, Begins, Expels, Stops, QuitStops, Clears, Happens, Marks, Refused
<1> QED
  BY <1>3, <1>4

\* Whom an operation is about.
About(c, i) == \E n \in DOMAIN calls[c].left : calls[c].left[n] = i

\* The rest of a list holds what its head is not.
LEMMA TailPart ==
    ASSUME NEW s \in Seq(Items), s # <<>>
    PROVE  /\ \A n \in DOMAIN Tail(s) : \E m \in DOMAIN s : Tail(s)[n] = s[m]
           /\ \A m \in DOMAIN s : s[m] = Head(s) \/ \E n \in DOMAIN Tail(s) : Tail(s)[n] = s[m]
<1>1. ASSUME NEW n \in DOMAIN Tail(s) PROVE \E m \in DOMAIN s : Tail(s)[n] = s[m]
  <2>1. n + 1 \in DOMAIN s /\ Tail(s)[n] = s[n + 1]
    OBVIOUS
  <2> QED
    BY <2>1
<1>2. ASSUME NEW m \in DOMAIN s, s[m] # Head(s) PROVE \E n \in DOMAIN Tail(s) : Tail(s)[n] = s[m]
  <2>1. m # 1 /\ m \in 1..Len(s)
    BY <1>2
  <2>2. m - 1 \in DOMAIN Tail(s) /\ Tail(s)[m - 1] = s[m]
    BY <2>1
  <2> QED
    BY <2>2
<1> QED
  BY <1>1, <1>2

\* A step of an operation keeps it about its items, but for the one it is done with.
LEMMA AboutMoves ==
    ASSUME Inv, Shapes, NEW c \in 1..Slots, Continues(c)
    PROVE  /\ \A i \in Items : About(c, i)' => About(c, i)
           /\ calls[c].op = "stopQueue" =>
                  \/ calls'[c].op = "stopQueue" /\ calls'[c].q = calls[c].q
                     /\ \A i \in Items : About(c, i) =>
                           \/ About(c, i)'
                           \/ tasks[i] = 0 /\ tasks'[i] = 0
                           \/ tasks'[i] = 0 /\ inst'[i] = inst[i]
                  \/ calls[c].left = <<>>
<1>1. PICK call \in Call : /\ call = calls[c] /\ call.left \in Seq(Items)
                           /\ call.pc \in Workplaces => OnItem(call)
                           /\ call.pc = "next" /\ call.left # <<>> => OnItem(call)
                           /\ call.left # <<>> => Head(call.left) \in Items
  BY InFlight
<1>2. CASE \E pc : Goes(c, call, pc)
  BY <1>1, <1>2 DEF Goes, About
<1>3. CASE calls'[c] = NoCall
  <2>1. \A i \in Items : ~About(c, i)'
    BY <1>3, NoCallFacts DEF About
  <2>2. calls[c].op = "stopQueue" => calls[c].left = <<>>
    <3>1. SUFFICES ASSUME call.op = "stopQueue" PROVE call.left = <<>>
      BY <1>1
    <3>2. Shape(call)
      BY <1>1 DEF Shapes
    <3>3. call.pc = "saving" => call.left = <<>>
      BY <3>1, <3>2, NoCallFacts DEF Shape, ItemOps
    <3>4. call.pc \in {"next", "settle", "halting", "saving"}
      BY <3>1, <3>2, NoCallFacts DEF Shape, ItemOps
    <3>5. calls'[c].op = "none" /\ calls'[c].pc = "idle"
      BY <1>3, NoCallFacts
    <3>6. call.pc = "saving"
      BY <1>1, <3>1, <3>4, <3>5
         DEF Continues, Settling, Acts, Halted1, Done1, Resumed1, Skips1, Next1, Freed1, Goes
    <3> QED
      BY <3>3, <3>6
  <2> QED
    BY <2>1, <2>2
<1>4. CASE /\ Next1(c, call) /\ call.left # <<>>
           /\ tasks'[Head(call.left)] = 0 /\ inst'[Head(call.left)] = inst[Head(call.left)]
  <2>1. /\ calls'[c].left = Tail(call.left) /\ calls'[c].op = "stopQueue" /\ calls'[c].q = call.q
    BY <1>4 DEF Next1
  <2>2. \A i \in Items : About(c, i)' => About(c, i)
    BY <1>1, <1>4, <2>1, TailPart DEF About
  <2>3. \A i \in Items : About(c, i) => About(c, i)' \/ i = Head(call.left)
    BY <1>1, <1>4, <2>1, TailPart DEF About
  <2> QED
    BY <1>1, <1>4, <2>1, <2>2, <2>3
<1> QED
  <2>1. call.pc \in {"settle", "halting"} => call.left # <<>>
    BY <1>1 DEF OnItem, Workplaces
  <2>2. \/ \E pc : Goes(c, call, pc)
        \/ calls'[c] = NoCall
        \/ /\ Next1(c, call) /\ call.left # <<>>
           /\ tasks'[Head(call.left)] = 0 /\ inst'[Head(call.left)] = inst[Head(call.left)]
    BY <1>1, <2>1 DEF Continues, Settling, Acts, Halted1, Done1, Resumed1, Skips1, Freed1
  <2> QED
    BY <1>2, <1>3, <1>4, <2>2

\* Operations stay about items that are known.
AllKnown == \A i \in Items : Asked(i) => Known(i)

\* Every step keeps the operations about known items.
LEMMA AllKnownKept ==
    ASSUME Inv, Inv', Shapes, CallsMove, \A i \in Items : PlaceMoves(i), AllKnown
    PROVE  AllKnown'
<1> SUFFICES ASSUME NEW i \in Items, NEW c \in 1..Slots, About(c, i)' PROVE Known(i)'
  BY DEF AllKnown, Asked, About
<1>1. Known(i) => Known(i)'
  BY DEF PlaceMoves, Known, Listed
<1>2. CASE About(c, i)
  BY <1>1, <1>2 DEF AllKnown, Asked, About
<1>3. CASE ~About(c, i)
  <2>1. calls'[c] # calls[c]
    BY <1>3 DEF About
  <2>2. ItemAsked(c) \/ Added(c) \/ QueueAsked(c)
    BY <1>3, <2>1, AboutMoves DEF CallsMove, Others
  <2>3. CASE ItemAsked(c)
    <3>1. PICK j \in Items, call \in Call :
              /\ Known(j) /\ call.left = <<j>> /\ (Settling(c, call, j) \/ Acts(c, call, j))
              /\ call.op \in ItemOps
      BY <2>3 DEF ItemAsked
    <3>2. calls'[c].left = <<j>> \/ calls'[c] = NoCall
      BY <3>1 DEF Settling, Acts, Halted1, Done1, Resumed1, Skips1, Next1, Goes, ItemOps
    <3>3. i = j
      <4>1. CASE calls'[c] = NoCall
        BY <4>1, NoCallFacts DEF About
      <4>2. CASE calls'[c].left = <<j>>
        BY <4>2 DEF About
      <4> QED
        BY <3>2, <4>1, <4>2
    <3> QED
      BY <1>1, <3>1, <3>3
  <2>4. CASE Added(c)
    <3>1. PICK j \in Items : Known(j)' /\ calls'[c].left = <<j>>
      BY <2>4 DEF Added
    <3>2. i = j
      BY <3>1 DEF About
    <3> QED
      BY <3>1, <3>2
  <2>5. CASE QueueAsked(c)
    <3>1. PICK q \in Queues : calls'[c].left \in {<<>>, order[q]} /\ UNCHANGED order
      BY <2>5 DEF QueueAsked
    <3>2. i \in InQueue(q)'
      BY <3>1 DEF About, InQueue
    <3> QED
      BY <3>2 DEF Inv, ItemsPlaced, Listed, Known
  <2> QED
    BY <2>2, <2>3, <2>4, <2>5
<1> QED
  BY <1>2, <1>3

\* An operation that starts to wait for an automatic pause.
LEMMA SettlesKept ==
    ASSUME Inv, CallsMove, Turns, \A i \in Items : PlaceMoves(i) /\ Lone(i), SettlesBarred
    PROVE  SettlesBarred'
<1> SUFFICES ASSUME NEW i \in Items, NEW c \in 1..Slots,
                    calls'[c].pc = "settle", Head(calls'[c].left) = i
             PROVE  Barred(i)
  BY BarredStays DEF SettlesBarred
<1>1. CASE calls'[c] = calls[c]
  BY <1>1 DEF SettlesBarred
<1>2. CASE calls'[c] # calls[c]
  <2>1. ASSUME NEW j, NEW call, Settling(c, call, j), j = Head(call.left)
        PROVE  Barred(i)
    BY <2>1 DEF Settling, Goes, Lone, Parked
  <2>2. ASSUME NEW j, NEW call, Acts(c, call, j) PROVE FALSE
    BY <2>2, NoCallFacts DEF Acts, Halted1, Done1, Resumed1, Skips1, Next1, Goes
  <2>3. CASE ItemAsked(c)
    <3>1. PICK j \in Items, call \in Call : call.left = <<j>> /\ (Settling(c, call, j) \/ Acts(c, call, j))
      BY <2>3 DEF ItemAsked
    <3>2. j = Head(call.left)
      BY <3>1
    <3> QED
      BY <2>1, <2>2, <3>1, <3>2
  <2>4. CASE Continues(c)
    <3>1. Settling(c, calls[c], Head(calls[c].left))
      BY <2>2, <2>4, <1>2, NoCallFacts DEF Continues, Freed1, Next1, Goes
    <3> QED
      BY <2>1, <3>1
  <2>5. ItemAsked(c) \/ Continues(c)
    BY <1>2 DEF CallsMove, Others, Added, QueueAsked
  <2> QED
    BY <2>3, <2>4, <2>5
<1> QED
  BY <1>1, <1>2

\* shutdown() reaches its pauses by one step.
LEMMA ShutGoes ==
    ASSUME Inv, [Next]_vars, shut'.pc \in {"pausing", "saving", "done"}
    PROVE  shut.pc \in {"pausing", "saving", "done"} \/ ShutdownPauses
<1>1. CASE UNCHANGED shut
  BY <1>1
<1>2. CASE Shutdown
  BY <1>2 DEF Shutdown
<1>3. CASE ShutStep
  <2>1. CASE \E i \in Items : ShutdownHalted(i)
    BY <2>1 DEF ShutdownHalted, Inv, TypeOK
  <2> QED
    BY <1>3, <2>1 DEF ShutStep, ShutdownDrains, ShutdownDone
<1>4. ASSUME NEW i \in Items, NEW n \in TaskIds, TaskStep(i, n)
      PROVE  UNCHANGED shut
  BY <1>4 DEF TaskStep, Opened, OpenFails, Transferred, Emits, Reported, ReportFails
<1>5. ASSUME NEW i \in Items, NEW r \in RoundIds, AutoStep(i, r)
      PROVE  UNCHANGED shut
  BY <1>5 DEF AutoStep, AutoPaused, AutoSaved, AutoSaveFails
<1>6. ASSUME NEW c \in 1..Slots, CallStep(c)
      PROVE  UNCHANGED shut
  BY <1>6, CallStepGoes DEF Continues
<1>7. CASE UserStep
  <2>1. ASSUME NEW q \in Queues, StartQueue(q) \/ StopQueue(q) PROVE UNCHANGED shut
    BY <2>1 DEF StartQueue, StopQueue
  <2>2. ASSUME NEW op, NEW i \in Items, AskItem(op, i) PROVE UNCHANGED shut
    BY <2>2 DEF AskItem
  <2>3. ASSUME NEW op, NEW i \in Items, NEW q \in Queues, Add(op, i, q) PROVE UNCHANGED shut
    BY <2>3 DEF Add
  <2> QED
    BY <1>1, <1>2, <1>7, <2>1, <2>2, <2>3 DEF UserStep
<1>8. CASE Tick \/ UNCHANGED vars \/ \E q \in Queues : Turn(q)
  BY <1>1, <1>8 DEF Tick, vars, Turn
<1> QED
  BY <1>1, <1>3, <1>4, <1>5, <1>6, <1>7, <1>8 DEF Next

\* Only a pass makes an item transfer.
LEMMA StillQuiet ==
    ASSUME Inv, NEW i \in Items, Lone(i), ItemMoves(i), Quiet(i), ~Begins(i)
    PROVE  Quiet(i)'
<1> SUFFICES ASSUME NEW n \in TaskIds PROVE ~Transferring(i, n)'
  BY DEF Quiet
<1>1. ~Transferring(i, n)
  BY DEF Quiet
<1>2. CASE Cooled(i, n)
  BY <1>1, <1>2 DEF Cooled, Transferring
<1>3. CASE Halts(i)
  BY <1>3, HaltsQuiet DEF Transferring
<1>4. CASE Happens(i)
  <2>1. inst'[i][n] = inst[i][n] \/ inst'[i][n] \notin {"loading", "running"} \/ inst[i][n] = "loading"
    BY <1>4 DEF Happens
  <2> QED
    BY <1>1, <2>1 DEF Transferring
<1>5. CASE Idles(i) \/ Clears(i) \/ Marks(i) \/ Refused(i)
  BY <1>2, <1>5 DEF Idles, Clears, Marks, Cooled, Refused
<1> QED
  BY <1>3, <1>4, <1>5 DEF ItemMoves, Expels, Stops, QuitStops

\* shutdown() leaves nothing that transfers, and nothing starts after it.
LEMMA QuitsKept ==
    ASSUME Inv, Steady, [Next]_vars, CallsMove, QuitsQuietly, \A i \in Items : Lone(i) /\ ItemMoves(i)
    PROVE  QuitsQuietly'
<1>1. shut'.pc # "no" => ~Adding'
  <2>1. CASE UNCHANGED calls /\ (shut.pc = "no" /\ shut'.pc # "no" /\ Serial => ~Adding)
    BY <2>1 DEF QuitsQuietly, Adding, Steady
  <2>2. ASSUME NEW c \in 1..Slots, Others(c), ItemAsked(c) \/ Added(c) \/ QueueAsked(c)
        PROVE  shut'.pc = "no"
    BY <2>2 DEF ItemAsked, Added, QueueAsked
  <2>3. ASSUME NEW c \in 1..Slots, Others(c), Continues(c), shut'.pc # "no"
        PROVE  ~Adding'
    <3>1. shut.pc # "no" /\ ~Adding
      BY <2>3 DEF Continues, QuitsQuietly
    <3>2. calls[c].op # "add"
      BY <3>1 DEF Adding
    <3>3. calls'[c].op \in {calls[c].op, "stopQueue", "none"}
      BY <2>3, NoCallFacts DEF Continues, Settling, Acts, Halted1, Done1, Resumed1, Skips1, Next1, Freed1, Goes
    <3> QED
      BY <2>3, <3>1, <3>2, <3>3 DEF Adding, Others
  <2> QED
    BY <2>1, <2>2, <2>3 DEF CallsMove
<1>2. ASSUME shut'.pc \in {"pausing", "saving", "done"}, NEW i \in Items PROVE Quiet(i)'
  <2>1. CASE shut.pc \in {"pausing", "saving", "done"}
    <3>1. Quiet(i) /\ ~Begins(i)
      BY <2>1 DEF QuitsQuietly, Begins
    <3> QED
      BY <3>1, StillQuiet
  <2>2. CASE ShutdownPauses
    <3> SUFFICES ASSUME NEW n \in TaskIds PROVE ~Transferring(i, n)'
      BY DEF Quiet
    <3>1. inst'[i][n] = IF n = tasks[i] THEN HaltPc(inst[i][n]) ELSE inst[i][n]
      BY <2>2 DEF ShutdownPauses
    <3>2. inst[i][n] \in TaskPcs /\ (Transferring(i, n) => n = tasks[i])
      BY DEF Inv, TypeOK, Lone
    <3> QED
      BY <3>1, <3>2, HaltPcFacts DEF Transferring
  <2> QED
    BY <1>2, <2>1, <2>2, ShutGoes
<1> QED
  BY <1>1, <1>2 DEF QuitsQuietly

\* stopQueue comes to every task of its queue.
LEMMA StopReachesKept ==
    ASSUME Inv, Inv', Shapes, CallsMove, NEW i \in Items, NEW q \in Queues,
           StopReaches(q, i), Lone(i), Lone(i)', ItemMoves(i), PlaceMoves(i)
    PROVE  StopReaches(q, i)'
<1> SUFFICES ASSUME ~running'[q], i \in InQueue(q)', ~Quiet(i)'
             PROVE  \E c \in 1..Slots : calls'[c].op = "stopQueue" /\ calls'[c].q = q /\ About(c, i)'
  BY DEF StopReaches, About
<1>1. i \in InQueue(q)
  <2>1. CASE ~Known(i)
    <3>1. ~Begins(i) /\ Quiet(i)
      BY <2>1 DEF Begins, Known, Listed, Lone, Occupied, Quiet, Live, Transferring
    <3> QED
      BY <3>1, StillQuiet
  <2> QED
    BY <2>1 DEF PlaceMoves
<1>2. CASE \E c \in 1..Slots : Others(c) /\ QueueAsked(c)
  <2>1. PICK c \in 1..Slots : Others(c) /\ QueueAsked(c)
    BY <1>2
  <2>2. ~Quiet(i) /\ calls[c] = NoCall
    BY <2>1 DEF QueueAsked, Quiet, Transferring
  <2>3. CASE ~running[q]
    <3>1. PICK d \in 1..Slots : calls[d].op = "stopQueue" /\ calls[d].q = q /\ About(d, i)
      BY <1>1, <2>2, <2>3 DEF StopReaches, About
    <3>2. d # c
      BY <2>2, <3>1, NoCallFacts
    <3> QED
      BY <2>1, <3>1, <3>2 DEF Others, About
  <2>4. CASE running[q]
    <3>1. calls'[c].op = "stopQueue" /\ calls'[c].q = q /\ calls'[c].left = order[q]
      BY <2>1, <2>4 DEF QueueAsked
    <3> QED
      BY <1>1, <3>1 DEF About, InQueue
  <2> QED
    BY <2>3, <2>4
<1>3. CASE ~\E c \in 1..Slots : Others(c) /\ QueueAsked(c)
  <2>0. PICK t \in TaskIds : Transferring(i, t)'
    BY DEF Quiet
  <2>1. ~Quiet(i) \/ Begins(i)
    BY StillQuiet
  <2>2. tasks'[i] # 0
    BY <2>0, ManagerAssumption DEF Lone, TaskIds
  <2>3. ASSUME ~running[q] PROVE ~Begins(i)
    <3> SUFFICES ASSUME Begins(i) PROVE FALSE
      OBVIOUS
    <3>1. PICK p \in Queues : running[p] /\ i \in InQueue(p)
      BY DEF Begins
    <3>2. p = q
      BY <1>1, <3>1 DEF Inv, ItemsPlaced, InQueue
    <3> QED
      BY <2>3, <3>1, <3>2
  <2>4. CASE UNCHANGED <<calls, running>>
    <3>1. ~running[q] /\ ~Quiet(i)
      BY <2>1, <2>3, <2>4
    <3> QED
      BY <1>1, <2>4, <3>1 DEF StopReaches, About
  <2>5. ASSUME NEW c \in 1..Slots, Others(c), ItemAsked(c) \/ Added(c) \/ Continues(c)
        PROVE  \E d \in 1..Slots : calls'[d].op = "stopQueue" /\ calls'[d].q = q /\ About(d, i)'
    <3>0. CASE ~running[q]
      <4>1. ~Quiet(i)
        BY <2>1, <2>3, <3>0
      <4>2. PICK d \in 1..Slots : calls[d].op = "stopQueue" /\ calls[d].q = q /\ About(d, i)
        BY <1>1, <3>0, <4>1 DEF StopReaches, About
      <4>3. CASE d # c
        BY <2>5, <4>2, <4>3 DEF Others, About
      <4>4. CASE d = c
        <5>1. Continues(c)
          BY <2>5, <4>2, <4>4, NoCallFacts DEF ItemAsked, Added
        <5>2. calls[c].left # <<>>
          BY <4>2, <4>4 DEF About
        <5> QED
          BY <2>2, <4>2, <4>4, <5>1, <5>2, AboutMoves
      <4> QED
        BY <4>3, <4>4
    <3>1. CASE running[q]
      BY <2>5, <3>1 DEF Continues, ItemAsked, Added
    <3> QED
      BY <3>0, <3>1
  <2> QED
    BY <1>3, <2>4, <2>5 DEF CallsMove
<1> QED
  BY <1>2, <1>3

\* The invariant of a manager of which one operation on an item is asked at a time.
SerialInv ==
    /\ CallsInv
    /\ \A i \in Items : Lone(i) /\ Unopened(i)
    /\ AllKnown /\ SettlesBarred /\ QuitsQuietly
    /\ \A q \in Queues : \A i \in Items : StopReaches(q, i)

\* The invariant holds at first,
LEMMA SerialInvInit == Init => SerialInv
<1> SUFFICES ASSUME Init PROVE SerialInv
  OBVIOUS
<1>1. CallsInv /\ calls = [c \in 1..Slots |-> NoCall]
  BY CallsInvInit DEF Init
<1>2. \A c \in 1..Slots : calls[c].pc = "idle" /\ calls[c].left = <<>> /\ calls[c].op = "none"
  BY <1>1, NoCallFacts
<1>3. AllKnown /\ SettlesBarred /\ ~Adding /\ \A i \in Items : ~Halting(i)
  BY <1>2 DEF AllKnown, Asked, SettlesBarred, Adding, Halting
<1>4. ASSUME NEW i \in Items
      PROVE  /\ tasks[i] = 0 /\ status[i] = "added" /\ entry[i] = "absent" /\ scheduledPauses[i] = 0
             /\ \A n \in TaskIds : inst[i][n] = "ended"
             /\ \A r \in RoundIds : auto[i][r] = "none"
  BY DEF Init
<1>5. ASSUME NEW i \in Items PROVE Lone(i) /\ Unopened(i) /\ Quiet(i)
  <2>1. ~Parked(i) /\ ~Occupied(i)
    BY <1>3, <1>4 DEF Parked, Occupied, Live
  <2>2. \A n \in TaskIds : ~Live(i, n) /\ ~Transferring(i, n)
    BY <1>4 DEF Live, Transferring
  <2> QED
    BY <1>3, <1>4, <2>1, <2>2 DEF Lone, Unopened, Quiet
<1>6. QuitsQuietly
  BY <1>3 DEF QuitsQuietly, Init, NoShutdown
<1> QED
  BY <1>1, <1>3, <1>5, <1>6 DEF SerialInv, StopReaches

\* every step keeps it,
LEMMA SerialInvNext ==
    ASSUME Steady, SerialInv, [Next]_vars
    PROVE  SerialInv'
<1>1. Inv /\ Shapes /\ ShutOK /\ CallsInv /\ CallsInv' /\ Inv'
  BY CallsInvNext DEF SerialInv, CallsInv
<1>2. HaltsKept /\ (\A i \in Items : ItemMoves(i)) /\ (\A i \in Items : PlaceMoves(i)) /\ CallsMove /\ Turns
  BY <1>1, NextMoves, NextPlaces, NextGoesOn, NextTurns DEF StepMoves
<1>3. ASSUME NEW i \in Items PROVE Lone(i)' /\ Unopened(i)'
  <2>1. Lone(i) /\ Unopened(i) /\ SettlesBarred /\ QuitsQuietly /\ (Asked(i) => Known(i))
    BY DEF SerialInv, AllKnown
  <2> QED
    BY <1>1, <1>2, <2>1, LoneKept, UnopenedKept
<1>4. AllKnown'
  BY <1>1, <1>2, AllKnownKept DEF SerialInv
<1>5. SettlesBarred'
  BY <1>1, <1>2, SettlesKept DEF SerialInv
<1>6. QuitsQuietly'
  BY <1>1, <1>2, QuitsKept DEF SerialInv
<1>7. ASSUME NEW q \in Queues, NEW i \in Items PROVE StopReaches(q, i)'
  BY <1>1, <1>2, <1>3, StopReachesKept DEF SerialInv
<1> QED
  BY <1>1, <1>3, <1>4, <1>5, <1>6, <1>7 DEF SerialInv

\* and so it holds throughout.
LEMMA SerialInvariance == Steady => (Spec => []SerialInv)
<1> SUFFICES ASSUME Steady PROVE Spec => []SerialInv
  OBVIOUS
<1>1. SerialInv /\ [Next]_vars => SerialInv'
  BY SerialInvNext
<1> QED
  BY <1>1, SerialInvInit, PTL DEF Spec

\* One transfer for each task in the map.
LEMMA TransfersCounted ==
    ASSUME SerialInv
    PROVE  TransfersWithinLimit
<1> DEFINE T == {x \in Items \X TaskIds : Transferring(x[1], x[2])}
           A == Active(tasks)
           f == [x \in T |-> x[1]]
<1>1. Inv /\ \A i \in Items : \A n \in TaskIds : Transferring(i, n) => tasks[i] = n
  BY DEF SerialInv, CallsInv, Lone
<1>2. IsFiniteSet(A) /\ Cardinality(A) \in Nat /\ Cardinality(A) <= MaxActive /\ MaxActive \in Nat
  <2>1. A \subseteq Items
    BY DEF Active
  <2> QED
    BY <1>1, <2>1, FS_Subset, FS_CardinalityType, ManagerAssumption DEF Inv, WithinLimits
<1>3. f \in Injection(T, A)
  <2>1. \A x \in T : x[1] \in A
    BY <1>1, ManagerAssumption DEF Active, TaskIds
  <2>2. \A x, y \in T : f[x] = f[y] => x = y
    <3> SUFFICES ASSUME NEW x \in T, NEW y \in T, x[1] = y[1] PROVE x = y
      OBVIOUS
    <3>1. x[2] = y[2]
      BY <1>1
    <3>2. x = <<x[1], x[2]>> /\ y = <<y[1], y[2]>>
      OBVIOUS
    <3> QED
      BY <3>1, <3>2
  <2>3. f \in [T -> A]
    BY <2>1
  <2> QED
    BY <2>2, <2>3 DEF Injection, IsInjective
<1>4. Cardinality(T) <= Cardinality(A) /\ IsFiniteSet(T)
  BY <1>2, <1>3, FS_Injection DEF ExistsInjection
<1>5. Cardinality(T) \in Nat
  BY <1>4, FS_CardinalityType
<1> QED
  BY <1>2, <1>4, <1>5 DEF TransfersWithinLimit

\* For users that wait, the transfers themselves stay within maxActiveDownloads,
\* whatever fails.
THEOREM TransfersLimited == Steady => (Spec => []TransfersWithinLimit)
BY SerialInvariance, TransfersCounted, PTL

\* For users that wait, after stopQueue nothing in the queue transfers until it is
\* started again.
THEOREM StoppedQueueIdle == Steady => (Spec => []StoppedQueueIsIdle)
<1>1. SerialInv => StoppedQueueIsIdle
  <2> SUFFICES ASSUME SerialInv, NEW q \in Queues, ~running[q],
                      \A c \in 1..Slots : ~(calls[c].op = "stopQueue" /\ calls[c].q = q),
                      NEW i \in InQueue(q)
               PROVE  Quiet(i)
    BY DEF StoppedQueueIsIdle, Quiet
  <2>1. i \in Items
    <3>1. order[q] \in Seq(Items)
      BY DEF SerialInv, CallsInv, Inv, TypeOK
    <3> QED
      BY <3>1 DEF InQueue
  <2> QED
    BY <2>1 DEF SerialInv, StopReaches
<1> QED
  BY <1>1, SerialInvariance, PTL

\* For users that wait, once shutdown() has returned nothing is transferred.
THEOREM ShutdownStops == Steady => (Spec => []ShutdownStopsAll)
<1>1. SerialInv => ShutdownStopsAll
  BY DEF SerialInv, QuitsQuietly, ShutdownStopsAll, Quiet
<1> QED
  BY <1>1, SerialInvariance, PTL

-----------------------------------------------------------------------------
(* The cancellation of a protected item *)

\* Without deletions of files no operation awaits one.
ErasesNot == \A c \in 1..Slots : calls[c].op # "erase" /\ calls[c].pc # "erasing"

\* No step begins a deletion that nobody may ask for.
LEMMA ErasesNotKept ==
    ASSUME Inv, Shapes, CallsMove, "erase" \notin UserOps, ErasesNot
    PROVE  ErasesNot'
<1> SUFFICES ASSUME NEW c \in 1..Slots, calls'[c] # calls[c]
             PROVE  calls'[c].op # "erase" /\ calls'[c].pc # "erasing"
  BY DEF ErasesNot
<1>1. CASE ItemAsked(c)
  <2>1. PICK op \in ItemOps \cap UserOps, i \in Items, call \in Call :
            call.op = op /\ (Settling(c, call, i) \/ Acts(c, call, i))
    BY <1>1 DEF ItemAsked
  <2>2. call.op # "erase"
    BY <2>1
  <2> QED
    BY <2>1, <2>2, NoCallFacts DEF Settling, Acts, Halted1, Done1, Resumed1, Skips1, Next1, Goes
<1>2. CASE Added(c) \/ QueueAsked(c)
  BY <1>2 DEF Added, QueueAsked
<1>3. CASE Continues(c)
  <2>1. calls[c].op # "erase"
    BY DEF ErasesNot
  <2> QED
    BY <1>3, <2>1, NoCallFacts
       DEF Continues, Settling, Acts, Halted1, Done1, Resumed1, Skips1, Next1, Freed1, Goes
<1> QED
  BY <1>1, <1>2, <1>3 DEF CallsMove, Others

\* No task of a cancelled item transfers or is in the map.
Cancelled(i) == status[i] = "cancelled" => tasks[i] = 0 /\ Quiet(i)

\* A cancelled item stays without a task, and a protected one stays cancelled.
LEMMA CancelledKept ==
    ASSUME Inv, NEW i \in Items, Lone(i), ItemMoves(i), ErasesNot, "open" \notin Faults, Cancelled(i)
    PROVE  /\ Cancelled(i)'
           /\ i \in Protected /\ status[i] = "cancelled" => status'[i] = "cancelled"
<1>0. /\ tasks[i] = 0 => Quiet(i)
      /\ Quiet(i) /\ ~Begins(i) => Quiet(i)'
  BY StillQuiet, ManagerAssumption DEF Lone, Quiet, TaskIds
<1>1. CASE status[i] = "cancelled"
  <2>1. tasks[i] = 0 /\ Quiet(i) /\ ~InLine(i) /\ Known(i) /\ ~Begins(i)
    BY <1>1 DEF Cancelled, InLine, Lone, Begins
  <2>2. Quiet(i)'
    BY <1>0, <2>1
  <2>3. \A n \in TaskIds : inst[i][n] \notin {"loading", "running"}
    BY <2>1 DEF Quiet, Transferring
  <2>4. tasks'[i] = 0
    BY <2>1 DEF ItemMoves, Idles, Expels, Stops, QuitStops, Clears, Happens, Marks, Refused
  <2>5. ASSUME i \in Protected PROVE status'[i] = "cancelled"
    <3>1. CASE Idles(i)
      BY <1>1, <3>1 DEF Idles
    <3>2. CASE Clears(i)
      BY <1>1, <3>2 DEF Clears, OperationClears, AutoClears, QuitClears
    <3>3. CASE Happens(i)
      BY <1>1, <2>3, <3>3 DEF Happens
    <3>4. CASE Marks(i)
      <4>1. ~\E c \in 1..Slots : calls[c].pc = "erasing" /\ Head(calls[c].left) = i
        BY DEF ErasesNot
      <4> QED
        BY <1>1, <2>1, <2>5, <3>4, <4>1 DEF Marks
    <3> QED
      BY <2>1, <3>1, <3>2, <3>3, <3>4 DEF ItemMoves, Expels, Stops, QuitStops, Refused
  <2> QED
    BY <2>2, <2>4, <2>5 DEF Cancelled
<1>2. ASSUME status[i] # "cancelled", status'[i] = "cancelled"
      PROVE  tasks'[i] = 0 /\ Quiet(i)'
  <2>1. CASE Clears(i)
    <3>1. Halting(i)
      BY <1>2, <2>1 DEF Clears, OperationClears, AutoClears, QuitClears, Halting
    <3>2. tasks'[i] = 0 /\ inst'[i] = inst[i] /\ Quiet(i)
      BY <2>1, <3>1 DEF Clears, Lone
    <3> QED
      BY <3>2 DEF Quiet, Transferring
  <2>2. CASE Marks(i)
    <3>1. tasks[i] = 0 /\ tasks'[i] = 0 /\ inst'[i] = inst[i]
      <4>1. ~\E c \in 1..Slots : calls[c].pc = "erasing" /\ Head(calls[c].left) = i
        BY DEF ErasesNot
      <4>2. ~InLine(i)'
        BY <1>2 DEF InLine
      <4> QED
        BY <1>2, <2>2, <4>1, <4>2 DEF Marks
    <3> QED
      BY <1>0, <3>1 DEF Quiet, Transferring
  <2>3. CASE Idles(i) \/ Begins(i) \/ Refused(i) \/ Expels(i) \/ Stops(i) \/ QuitStops(i) \/ Happens(i)
    BY <1>2, <2>3 DEF Idles, Begins, Refused, Expels, Stops, QuitStops, Happens
  <2> QED
    BY <2>1, <2>2, <2>3 DEF ItemMoves
<1> QED
  BY <1>1, <1>2 DEF Cancelled

\* For users that wait and files that open, the cancellation of a protected item is
\* terminal: nothing puts it in line again, and no task of it is left to write
\* another outcome over it.
THEOREM CancelTerminal ==
    Steady /\ "open" \notin Faults /\ "erase" \notin UserOps => (Spec => CancelIsTerminal)
<1> SUFFICES ASSUME Steady, "open" \notin Faults, "erase" \notin UserOps
             PROVE  Spec => CancelIsTerminal
  OBVIOUS
<1> DEFINE CInv == SerialInv /\ ErasesNot /\ \A i \in Items : Cancelled(i)
<1>1. Init => CInv
  <2> SUFFICES ASSUME Init PROVE CInv
    OBVIOUS
  <2>1. ErasesNot
    BY NoCallFacts DEF Init, ErasesNot
  <2> QED
    BY <2>1, SerialInvInit DEF Init, Cancelled
<1>2. ASSUME CInv, [Next]_vars
      PROVE  CInv' /\ \A i \in Items : i \in Protected /\ status[i] = "cancelled" => status'[i] = "cancelled"
  <2>1. Inv /\ Shapes /\ (\A i \in Items : Lone(i)) /\ SerialInv'
    BY <1>2, SerialInvNext DEF SerialInv, CallsInv
  <2>2. CallsMove /\ \A i \in Items : ItemMoves(i)
    BY <1>2, <2>1, NextMoves, NextGoesOn DEF StepMoves
  <2>3. ErasesNot'
    BY <1>2, <2>1, <2>2, ErasesNotKept
  <2>4. \A i \in Items : /\ Cancelled(i)'
                         /\ i \in Protected /\ status[i] = "cancelled" => status'[i] = "cancelled"
    BY <1>2, <2>1, <2>2, CancelledKept
  <2> QED
    BY <2>1, <2>3, <2>4
<1>3. CInv /\ [Next]_vars => CInv'
  BY <1>2
<1>4. CInv /\ [Next]_vars => [\A i \in Protected : status[i] = "cancelled" => status'[i] = "cancelled"]_vars
  BY <1>2, ManagerAssumption
<1> HIDE DEF CInv
<1> QED
  BY <1>1, <1>3, <1>4, PTL DEF Spec, CancelIsTerminal

-----------------------------------------------------------------------------
(* The user's last word *)

\* One operation at a time is about an item, and it is the one the user asked for last.
OneCall == \A i \in Items : \A c, d \in 1..Slots : About(c, i) /\ About(d, i) => c = d
Word(c, i) ==
    About(c, i) =>
        /\ calls[c].op \in ItemOps => want[i] = Wish(calls[c].op)
        /\ calls[c].op \in {"add", "addLater"} => want[i] = "run"
Words == \A c \in 1..Slots : \A i \in Items : Word(c, i)

\* An item that an operation is about is busy.
LEMMA AboutBusy ==
    ASSUME NEW c \in 1..Slots, NEW i, About(c, i)
    PROVE  Busy(i) /\ Asked(i)
BY NoCallFacts DEF About, Busy, Asked

\* Who an operation that is new is about.
LEMMA AboutNew ==
    ASSUME NEW c \in 1..Slots, NEW i \in Items
    PROVE  /\ ItemAsked(c) /\ About(c, i)' =>
                 /\ Serial => ~Busy(i)
                 /\ calls'[c].op \in ItemOps \cap UserOps
                 /\ want' = [want EXCEPT ![i] = Wish(calls'[c].op)]
           /\ Added(c) /\ About(c, i)' =>
                 /\ ~Known(i) /\ calls'[c].op \in {"add", "addLater"}
                 /\ want' = [want EXCEPT ![i] = "run"]
           /\ QueueAsked(c) /\ About(c, i)' =>
                 (Serial => ~Busy(i)) /\ calls'[c].op = "stopQueue" /\ UNCHANGED want
<1>1. ASSUME ItemAsked(c), About(c, i)'
      PROVE  /\ Serial => ~Busy(i)
             /\ calls'[c].op \in ItemOps \cap UserOps
             /\ want' = [want EXCEPT ![i] = Wish(calls'[c].op)]
  <2>1. PICK j \in Items, op \in ItemOps \cap UserOps, call \in Call :
            /\ Serial => ~Busy(j)
            /\ call.op = op /\ call.left = <<j>> /\ (Settling(c, call, j) \/ Acts(c, call, j))
            /\ want' = [want EXCEPT ![j] = Wish(op)]
    BY <1>1 DEF ItemAsked
  <2>2. calls'[c] # NoCall
    BY <1>1, NoCallFacts DEF About
  <2>3. calls'[c].left = <<j>> /\ calls'[c].op = op
    BY <2>1, <2>2 DEF Settling, Acts, Halted1, Done1, Resumed1, Skips1, Next1, Goes, ItemOps
  <2>4. i = j
    BY <1>1, <2>3 DEF About
  <2> QED
    BY <2>1, <2>3, <2>4
<1>2. ASSUME Added(c), About(c, i)'
      PROVE  /\ ~Known(i) /\ calls'[c].op \in {"add", "addLater"}
             /\ want' = [want EXCEPT ![i] = "run"]
  <2>1. PICK j \in Items :
            /\ ~Known(j) /\ want' = [want EXCEPT ![j] = "run"]
            /\ calls'[c].op \in {"add", "addLater"} /\ calls'[c].left = <<j>>
    BY <1>2 DEF Added
  <2>2. i = j
    BY <1>2, <2>1 DEF About
  <2> QED
    BY <2>1, <2>2
<1>3. ASSUME QueueAsked(c), About(c, i)'
      PROVE  (Serial => ~Busy(i)) /\ calls'[c].op = "stopQueue" /\ UNCHANGED want
  <2>1. PICK q \in Queues :
            /\ UNCHANGED want
            /\ \/ calls'[c].left = <<>>
               \/ /\ calls'[c].op = "stopQueue" /\ calls'[c].left = order[q]
                  /\ Serial => \A j \in InQueue(q) : ~Busy(j)
    BY <1>3 DEF QueueAsked
  <2>2. calls'[c].left # <<>>
    BY <1>3 DEF About
  <2>3. i \in InQueue(q)
    BY <1>3, <2>1, <2>2 DEF About, InQueue
  <2> QED
    BY <2>1, <2>2, <2>3
<1> QED
  BY <1>1, <1>2, <1>3

\* No second operation comes to be about an item.
LEMMA OneCallKept ==
    ASSUME Inv, Shapes, Steady, CallsMove, AllKnown, OneCall
    PROVE  OneCall'
<1> SUFFICES ASSUME NEW i \in Items, NEW c \in 1..Slots, NEW d \in 1..Slots,
                    About(c, i)', About(d, i)', c # d
             PROVE  FALSE
  BY DEF OneCall
<1>1. CASE UNCHANGED calls
  BY <1>1 DEF OneCall, About
<1>2. ASSUME NEW e \in 1..Slots, Others(e), ItemAsked(e) \/ Added(e) \/ QueueAsked(e)
      PROVE  FALSE
  <2>1. \A b \in 1..Slots : b # e => (About(b, i)' <=> About(b, i))
    BY <1>2 DEF Others, About
  <2>2. CASE c # e /\ d # e
    BY <2>1, <2>2 DEF OneCall
  <2>3. ASSUME NEW b \in 1..Slots, About(e, i)', About(b, i) PROVE FALSE
    BY <1>2, <2>3, AboutNew, AboutBusy DEF Steady, AllKnown
  <2> QED
    BY <2>1, <2>2, <2>3
<1>3. ASSUME NEW e \in 1..Slots, Others(e), Continues(e)
      PROVE  FALSE
  <2>1. \A b \in 1..Slots : About(b, i)' => About(b, i)
    BY <1>3, AboutMoves DEF Others, About
  <2> QED
    BY <2>1 DEF OneCall
<1> QED
  BY <1>1, <1>2, <1>3 DEF CallsMove

\* An operation stays the operation it is until it returns.
LEMMA ContinuesOp ==
    ASSUME NEW c \in 1..Slots, Continues(c)
    PROVE  calls'[c].op \in {calls[c].op, "stopQueue", "none"}
BY NoCallFacts DEF Continues, Settling, Acts, Halted1, Done1, Resumed1, Skips1, Next1, Freed1, Goes

\* Every step keeps the operations to the words of the user.
LEMMA WordsKept ==
    ASSUME Inv, Shapes, Steady, CallsMove, AllKnown, Words
    PROVE  Words'
<1> SUFFICES ASSUME NEW i \in Items, NEW c \in 1..Slots, About(c, i)'
             PROVE  Word(c, i)'
  BY DEF Words, Word
<1>0. want \in [Items -> {"run", "pause", "stop"}]
  BY DEF Inv, TypeOK
<1>1. CASE UNCHANGED <<calls, want>>
  BY <1>1 DEF Words, Word, About
<1>2. ASSUME NEW e \in 1..Slots, Others(e), ItemAsked(e) \/ Added(e) \/ QueueAsked(e)
      PROVE  Word(c, i)'
  <2>1. CASE c = e
    <3>1. CASE ItemAsked(e)
      BY <1>0, <2>1, <3>1, AboutNew DEF Word, ItemOps
    <3>2. CASE Added(e)
      BY <1>0, <2>1, <3>2, AboutNew DEF Word, ItemOps
    <3>3. CASE QueueAsked(e)
      BY <2>1, <3>3, AboutNew DEF Word, ItemOps
    <3> QED
      BY <1>2, <3>1, <3>2, <3>3
  <2>2. CASE c # e
    <3>1. calls'[c] = calls[c] /\ About(c, i)
      BY <1>2, <2>2 DEF Others, About
    <3>2. Busy(i) /\ Known(i)
      BY <3>1, AboutBusy DEF AllKnown
    <3>3. want'[i] = want[i]
      <4>1. CASE ItemAsked(e)
        BY <1>0, <3>2, <4>1 DEF ItemAsked, Steady
      <4>2. CASE Added(e)
        BY <1>0, <3>2, <4>2 DEF Added
      <4>3. CASE QueueAsked(e)
        BY <4>3 DEF QueueAsked
      <4> QED
        BY <1>2, <4>1, <4>2, <4>3
    <3> QED
      BY <3>1, <3>3 DEF Words, Word
  <2> QED
    BY <2>1, <2>2
<1>3. ASSUME NEW e \in 1..Slots, Others(e), Continues(e)
      PROVE  Word(c, i)'
  <2>1. About(c, i) /\ UNCHANGED want
    BY <1>3, AboutMoves DEF Others, About, Continues
  <2>2. calls'[c].op \in {calls[c].op, "stopQueue", "none"}
    BY <1>3, ContinuesOp DEF Others
  <2> QED
    BY <2>1, <2>2 DEF Words, Word, ItemOps
<1> QED
  BY <1>1, <1>2, <1>3 DEF CallsMove

\* An automatic pause is of an item in a scheduled queue.
Parks(i) == Parked(i) /\ Listed(i) => \E q \in Scheduled : i \in InQueue(q)

\* Only a pass begins an automatic pause.
LEMMA ParkedBy ==
    ASSUME NEW i \in Items, ItemMoves(i), Parked(i)', ~Expels(i)
    PROVE  Parked(i)
BY DEF ItemMoves, Parked, Idles, Begins, Stops, QuitStops, Clears, OperationClears, AutoClears,
       QuitClears, Happens, Marks, Refused, AutoSame, AutoEbbs, AutoLess

\* It does so for items of scheduled queues.
LEMMA ParksKept ==
    ASSUME Inv, NEW i \in Items, Lone(i), ItemMoves(i), PlaceMoves(i), Parks(i)
    PROVE  Parks(i)'
<1> SUFFICES ASSUME Parked(i)', Listed(i)' PROVE \E q \in Scheduled : i \in InQueue(q)'
  BY DEF Parks
<1>1. ~Known(i) => ~Expels(i) /\ ~Parked(i)
  BY DEF Expels, Lone, Known, Listed
<1>2. Known(i)
  BY <1>1, ParkedBy
<1>3. Listed(i) /\ \A q \in Queues : i \in InQueue(q)' <=> i \in InQueue(q)
  BY <1>2 DEF PlaceMoves, Listed
<1>4. Scheduled \subseteq Queues
  BY ManagerAssumption
<1>5. \E q \in Scheduled : i \in InQueue(q)
  BY <1>3, ParkedBy DEF Expels, Parks
<1> QED
  BY <1>3, <1>4, <1>5

\* The item an operation at work is about.
LEMMA HeadAbout ==
    ASSUME Inv, NEW c \in 1..Slots, calls[c].pc \in Workplaces \/ calls[c].left # <<>>
    PROVE  Head(calls[c].left) \in Items /\ About(c, Head(calls[c].left))
<1>1. PICK call \in Call : /\ call = calls[c] /\ call.left \in Seq(Items)
                           /\ call.pc \in Workplaces => OnItem(call)
                           /\ call.left # <<>> => Head(call.left) \in Items
  BY InFlight
<1>2. call.left # <<>>
  BY <1>1 DEF OnItem
<1>3. 1 \in DOMAIN call.left /\ call.left[1] = Head(call.left)
  BY <1>1, <1>2
<1> QED
  BY <1>1, <1>2, <1>3 DEF About

\* What downloads has a task that transfers, or that cancel() or remove() has stopped.
Stopping(i) ==
    \E c \in 1..Slots : /\ calls[c].pc = "halting" /\ Head(calls[c].left) = i
                        /\ calls[c].op \in {"cancel", "remove", "erase"}
Downloads(i) == Listed(i) /\ status[i] = "downloading" => ~Quiet(i) \/ Stopping(i)

\* An item stops downloading when its task does.
LEMMA DownloadsKept ==
    ASSUME Inv, "rm" \notin Faults, CallsMove, NEW i \in Items, Lone(i), ItemMoves(i), PlaceMoves(i),
           Downloads(i)
    PROVE  Downloads(i)'
<1> SUFFICES ASSUME Listed(i)', status'[i] = "downloading" PROVE ~Quiet(i)' \/ Stopping(i)'
  BY DEF Downloads
<1>1. CASE Stopping(i)
  <2>1. PICK c \in 1..Slots : /\ calls[c].pc = "halting" /\ Head(calls[c].left) = i
                              /\ calls[c].op \in {"cancel", "remove", "erase"}
    BY <1>1 DEF Stopping
  <2>2. CASE calls'[c] = calls[c]
    BY <2>1, <2>2 DEF Stopping
  <2>3. CASE calls'[c] # calls[c]
    <3>1. Continues(c)
      BY <2>1, <2>3, NoCallFacts DEF CallsMove, Others, ItemAsked, Added, QueueAsked
    <3>2. Freed1(c, calls[c], i)
      BY <2>1, <3>1 DEF Continues
    <3>3. RecordLeaves(i)
      BY <2>1, <3>2 DEF Freed1, Next1
    <3> QED
      BY <3>3 DEF RecordLeaves
  <2> QED
    BY <2>2, <2>3
<1>2. CASE Begins(i)
  <2>1. PICK n \in TaskIds : inst'[i][n] = "loading"
    BY <1>2 DEF Begins
  <2> QED
    BY <2>1 DEF Quiet, Transferring
<1>3. CASE Stops(i)
  BY <1>3 DEF Stops, Stopping
<1>4. CASE Happens(i) /\ ~Stopping(i)
  <2>1. PICK n \in TaskIds :
          /\ \A m \in TaskIds : m # n => inst'[i][m] = inst[i][m]
          /\ \/ inst'[i][n] = "running"
             \/ /\ inst[i][n] \in {"stopping", "finishing", "failing"} /\ status'[i] = status[i]
    BY <1>4 DEF Happens
  <2>2. CASE inst'[i][n] = "running"
    BY <2>2 DEF Quiet, Transferring
  <2>3. CASE inst[i][n] \in {"stopping", "finishing", "failing"} /\ status'[i] = status[i]
    <3>1. Known(i) /\ Listed(i)
      BY <2>3 DEF Lone, Occupied, Live, PlaceMoves, Listed, Known
    <3>2. PICK m \in TaskIds : Transferring(i, m)
      BY <1>4, <2>3, <3>1 DEF Downloads, Quiet
    <3>3. Transferring(i, m)'
      BY <2>1, <2>3, <3>2 DEF Transferring
    <3> QED
      BY <3>3 DEF Quiet
  <2> QED
    BY <2>1, <2>2, <2>3
<1>5. CASE (Idles(i) \/ Clears(i) \/ Marks(i)) /\ ~Stopping(i)
  <2>1. status'[i] = status[i]
    <3>1. CASE Marks(i)
      BY <3>1 DEF Marks, InLine
    <3> QED
      BY <1>5, <3>1 DEF Idles, Clears, OperationClears, AutoClears, QuitClears
  <2>2. Listed(i)
    <3>1. Known(i)
      BY <2>1 DEF Lone
    <3> QED
      BY <3>1 DEF PlaceMoves, Listed
  <2>3. PICK m \in TaskIds : Transferring(i, m)
    BY <1>5, <2>1, <2>2 DEF Downloads, Quiet
  <2>4. inst'[i][m] = inst[i][m]
    BY <1>5, <2>3 DEF Idles, Clears, Marks, Cooled, Transferring
  <2> QED
    BY <2>3, <2>4 DEF Quiet, Transferring
<1> QED
  BY <1>1, <1>2, <1>3, <1>4, <1>5 DEF ItemMoves, Expels, QuitStops, Refused

\* The operation has stopped the item, and nothing will put it in line again.
Done(i) ==
    /\ tasks[i] = 0 /\ Quiet(i)
    /\ Listed(i) => \/ status[i] \in {"cancelled", "error", "completed"}
                    \/ status[i] = "paused" /\ ~Parked(i)
Pending(i) ==
    \E c \in 1..Slots : /\ calls[c].pc \in {"settle", "halting"} /\ Head(calls[c].left) = i
                        /\ calls[c].op \in {"pause", "cancel", "remove"}
WordHolds(i) == Stopped(i) /\ Known(i) => Done(i) \/ Pending(i)

\* What is stopped stays so unless the user asks for it.
LEMMA DoneKept ==
    ASSUME Inv, NEW i \in Items, Lone(i), ItemMoves(i), PlaceMoves(i), Known(i), Done(i),
           want'[i] # "run",
           ~\E c \in 1..Slots : calls[c].pc = "settle" /\ Head(calls[c].left) = i /\ calls[c].op = "resume"
    PROVE  Done(i)'
<1>1. ~Begins(i) /\ ~Refused(i) /\ ~Expels(i) /\ ~Stops(i) /\ ~QuitStops(i)
  BY DEF Done, Begins, Refused, InLine, Expels, Stops, QuitStops
<1>2. Quiet(i)'
  BY <1>1, StillQuiet DEF Done
<1>3. tasks'[i] = 0
  BY <1>1 DEF Done, ItemMoves, Idles, Clears, Happens, Marks
<1>4. Parked(i)' => Parked(i)
  BY <1>1, ParkedBy
<1>5. Listed(i)' => Listed(i)
  BY DEF PlaceMoves, Listed
<1>6. ASSUME Listed(i) PROVE status'[i] \in {status[i], "cancelled", "error"}
  <2>1. CASE Idles(i)
    BY <2>1 DEF Idles
  <2>2. CASE Clears(i)
    <3>1. status[i] = "paused" => ~AutoClears(i)
      BY <1>6 DEF AutoClears, Parked, Done
    <3> QED
      BY <2>2, <3>1 DEF Clears, OperationClears, AutoClears, QuitClears
  <2>3. CASE Happens(i)
    <3>1. \A n \in TaskIds : inst[i][n] \notin {"loading", "running"}
      BY DEF Done, Quiet, Transferring
    <3> QED
      BY <2>3, <3>1 DEF Happens
  <2>4. CASE Marks(i)
    <3>1. ~InLine(i)
      BY <1>6 DEF Done, InLine
    <3> QED
      BY <2>4, <3>1 DEF Marks
  <2> QED
    BY <1>1, <2>1, <2>2, <2>3, <2>4 DEF ItemMoves
<1> QED
  BY <1>2, <1>3, <1>4, <1>5, <1>6 DEF Done

\* What the user has paused waits for no window.
LEMMA NotParked ==
    ASSUME NEW i \in Items, Stopped(i), want[i] = "pause", Listed(i), Parks(i)
    PROVE  ~Parked(i)
BY DEF Stopped, Parks

\* What an operation without a task in its way makes of the item.
LEMMA DoneBy ==
    ASSUME Inv, NEW c \in 1..Slots, NEW call, NEW i \in Items, Done1(c, call, i),
           call.op \in {"pause", "cancel", "remove"}, call.op = "pause" => want'[i] = "pause",
           Stopped(i)', Known(i), PlaceMoves(i), Lone(i), Lone(i)', Parks(i)', Downloads(i), ~Stopping(i)
    PROVE  Done(i)'
<1>1. tasks[i] = 0 /\ tasks'[i] = 0 /\ ((call.op = "pause" /\ PauseLeaves(i)) \/ RecordLeaves(i))
  BY DEF Done1
<1>2. Quiet(i) /\ Quiet(i)'
  BY <1>1, ManagerAssumption DEF Lone, Quiet, TaskIds
<1>3. CASE RecordLeaves(i)
  BY <1>1, <1>2, <1>3 DEF RecordLeaves, Done
<1>4. CASE call.op = "pause" /\ PauseLeaves(i)
  <2> SUFFICES ASSUME Listed(i)'
               PROVE  status'[i] \in {"cancelled", "error", "completed", "paused"} /\ ~Parked(i)'
    BY <1>1, <1>2 DEF Done
  <2>1. ~Parked(i)'
    BY <1>4 DEF Stopped, Parks
  <2>2. Listed(i)
    BY DEF PlaceMoves, Listed
  <2>3. status[i] # "downloading"
    BY <1>2, <2>2 DEF Downloads
  <2>4. status'[i] = "paused" \/ (status'[i] = status[i] /\ ~InLine(i))
    BY <1>4 DEF PauseLeaves
  <2>5. status[i] \in Statuses
    BY DEF Inv, TypeOK
  <2> QED
    BY <2>1, <2>3, <2>4, <2>5 DEF InLine, Statuses
<1> QED
  BY <1>1, <1>3, <1>4

\* What the operation that is about a stopped item does to it.
LEMMA PendingGoes ==
    ASSUME Inv, "rm" \notin Faults, NEW c \in 1..Slots, NEW i \in Items, Continues(c),
           calls[c].pc \in {"settle", "halting"}, Head(calls[c].left) = i,
           calls[c].op \in {"pause", "cancel", "remove"}, calls[c].op = "pause" => want'[i] = "pause",
           OneCall, \A q \in Queues \ Scheduled : open[q],
           Stopped(i), Stopped(i)', Known(i), PlaceMoves(i), Lone(i), Lone(i)', Parks(i)', Downloads(i)
    PROVE  Done(i)' \/ Pending(i)'
<1>0. \A d \in 1..Slots : calls[d].pc = "halting" /\ Head(calls[d].left) = i => d = c
  BY HeadAbout DEF OneCall, Workplaces
<1>1. CASE calls[c].pc = "settle"
  <2>1. ~Stopping(i)
    BY <1>0, <1>1 DEF Stopping
  <2>2. Acts(c, calls[c], i)
    BY <1>1 DEF Continues
  <2>3. CASE Halted1(c, calls[c], i)
    BY <2>3 DEF Halted1, Goes, Pending
  <2>4. CASE Done1(c, calls[c], i)
    BY <2>1, <2>4, DoneBy
  <2> QED
    BY <2>2, <2>3, <2>4 DEF Acts, Resumed1, Skips1, Next1
<1>2. CASE calls[c].pc = "halting"
  <2>1. Freed1(c, calls[c], i)
    BY <1>2 DEF Continues
  <2>2. tasks'[i] = 0 /\ Quiet(i)'
    BY <2>1, ManagerAssumption DEF Freed1, Lone, Quiet, TaskIds
  <2>3. CASE RecordLeaves(i)
    BY <2>2, <2>3 DEF RecordLeaves, Done
  <2>4. CASE calls[c].op = "pause" /\ status'[i] = status[i]
    <3> SUFFICES ASSUME Listed(i)'
                 PROVE  status[i] \in {"cancelled", "error", "completed", "paused"} /\ ~Parked(i)'
      BY <2>2, <2>4 DEF Done
    <3>1. want'[i] = "pause"
      BY <2>4
    <3>2. ~Parked(i)'
      BY <3>1 DEF Stopped, Parks
    <3>3. Listed(i) /\ \A q \in Queues : i \in InQueue(q)' <=> i \in InQueue(q)
      BY DEF PlaceMoves, Listed
    <3>4. \A q \in Scheduled : i \notin InQueue(q)
      BY <3>1, <3>3, ManagerAssumption DEF Stopped
    <3>5. ~Barred(i)
      <4>1. PICK q \in Queues : i \in InQueue(q)
        BY <3>3 DEF Inv, ItemsPlaced
      <4> QED
        BY <3>4, <4>1 DEF Barred
    <3>6. Quiet(i) /\ ~InLine(i)
      BY <1>2, <3>5 DEF Halting, Occupied, Lone
    <3>7. status[i] # "downloading"
      <4>1. ~Stopping(i)
        BY <1>0, <2>4 DEF Stopping
      <4> QED
        BY <3>3, <3>6, <4>1 DEF Downloads
    <3> QED
      BY <3>2, <3>6, <3>7 DEF InLine, Statuses, Inv, TypeOK
  <2> QED
    BY <2>1, <2>3, <2>4 DEF Freed1, Next1
<1> QED
  BY <1>1, <1>2

\* Every step keeps the last word.
LEMMA WordHoldsKept ==
    ASSUME Inv, "rm" \notin Faults, "erase" \notin UserOps, Steady, CallsMove,
           OneCall, Words, Words', AllKnown, \A q \in Queues \ Scheduled : open[q],
           NEW i \in Items, ItemMoves(i), PlaceMoves(i), Lone(i), Lone(i)', Parks(i), Parks(i)',
           Downloads(i), WordHolds(i)
    PROVE  WordHolds(i)'
<1> SUFFICES ASSUME Stopped(i)', Known(i)' PROVE Done(i)' \/ Pending(i)'
  BY DEF WordHolds
<1>0. want'[i] # "run" /\ Known(i) /\ want \in [Items -> {"run", "pause", "stop"}]
  BY DEF Stopped, PlaceMoves, Inv, TypeOK, Known
<1>1. ASSUME NEW c \in 1..Slots, Others(c), ItemAsked(c), want'[i] # want[i]
      PROVE  Done(i)' \/ Pending(i)'
  <2>1. PICK j \in Items, op \in ItemOps \cap UserOps, call \in Call :
            /\ ~Busy(j) /\ call.op = op /\ call.left = <<j>>
            /\ want' = [want EXCEPT ![j] = Wish(op)]
            /\ Settling(c, call, j) \/ Acts(c, call, j)
    BY <1>1 DEF ItemAsked, Steady
  <2>2. i = j
    BY <1>0, <1>1, <2>1
  <2>3. op \in {"pause", "cancel", "remove"} /\ (op = "pause" => want'[i] = "pause")
    BY <1>0, <2>1, <2>2 DEF Wish, ItemOps
  <2>4. Head(call.left) = i
    BY <2>1, <2>2
  <2>5. CASE Settling(c, call, i) \/ Halted1(c, call, i)
    BY <2>1, <2>3, <2>4, <2>5 DEF Settling, Halted1, Goes, Pending
  <2>6. CASE Done1(c, call, i)
    <3>1. ~Stopping(i)
      BY <2>1, <2>2, HeadAbout, AboutBusy DEF Stopping, Workplaces
    <3> QED
      BY <1>0, <2>1, <2>3, <2>6, <3>1, DoneBy
  <2> QED
    BY <2>1, <2>2, <2>3, <2>5, <2>6 DEF Acts, Resumed1, Skips1, Next1
<1>2. CASE want'[i] = want[i]
  <2>1. Stopped(i)
    <3> SUFFICES ASSUME want[i] = "pause", NEW q \in Scheduled, i \in InQueue(q) PROVE FALSE
      BY <1>2 DEF Stopped
    <3>1. q \in Queues /\ i \notin InQueue(q)'
      BY <1>2, ManagerAssumption DEF Stopped
    <3>2. Unlists(i)
      BY <1>0, <3>1 DEF PlaceMoves
    <3>3. PICK c \in 1..Slots : /\ calls[c].op \in {"add", "addLater", "remove", "erase"}
                                /\ calls[c].left # <<>> /\ Head(calls[c].left) = i
      BY <1>2, <3>2 DEF Unlists
    <3>4. Word(c, i) /\ About(c, i)
      BY <3>3, HeadAbout DEF Words
    <3>5. want[i] \in {"run", "stop"}
      BY <3>3, <3>4 DEF Word, Wish, ItemOps
    <3> QED
      BY <3>5
  <2>2. CASE Done(i)
    <3>1. ~\E c \in 1..Slots : calls[c].pc = "settle" /\ Head(calls[c].left) = i /\ calls[c].op = "resume"
      <4> SUFFICES ASSUME NEW c \in 1..Slots, calls[c].pc = "settle", Head(calls[c].left) = i,
                          calls[c].op = "resume"
                   PROVE  FALSE
        OBVIOUS
      <4>1. Word(c, i) /\ About(c, i)
        BY HeadAbout DEF Words, Workplaces
      <4> QED
        BY <1>0, <1>2, <4>1 DEF Word, Wish, ItemOps
    <3> QED
      BY <1>0, <2>2, <3>1, DoneKept
  <2>3. CASE Pending(i)
    <3>1. PICK c \in 1..Slots : /\ calls[c].pc \in {"settle", "halting"} /\ Head(calls[c].left) = i
                                /\ calls[c].op \in {"pause", "cancel", "remove"}
      BY <2>3 DEF Pending
    <3>2. CASE calls'[c] = calls[c]
      BY <3>1, <3>2 DEF Pending
    <3>3. CASE calls'[c] # calls[c]
      <4>1. Continues(c)
        BY <3>1, <3>3, NoCallFacts DEF CallsMove, Others, ItemAsked, Added, QueueAsked
      <4>2. Word(c, i) /\ About(c, i)
        BY <3>1, HeadAbout DEF Words, Workplaces
      <4>3. calls[c].op = "pause" => want'[i] = "pause"
        BY <1>2, <4>2 DEF Word, Wish, ItemOps
      <4> QED
        BY <1>0, <2>1, <3>1, <4>1, <4>3, PendingGoes
    <3> QED
      BY <3>2, <3>3
  <2> QED
    BY <1>0, <2>1, <2>2, <2>3 DEF WordHolds
<1>3. ASSUME want'[i] # want[i]
      PROVE  \E c \in 1..Slots : Others(c) /\ ItemAsked(c)
  <2> SUFFICES ASSUME NEW c \in 1..Slots, Others(c), Added(c) \/ QueueAsked(c) \/ Continues(c)
               PROVE  FALSE
    BY <1>3 DEF CallsMove
  <2>1. CASE Added(c)
    BY <1>0, <1>3, <2>1 DEF Added
  <2> QED
    BY <1>3, <2>1 DEF QueueAsked, Continues
<1> QED
  BY <1>1, <1>2, <1>3

\* The invariant behind the user's last word.
WordInv ==
    /\ SerialInv /\ OneCall /\ Words
    /\ \A q \in Queues \ Scheduled : open[q]
    /\ \A i \in Items : Parks(i) /\ Downloads(i) /\ WordHolds(i)

\* The invariant holds at first,
LEMMA WordInvInit == Init => WordInv
<1> SUFFICES ASSUME Init PROVE WordInv
  OBVIOUS
<1>1. SerialInv /\ Inv /\ calls = [c \in 1..Slots |-> NoCall]
  BY SerialInvInit DEF Init, SerialInv, CallsInv
<1>2. \A c \in 1..Slots : calls[c].left = <<>>
  BY <1>1, NoCallFacts
<1>3. \A c \in 1..Slots : \A i \in Items : ~About(c, i)
  BY <1>2 DEF About
<1>4. OneCall /\ Words
  BY <1>3 DEF OneCall, Words, Word
<1>5. ASSUME NEW i \in Items PROVE ~Listed(i) /\ ~Known(i)
  BY DEF Init, Listed, Known
<1>6. \A q \in Queues \ Scheduled : open[q]
  BY DEF Init
<1> QED
  BY <1>1, <1>4, <1>5, <1>6 DEF WordInv, Parks, Downloads, WordHolds

\* and every step keeps it.
LEMMA WordInvNext ==
    ASSUME Steady, "rm" \notin Faults, "erase" \notin UserOps, WordInv, [Next]_vars
    PROVE  WordInv'
<1>1. Inv /\ Shapes /\ AllKnown /\ SerialInv /\ SerialInv' /\ \A i \in Items : Lone(i) /\ Lone(i)'
  BY SerialInvNext DEF WordInv, SerialInv, CallsInv
<1>2. /\ (\A i \in Items : ItemMoves(i)) /\ (\A i \in Items : PlaceMoves(i))
      /\ CallsMove /\ Turns
  <2>1. Inv'
    BY <1>1 DEF SerialInv, CallsInv
  <2> QED
    BY <1>1, <2>1, NextMoves, NextPlaces, NextGoesOn, NextTurns DEF StepMoves
<1>3. OneCall'
  BY <1>1, <1>2, OneCallKept DEF WordInv
<1>4. Words'
  BY <1>1, <1>2, WordsKept DEF WordInv
<1>5. \A q \in Queues \ Scheduled : open'[q]
  BY <1>2 DEF WordInv, Turns
<1>6. ASSUME NEW i \in Items PROVE Parks(i)' /\ Downloads(i)' /\ WordHolds(i)'
  <2>1. /\ Parks(i) /\ Downloads(i) /\ WordHolds(i) /\ OneCall /\ Words
        /\ \A q \in Queues \ Scheduled : open[q]
    BY DEF WordInv
  <2>2. Parks(i)'
    BY <1>1, <1>2, <2>1, ParksKept
  <2>3. Downloads(i)'
    BY <1>1, <1>2, <2>1, DownloadsKept
  <2>4. WordHolds(i)'
    BY <1>1, <1>2, <1>4, <2>1, <2>2, WordHoldsKept
  <2> QED
    BY <2>2, <2>3, <2>4
<1> QED
  BY <1>1, <1>3, <1>4, <1>5, <1>6 DEF WordInv

\* What a user that waits has stopped stays stopped: once no operation is about the
\* item, no task transfers it and it is not in line for one.
THEOREM UserStopHolds ==
    Steady /\ "rm" \notin Faults /\ "erase" \notin UserOps => (Spec => []StopHolds)
<1> SUFFICES ASSUME Steady, "rm" \notin Faults, "erase" \notin UserOps PROVE Spec => []StopHolds
  OBVIOUS
<1>1. WordInv /\ [Next]_vars => WordInv'
  BY WordInvNext
<1>2. WordInv => StopHolds
  <2> SUFFICES ASSUME WordInv, NEW i \in Items, Stopped(i), Known(i), ~Busy(i)
               PROVE  Quiet(i) /\ (Listed(i) => status[i] \notin {"queued", "added", "downloading"})
    BY DEF StopHolds, Known, Quiet
  <2>1. ~Pending(i)
    BY HeadAbout, AboutBusy DEF Pending, Workplaces, WordInv, SerialInv, CallsInv
  <2>2. Done(i)
    BY <2>1 DEF WordInv, WordHolds
  <2> QED
    BY <2>2 DEF Done
<1> QED
  BY <1>1, <1>2, WordInvInit, PTL DEF Spec

=============================================================================
