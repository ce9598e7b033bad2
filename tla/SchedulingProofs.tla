-------------------------- MODULE SchedulingProofs --------------------------
(***************************************************************************)
(* What the default scheduler computes, for every listing of a cluster:    *)
(* the loop of Schedule over the sorted and compacted candidates returns   *)
(* the selection in closed form, and a selection keeps both limits.        *)
(*                                                                         *)
(* Sorting, compacting and the loop are folds over sequences.  A fold is   *)
(* the last of a row of intermediate results (FoldExists, CompactSteps,    *)
(* ScheduleSteps), and what is claimed of each of them follows by          *)
(* induction, for which a set of numbers stands for the claim (Induction). *)
(* That the candidates can be sorted at all is proved by counting: the     *)
(* entry at position i has i - 1 others ahead of it.                       *)
(***************************************************************************)
EXTENDS Scheduling, FiniteSetTheorems, TLAPS

-----------------------------------------------------------------------------
(* Induction and folds. *)

\* Induction up to n, for a set of numbers.
LEMMA Induction ==
  ASSUME NEW n \in Nat, NEW T, 0 \in T, \A k \in 0..(n - 1) : k \in T => k + 1 \in T
  PROVE  \A k \in 0..n : k \in T
<1> DEFINE U == {k \in Nat : k <= n /\ k \notin T}
<1> SUFFICES ASSUME U # {}
             PROVE  FALSE
  OBVIOUS
<1>1. PICK m \in U : \A k \in U : <<k, m>> \notin OpToRel(<, Nat)
  <2>1. IsWellFoundedOn(OpToRel(<, Nat), Nat)
    BY NatLessThanWellFounded, Zenon
  <2>2. U \subseteq Nat
    OBVIOUS
  <2> HIDE DEF U
  <2> QED
    BY <2>1, <2>2, WFMin, Zenon
<1>2. \A k \in U : ~(k < m)
  BY <1>1, Zenon DEF OpToRel
<1>3. m \in Nat /\ m <= n /\ m \notin T /\ m # 0
  OBVIOUS
<1>4. m - 1 \in 0..(n - 1) /\ m - 1 \in Nat /\ m - 1 < m /\ (m - 1) + 1 = m
  BY <1>3
<1>5. m - 1 \in T
  BY <1>2, <1>4
<1> QED
  BY <1>3, <1>4, <1>5

\* The largest of a set of numbers that has k + 1 and nothing above it.
LEMMA MaxOf ==
  ASSUME NEW k \in Nat, NEW s \in SUBSET (1..(k + 1)), k + 1 \in s
  PROVE  Max(s) = k + 1 /\ s \ {Max(s)} \in SUBSET (1..k)
<1>1. \A y \in s : k + 1 >= y
  OBVIOUS
<1>2. Max(s) \in s /\ \A y \in s : Max(s) >= y
  BY <1>1, Zenon DEF Max
<1>3. Max(s) = k + 1
  <2>1. Max(s) \in 1..(k + 1) /\ Max(s) >= k + 1
    BY <1>2, Zenon
  <2> QED
    BY <2>1
<1> QED
  BY <1>3

\* A set of numbers up to n has a largest one.
LEMMA MaxIn ==
  ASSUME NEW n \in Nat, NEW s \in SUBSET (1..n), s # {}
  PROVE  Max(s) \in s
<1> DEFINE T == {k \in 0..n : s \subseteq 1..k => \E m \in s : \A y \in s : m >= y}
<1>1. 0 \in T
  <2>1. 1..0 = {} /\ 0 \in 0..n
    OBVIOUS
  <2> QED
    BY <2>1, Zenon
<1>2. ASSUME NEW k \in 0..(n - 1), k \in T
      PROVE  k + 1 \in T
  <2>1. k + 1 \in 0..n
    OBVIOUS
  <2>2. ASSUME s \subseteq 1..(k + 1), k + 1 \in s
        PROVE  \E m \in s : \A y \in s : m >= y
    BY <2>2
  <2>3. ASSUME s \subseteq 1..(k + 1), k + 1 \notin s
        PROVE  \E m \in s : \A y \in s : m >= y
    <3>1. s \subseteq 1..k
      BY <2>3
    <3> QED
      BY <1>2, <3>1
  <2> QED
    BY <2>1, <2>2, <2>3
<1>3. \A k \in 0..n : k \in T
  <2> HIDE DEF T
  <2> QED
    BY <1>1, <1>2, Induction
<1>4. n \in T
  <2>1. n \in 0..n
    OBVIOUS
  <2> HIDE DEF T
  <2> QED
    BY <1>3, <2>1
<1> QED
  BY <1>4, Zenon DEF Max

\* What a fold from the left computes on every set of positions.
IsFold(g, V, n, base, op, seq) ==
  /\ g \in [SUBSET (1..n) -> V]
  /\ \A s \in SUBSET (1..n) :
       g[s] = IF s = {} THEN base ELSE op[g[s \ {Max(s)}]][seq[Max(s)]]

\* Such a function exists for every operation and every list.
LEMMA FoldExists ==
  ASSUME NEW V, NEW E, NEW n \in Nat, NEW base \in V, NEW op \in [V -> [E -> V]],
         NEW seq \in [1..n -> E]
  PROVE  \E g : IsFold(g, V, n, base, op, seq)
<1> DEFINE T == {k \in 0..n : \E g : IsFold(g, V, k, base, op, seq)}
<1>1. 0 \in T
  <2> DEFINE g == [s \in SUBSET (1..0) |-> base]
  <2>1. 1..0 = {}
    OBVIOUS
  <2>2. IsFold(g, V, 0, base, op, seq)
    BY <2>1 DEF IsFold
  <2> QED
    BY <2>2
<1>2. ASSUME NEW k \in 0..(n - 1), k \in T
      PROVE  k + 1 \in T
  <2>1. PICK g : IsFold(g, V, k, base, op, seq)
    BY <1>2
  <2> DEFINE h == [s \in SUBSET (1..(k + 1)) |->
                     IF k + 1 \in s THEN op[g[s \ {k + 1}]][seq[k + 1]] ELSE g[s]]
  <2>2. k \in Nat /\ k + 1 \in 1..n /\ seq[k + 1] \in E
    OBVIOUS
  <2>3. \A s \in SUBSET (1..(k + 1)) : s \ {k + 1} \in SUBSET (1..k)
    BY <2>2
  <2>4. \A s \in SUBSET (1..k) : s \in SUBSET (1..(k + 1)) /\ k + 1 \notin s
    BY <2>2
  <2>5. \A s \in SUBSET (1..k) : h[s] = g[s] /\ g[s] \in V
    BY <2>1, <2>4 DEF IsFold
  <2>6. h \in [SUBSET (1..(k + 1)) -> V]
    <3>1. ASSUME NEW s \in SUBSET (1..(k + 1))
          PROVE  (IF k + 1 \in s THEN op[g[s \ {k + 1}]][seq[k + 1]] ELSE g[s]) \in V
      <4>1. CASE k + 1 \in s
        <5>1. g[s \ {k + 1}] \in V
          BY <2>3, <2>5, Zenon
        <5> QED
          BY <4>1, <5>1, <2>2
      <4>2. CASE k + 1 \notin s
        <5>1. s \ {k + 1} = s
          BY <4>2
        <5> QED
          BY <4>2, <5>1, <2>3, <2>5, Zenon
      <4> QED
        BY <4>1, <4>2
    <3> QED
      BY <3>1, Zenon
  <2>7. ASSUME NEW s \in SUBSET (1..(k + 1))
        PROVE  h[s] = IF s = {} THEN base ELSE op[h[s \ {Max(s)}]][seq[Max(s)]]
    <3>1. CASE k + 1 \in s
      <4>1. Max(s) = k + 1 /\ s \ {Max(s)} \in SUBSET (1..k)
        BY <2>2, <3>1, MaxOf, Zenon
      <4>2. h[s \ {Max(s)}] = g[s \ {k + 1}]
        BY <2>5, <4>1
      <4>3. h[s] = op[g[s \ {k + 1}]][seq[k + 1]]
        BY <3>1
      <4> HIDE DEF h
      <4> QED
        BY <3>1, <4>1, <4>2, <4>3
    <3>2. CASE k + 1 \notin s
      <4>1. s \ {k + 1} = s
        BY <3>2
      <4>2. s \in SUBSET (1..k) /\ s \ {Max(s)} \in SUBSET (1..k)
        BY <2>3, <4>1, Zenon
      <4>3. h[s] = g[s] /\ h[s \ {Max(s)}] = g[s \ {Max(s)}]
        BY <2>5, <4>2
      <4> HIDE DEF h
      <4> QED
        BY <2>1, <4>2, <4>3, Zenon DEF IsFold
    <3> QED
      BY <3>1, <3>2, Zenon
  <2>8. IsFold(h, V, k + 1, base, op, seq)
    <3> HIDE DEF h
    <3> QED
      BY <2>6, <2>7, Zenon DEF IsFold
  <2>9. k + 1 \in 0..n
    BY <2>2
  <2> HIDE DEF h
  <2> QED
    BY <2>8, <2>9
<1>3. \A k \in 0..n : k \in T
  <2> HIDE DEF T
  <2> QED
    BY <1>1, <1>2, Induction, Zenon
<1>4. n \in 0..n
  OBVIOUS
<1> QED
  BY <1>3, <1>4

-----------------------------------------------------------------------------
(* The two loops. *)

\* One step of CompactIdenticalNodes.
Keep(kept, x) ==
  IF \E i \in DOMAIN kept : NodeName[kept[i]] = NodeName[x] THEN kept ELSE Append(kept, x)

\* The largest number of an interval, and the rest.
LEMMA IntervalMax ==
  ASSUME NEW i \in Nat
  PROVE  /\ Max(1..(i + 1)) = i + 1 /\ (1..(i + 1)) \ {i + 1} = 1..i
         /\ 1..(i + 1) # {} /\ 1..0 = {}
<1>1. 1..(i + 1) \in SUBSET (1..(i + 1)) /\ i + 1 \in 1..(i + 1)
  OBVIOUS
<1>2. Max(1..(i + 1)) = i + 1
  BY <1>1, MaxOf, Zenon
<1>3. (1..(i + 1)) \ {i + 1} = 1..i
  OBVIOUS
<1> QED
  BY <1>1, <1>2, <1>3

\* CompactIdenticalNodes goes through the list from left to right.
LEMMA CompactSteps ==
  ASSUME NEW ranked \in Seq(NM)
  PROVE  \E k \in [0..Len(ranked) -> Seq(NM)] :
           /\ k[0] = <<>> /\ k[Len(ranked)] = CompactIdenticalNodes(ranked)
           /\ \A i \in 0..(Len(ranked) - 1) : k[i + 1] = Keep(k[i], ranked[i + 1])
<1> DEFINE n == Len(ranked)
           Step(h, s) ==
             IF s = {} THEN <<>> ELSE Keep(h[s \ {Max(s)}], ranked[Max(s)])
           it == CHOOSE h : h = [s \in SUBSET (DOMAIN ranked) |-> Step(h, s)]
           op == [v \in Seq(NM) |-> [e \in NM |-> Keep(v, e)]]
<1>1. n \in Nat /\ DOMAIN ranked = 1..n /\ ranked \in [1..n -> NM] /\ <<>> \in Seq(NM)
  OBVIOUS
<1>2. \A v \in Seq(NM), e \in NM : Keep(v, e) \in Seq(NM)
  BY DEF Keep
<1>3. op \in [Seq(NM) -> [NM -> Seq(NM)]] /\ \A v \in Seq(NM), e \in NM : op[v][e] = Keep(v, e)
  BY <1>2
<1>4. PICK g : IsFold(g, Seq(NM), n, <<>>, op, ranked)
  <2> HIDE DEF n, op
  <2> QED
    BY <1>1, <1>3, FoldExists, Zenon
<1>5. \A s \in SUBSET (1..n) : g[s] = Step(g, s)
  <2> SUFFICES ASSUME NEW s \in SUBSET (1..n), s # {}
               PROVE  g[s] = Step(g, s)
    BY <1>4, Zenon DEF IsFold
  <2>1. g[s] = op[g[s \ {Max(s)}]][ranked[Max(s)]]
    BY <1>4, Zenon DEF IsFold
  <2>2. Max(s) \in s
    BY <1>1, MaxIn, Zenon
  <2>3. g[s \ {Max(s)}] \in Seq(NM) /\ ranked[Max(s)] \in NM
    BY <1>1, <1>4, <2>2, Zenon DEF IsFold
  <2> HIDE DEF op
  <2> QED
    BY <1>3, <2>1, <2>3, Zenon
<1>6. g = [s \in SUBSET (DOMAIN ranked) |-> Step(g, s)]
  BY <1>1, <1>4, <1>5 DEF IsFold
<1>7. it = [s \in SUBSET (DOMAIN ranked) |-> Step(it, s)]
  <2> HIDE DEF Step
  <2> QED
    BY <1>6
<1>8. CompactIdenticalNodes(ranked) = it[DOMAIN ranked]
  BY DEF CompactIdenticalNodes, FoldLeft, MapThenFoldSet, Keep
<1> DEFINE k == [i \in 0..n |-> it[1..i]]
<1> HIDE DEF it
<1>9. it[{}] = <<>>
  BY <1>7
<1>10. \A i \in 0..(n - 1) : it[1..(i + 1)] = Keep(it[1..i], ranked[i + 1])
  <2> SUFFICES ASSUME NEW i \in 0..(n - 1)
               PROVE  it[1..(i + 1)] = Keep(it[1..i], ranked[i + 1])
    OBVIOUS
  <2>1. i \in Nat /\ 1..(i + 1) \in SUBSET (DOMAIN ranked)
    BY <1>1
  <2>2. it[1..(i + 1)] = Step(it, 1..(i + 1))
    BY <1>7, <2>1, Zenon
  <2> QED
    BY <2>1, <2>2, IntervalMax, Zenon
<1> DEFINE T == {i \in 0..n : it[1..i] \in Seq(NM)}
<1>11. \A i \in 0..n : i \in T
  <2>1. 0 \in T
    <3>1. 1..0 = {} /\ 0 \in 0..n
      BY <1>1
    <3> QED
      BY <1>1, <1>9, <3>1, Zenon
  <2>2. ASSUME NEW i \in 0..(n - 1), i \in T
        PROVE  i + 1 \in T
    <3>1. i + 1 \in 0..n /\ ranked[i + 1] \in NM /\ it[1..i] \in Seq(NM)
      BY <1>1, <2>2
    <3> QED
      BY <1>2, <1>10, <3>1, Zenon
  <2> HIDE DEF T, n
  <2> QED
    BY <1>1, <2>1, <2>2, Induction
<1>12. k \in [0..n -> Seq(NM)]
  BY <1>11
<1>13. k[0] = <<>> /\ k[n] = CompactIdenticalNodes(ranked)
  BY <1>1, <1>8, <1>9, IntervalMax
<1>14. \A i \in 0..(n - 1) : k[i + 1] = Keep(k[i], ranked[i + 1])
  <2> SUFFICES ASSUME NEW i \in 0..(n - 1)
               PROVE  k[i + 1] = Keep(k[i], ranked[i + 1])
    OBVIOUS
  <2>1. i \in 0..n /\ i + 1 \in 0..n
    BY <1>1
  <2> QED
    BY <1>10, <2>1
<1> HIDE DEF k
<1> QED
  BY <1>12, <1>13, <1>14

\* One step of the loop of Schedule.
Consider(down, acc, x) ==
  CASE NodeName[x] \in down -> [acc EXCEPT !.recommended = @ \cup {x}]
    [] NodeName[x] \notin down /\ acc.budget = 0 -> acc
    [] OTHER -> [recommended |-> acc.recommended \cup {x}, budget |-> acc.budget - 1]

\* The list that the loop of Schedule goes through.
Window(nodes, reason, opts) ==
  LET compacted == CompactIdenticalNodes(Ranked(CandidateMaintenance(nodes, reason), reason))
  IN SubSeq(compacted, 1, Min({AvailableSlots(nodes, reason, opts), Len(compacted)}))

\* What the loop of Schedule carries from one entry to the next.
Progress == [recommended : SUBSET NM, budget : Nat]

\* The budget of the loop does not become negative.
LEMMA ConsiderType ==
  ASSUME NEW down, NEW acc \in Progress, NEW x \in NM
  PROVE  Consider(down, acc, x) \in Progress
BY DEF Consider, Progress

\* a is what the loop has after each of the entries w, result what it returns.
IsLoop(a, w, down, budget, result) ==
  /\ a \in [0..Len(w) -> Progress]
  /\ a[0] = [recommended |-> {}, budget |-> budget] /\ a[Len(w)].recommended = result
  /\ \A i \in 0..(Len(w) - 1) : a[i + 1] = Consider(down, a[i], w[i + 1])

\* Schedule goes through its list from left to right.
LEMMA ScheduleSteps ==
  ASSUME NEW nodes, NEW down, NEW reason, NEW opts,
         Window(nodes, reason, opts) \in Seq(NM),
         CanBecomeUnavailable(nodes, down, reason, opts) \in Nat
  PROVE  \E a : IsLoop(a, Window(nodes, reason, opts), down,
                       CanBecomeUnavailable(nodes, down, reason, opts),
                       Schedule(nodes, down, reason, opts))
<1> DEFINE w == Window(nodes, reason, opts)
           n == Len(w)
           start == [recommended |-> {},
                     budget |-> CanBecomeUnavailable(nodes, down, reason, opts)]
           Step(h, s) ==
             IF s = {} THEN start ELSE Consider(down, h[s \ {Max(s)}], w[Max(s)])
           it == CHOOSE h : h = [s \in SUBSET (DOMAIN w) |-> Step(h, s)]
           op == [v \in Progress |-> [e \in NM |-> Consider(down, v, e)]]
<1>1. n \in Nat /\ DOMAIN w = 1..n /\ w \in [1..n -> NM]
  OBVIOUS
<1>2. start \in Progress /\ \A v \in Progress, e \in NM : Consider(down, v, e) \in Progress
  BY ConsiderType, Zenon DEF Progress
<1>3. /\ op \in [Progress -> [NM -> Progress]]
      /\ \A v \in Progress, e \in NM : op[v][e] = Consider(down, v, e)
  BY <1>2
<1>8. Schedule(nodes, down, reason, opts) = it[DOMAIN w].recommended
  BY DEF Schedule, Window, FoldLeft, MapThenFoldSet, Consider
<1> HIDE DEF w, start
<1>4. PICK g : IsFold(g, Progress, n, start, op, w)
  <2> HIDE DEF n, op
  <2> QED
    BY <1>1, <1>2, <1>3, FoldExists, Zenon
<1>5. \A s \in SUBSET (1..n) : g[s] = Step(g, s)
  <2> SUFFICES ASSUME NEW s \in SUBSET (1..n), s # {}
               PROVE  g[s] = Step(g, s)
    BY <1>4, Zenon DEF IsFold
  <2>1. g[s] = op[g[s \ {Max(s)}]][w[Max(s)]]
    BY <1>4, Zenon DEF IsFold
  <2>2. Max(s) \in s
    BY <1>1, MaxIn, Zenon
  <2>3. g[s \ {Max(s)}] \in Progress /\ w[Max(s)] \in NM
    BY <1>1, <1>4, <2>2, Zenon DEF IsFold
  <2> HIDE DEF op
  <2> QED
    BY <1>3, <2>1, <2>3, Zenon
<1>6. g = [s \in SUBSET (DOMAIN w) |-> Step(g, s)]
  BY <1>1, <1>4, <1>5, SMTT(30) DEF IsFold
<1>7. it = [s \in SUBSET (DOMAIN w) |-> Step(it, s)]
  <2> HIDE DEF Step
  <2> QED
    BY <1>6, SMTT(30)
<1> DEFINE a == [i \in 0..n |-> it[1..i]]
<1> HIDE DEF it
<1>9. it[{}] = start
  BY <1>7
<1>10. \A i \in 0..(n - 1) : it[1..(i + 1)] = Consider(down, it[1..i], w[i + 1])
  <2> SUFFICES ASSUME NEW i \in 0..(n - 1)
               PROVE  it[1..(i + 1)] = Consider(down, it[1..i], w[i + 1])
    OBVIOUS
  <2>1. i \in Nat /\ 1..(i + 1) \in SUBSET (DOMAIN w)
    BY <1>1
  <2>2. it[1..(i + 1)] = Step(it, 1..(i + 1))
    BY <1>7, <2>1, Zenon
  <2> QED
    BY <2>1, <2>2, IntervalMax, Zenon
<1> DEFINE T == {i \in 0..n : it[1..i] \in Progress}
<1>11. \A i \in 0..n : i \in T
  <2>1. 0 \in T
    <3>1. 1..0 = {} /\ 0 \in 0..n
      BY <1>1
    <3> QED
      BY <1>2, <1>9, <3>1
  <2>2. ASSUME NEW i \in 0..(n - 1), i \in T
        PROVE  i + 1 \in T
    <3>1. i + 1 \in 0..n /\ w[i + 1] \in NM /\ it[1..i] \in Progress
      BY <1>1, <2>2
    <3> QED
      BY <1>2, <1>10, <3>1
  <2> HIDE DEF T, n
  <2> QED
    BY <1>1, <2>1, <2>2, Induction, Zenon
<1>12. a \in [0..n -> Progress]
  BY <1>11
<1>13. a[0] = start /\ a[n].recommended = Schedule(nodes, down, reason, opts)
  BY <1>1, <1>8, <1>9, IntervalMax
<1>14. \A i \in 0..(n - 1) : a[i + 1] = Consider(down, a[i], w[i + 1])
  <2> SUFFICES ASSUME NEW i \in 0..(n - 1)
               PROVE  a[i + 1] = Consider(down, a[i], w[i + 1])
    BY Zenon
  <2>1. i \in 0..n /\ i + 1 \in 0..n
    BY <1>1
  <2> QED
    BY <1>10, <2>1
<1> HIDE DEF a
<1>15. IsLoop(a, w, down, CanBecomeUnavailable(nodes, down, reason, opts),
              Schedule(nodes, down, reason, opts))
  BY <1>12, <1>13, <1>14 DEF IsLoop, start
<1> QED
  BY <1>15, Zenon DEF w

-----------------------------------------------------------------------------
(* The order. *)

\* Minimum and maximum, as far as the limits use them.
LEMMA MinOfTwo ==
  ASSUME NEW a \in Int, NEW b \in Int
  PROVE  /\ Min({a, b}) \in Int /\ Min({a, b}) <= a /\ Min({a, b}) <= b
         /\ Min({a, b}) = a \/ Min({a, b}) = b
<1> DEFINE T == {a, b}
<1>1. \E z \in T : \A y \in T : z <= y
  <2>1. CASE a <= b
    BY <2>1
  <2>2. CASE ~(a <= b)
    BY <2>2
  <2> QED
    BY <2>1, <2>2
<1>2. Min(T) \in T /\ \A y \in T : Min(T) <= y
  BY <1>1 DEF Min
<1> QED
  BY <1>2

\* max(0, d).
LEMMA AtLeastZero ==
  ASSUME NEW d \in Int
  PROVE  Max({0, d}) \in Nat /\ (Max({0, d}) = 0 \/ Max({0, d}) = d)
<1> DEFINE T == {0, d}
<1>1. \E z \in T : \A y \in T : z >= y
  <2>1. CASE 0 >= d
    BY <2>1
  <2>2. CASE ~(0 >= d)
    BY <2>2
  <2> QED
    BY <2>1, <2>2
<1>2. Max(T) \in T /\ \A y \in T : Max(T) >= y
  BY <1>1 DEF Max
<1> QED
  BY <1>2

\* Every set of maintenances is finite.
LEMMA Count ==
  ASSUME NEW S \in SUBSET NM
  PROVE  IsFiniteSet(S) /\ Cardinality(S) \in Nat
<1>1. IsFiniteSet(S)
  BY NamesAssumption, FS_Subset, Zenon
<1> QED
  BY <1>1, FS_CardinalityType

\* Ranks are numbers ...
LEMMA RankType ==
  ASSUME NEW f, NEW x \in NM
  PROVE  Rank(x, f) \in Int
<1> DEFINE mine == {y \in NM : Requestor[y] = Requestor[x]} \cap MaintenancePending(f)
           total == Cardinality(mine)
<1>1. total \in Int
  BY Count
<1>2. InProgressRankerWeight \in Int /\ LeastPendingRankerMaxWeight \in Int
  BY DEF InProgressRankerWeight, LeastPendingRankerMaxWeight
<1> HIDE DEF total
<1>3. Min({total, LeastPendingRankerMaxWeight}) \in Int
  BY <1>1, <1>2, MinOfTwo, Zenon
<1> QED
  BY <1>2, <1>3 DEF Rank, total

\* What CompareRanked looks at, in this order.
Key(z, f) == <<-Rank(z, f), Created[z], NodeName[z], Requestor[z], z>>

\* ... and so are all the keys by which maintenances are compared.
LEMMA KeyType ==
  ASSUME NEW f, NEW z \in NM
  PROVE  \A i \in 1..5 : Key(z, f)[i] \in Int
<1>1. -Rank(z, f) \in Int
  BY RankType
<1>2. z \in Int /\ Created[z] \in Int /\ Requestor[z] \in Int /\ NodeName[z] \in Int
  <2>1. NodeName[z] \in Node /\ z \in Nat /\ Created[z] \in Nat /\ Requestor[z] \in Nat
    BY NamesAssumption
  <2>2. NodeName[z] \in Nat
    BY <2>1, NamesAssumption, Zenon
  <2> QED
    BY <2>1, <2>2
<1> SUFFICES ASSUME NEW i \in 1..5
             PROVE  Key(z, f)[i] \in Int
  OBVIOUS
<1>3. i = 1 \/ i = 2 \/ i = 3 \/ i = 4 \/ i = 5
  OBVIOUS
<1> QED
  BY <1>1, <1>2, <1>3 DEF Key

\* The first key in which two maintenances differ decides.
LEMMA CompareKeys ==
  ASSUME NEW f, NEW x \in NM, NEW y \in NM
  PROVE  CompareRanked(x, y, f) <=>
           \E i \in 1..5 : /\ Key(x, f)[i] < Key(y, f)[i]
                           /\ \A j \in 1..(i - 1) : Key(x, f)[j] = Key(y, f)[j]
BY DEF CompareRanked, Key

\* No two maintenances rank before each other.
LEMMA Asymmetric ==
  ASSUME NEW f, NEW x \in NM, NEW y \in NM,
         CompareRanked(x, y, f), CompareRanked(y, x, f)
  PROVE  FALSE
<1>1. PICK i \in 1..5 : /\ Key(x, f)[i] < Key(y, f)[i]
                        /\ \A j \in 1..(i - 1) : Key(x, f)[j] = Key(y, f)[j]
  BY CompareKeys
<1>2. PICK k \in 1..5 : /\ Key(y, f)[k] < Key(x, f)[k]
                        /\ \A j \in 1..(k - 1) : Key(y, f)[j] = Key(x, f)[j]
  BY CompareKeys
<1>3. /\ Key(x, f)[i] \in Int /\ Key(y, f)[i] \in Int
      /\ Key(x, f)[k] \in Int /\ Key(y, f)[k] \in Int
  BY KeyType
<1>4. CASE i < k
  BY <1>1, <1>2, <1>3, <1>4
<1>5. CASE k < i
  BY <1>1, <1>2, <1>3, <1>5
<1>6. CASE i = k
  BY <1>1, <1>2, <1>3, <1>6
<1> QED
  BY <1>4, <1>5, <1>6

\* CompareRanked is transitive.
LEMMA Transitive ==
  ASSUME NEW f, NEW x \in NM, NEW y \in NM, NEW z \in NM,
         CompareRanked(x, y, f), CompareRanked(y, z, f)
  PROVE  CompareRanked(x, z, f)
<1>1. PICK i \in 1..5 : /\ Key(x, f)[i] < Key(y, f)[i]
                        /\ \A j \in 1..(i - 1) : Key(x, f)[j] = Key(y, f)[j]
  BY CompareKeys
<1>2. PICK k \in 1..5 : /\ Key(y, f)[k] < Key(z, f)[k]
                        /\ \A j \in 1..(k - 1) : Key(y, f)[j] = Key(z, f)[j]
  BY CompareKeys
<1>3. \A j \in 1..5 : Key(x, f)[j] \in Int /\ Key(y, f)[j] \in Int /\ Key(z, f)[j] \in Int
  BY KeyType
<1> DEFINE m == IF i < k THEN i ELSE k
<1>4. m \in 1..5 /\ m <= i /\ m <= k
  OBVIOUS
<1>5. Key(x, f)[m] < Key(z, f)[m]
  <2>1. CASE i < k
    BY <1>1, <1>2, <1>3, <2>1
  <2>2. CASE k < i
    BY <1>1, <1>2, <1>3, <2>2, SMTT(30)
  <2>3. CASE i = k
    BY <1>1, <1>2, <1>3, <2>3
  <2> QED
    BY <2>1, <2>2, <2>3
<1>6. \A j \in 1..(m - 1) : Key(x, f)[j] = Key(z, f)[j]
  <2> SUFFICES ASSUME NEW j \in 1..(m - 1)
               PROVE  Key(x, f)[j] = Key(z, f)[j]
    OBVIOUS
  <2>1. j \in 1..(i - 1) /\ j \in 1..(k - 1)
    BY <1>4
  <2> QED
    BY <1>1, <1>2, <2>1
<1> HIDE DEF m
<1> QED
  BY <1>4, <1>5, <1>6, CompareKeys

\* The name decides last, so that two maintenances never compare equal.
LEMMA Total ==
  ASSUME NEW f, NEW x \in NM, NEW y \in NM, x # y
  PROVE  CompareRanked(x, y, f) \/ CompareRanked(y, x, f)
<1> DEFINE D == {i \in 1..5 : Key(x, f)[i] # Key(y, f)[i]}
<1>1. 5 \in D
  BY DEF Key
<1>2. PICK i \in D : \A j \in 1..(i - 1) : j \notin D
  <2>1. CASE 1 \in D
    BY <2>1
  <2>2. CASE 1 \notin D /\ 2 \in D
    BY <2>2
  <2>3. CASE 1 \notin D /\ 2 \notin D /\ 3 \in D
    BY <2>3
  <2>4. CASE 1 \notin D /\ 2 \notin D /\ 3 \notin D /\ 4 \in D
    BY <2>4
  <2>5. CASE 1 \notin D /\ 2 \notin D /\ 3 \notin D /\ 4 \notin D
    BY <1>1, <2>5
  <2> QED
    BY <2>1, <2>2, <2>3, <2>4, <2>5
<1>3. i \in 1..5 /\ Key(x, f)[i] # Key(y, f)[i]
  OBVIOUS
<1>4. \A j \in 1..(i - 1) : Key(x, f)[j] = Key(y, f)[j]
  BY <1>2, <1>3
<1>5. Key(x, f)[i] \in Int /\ Key(y, f)[i] \in Int
  BY <1>3, KeyType
<1>6. Key(x, f)[i] < Key(y, f)[i] \/ Key(y, f)[i] < Key(x, f)[i]
  BY <1>3, <1>5
<1> QED
  BY <1>3, <1>4, <1>6, CompareKeys

\* What is above ranks in front, so more is in front of what is below.
LEMMA FewerAhead ==
  ASSUME NEW f, NEW S \in SUBSET NM, NEW x \in S, NEW y \in NM, CompareRanked(x, y, f)
  PROVE  Cardinality({z \in S : CompareRanked(z, x, f)})
           < Cardinality({z \in S : CompareRanked(z, y, f)})
<1> DEFINE X == {z \in S : CompareRanked(z, x, f)}
           Y == {z \in S : CompareRanked(z, y, f)}
<1>1. X \subseteq Y /\ x \in Y
  BY Transitive
<1>2. x \notin X
  BY Asymmetric
<1>3. IsFiniteSet(Y) /\ Cardinality(Y) \in Nat /\ IsFiniteSet(X) /\ Cardinality(X) \in Nat
  BY Count
<1> HIDE DEF X, Y
<1>4. Cardinality(X) <= Cardinality(Y) /\ (Cardinality(Y) = Cardinality(X) => Y = X)
  BY <1>1, <1>3, FS_Subset
<1>5. Cardinality(X) < Cardinality(Y)
  BY <1>1, <1>2, <1>3, <1>4
<1> QED
  BY <1>5 DEF X, Y

\* A sequence in order of rank that has every element of S once.
IsRanking(s, S, f) ==
  /\ s \in [1..Cardinality(S) -> S]
  /\ \A x \in S : \E i \in 1..Cardinality(S) : s[i] = x
  /\ \A i, j \in 1..Cardinality(S) : i < j => s[i] # s[j] /\ CompareRanked(s[i], s[j], f)

\* There is such a sequence: an element's place is the number of those in front
\* of it.
LEMMA RankingExists ==
  ASSUME NEW f, NEW S \in SUBSET NM
  PROVE  \E s : IsRanking(s, S, f)
<1> DEFINE n == Cardinality(S)
           Ahead(x) == {y \in S : CompareRanked(y, x, f)}
           p == [x \in S |-> Cardinality(Ahead(x)) + 1]
<1>1. n \in Nat /\ IsFiniteSet(S)
  BY Count
<1>2. \A x \in S : Cardinality(Ahead(x)) \in Nat
  BY Count
<1>3. ASSUME NEW x \in S
      PROVE  p[x] \in 1..n
  <2>1. Ahead(x) \subseteq S /\ x \notin Ahead(x)
    BY Asymmetric
  <2> HIDE DEF Ahead
  <2>2. Cardinality(Ahead(x)) <= n /\ (n = Cardinality(Ahead(x)) => S = Ahead(x))
    BY <1>1, <2>1, FS_Subset
  <2>3. Cardinality(Ahead(x)) < n
    BY <1>1, <1>2, <2>1, <2>2
  <2>4. p[x] = Cardinality(Ahead(x)) + 1
    OBVIOUS
  <2> QED
    BY <1>1, <1>2, <2>3, <2>4
<1>4. \A x, y \in S : CompareRanked(x, y, f) => p[x] < p[y]
  <2> SUFFICES ASSUME NEW x \in S, NEW y \in S, CompareRanked(x, y, f)
               PROVE  p[x] < p[y]
    OBVIOUS
  <2>1. Cardinality(Ahead(x)) < Cardinality(Ahead(y))
    BY FewerAhead
  <2> HIDE DEF Ahead
  <2> QED
    BY <1>2, <2>1
<1>5. \A x, y \in S : p[x] = p[y] => x = y
  <2> SUFFICES ASSUME NEW x \in S, NEW y \in S, x # y
               PROVE  p[x] # p[y]
    OBVIOUS
  <2>1. CompareRanked(x, y, f) \/ CompareRanked(y, x, f)
    BY Total
  <2>2. p[x] < p[y] \/ p[y] < p[x]
    BY <1>4, <2>1
  <2>3. p[x] \in Int /\ p[y] \in Int
    BY <1>3
  <2> HIDE DEF p
  <2> QED
    BY <2>2, <2>3
<1>6. p \in [S -> 1..n]
  BY <1>3
<1> HIDE DEF p, n
<1>7. p \in Surjection(S, 1..n)
  <2>1. p \in Injection(S, 1..n)
    BY <1>5, <1>6 DEF Injection, IsInjective
  <2>2. IsFiniteSet(1..n) /\ Cardinality(1..n) = n
    BY <1>1, FS_Interval
  <2> QED
    BY <2>1, <2>2, FS_Injection DEF n
<1>8. \A i \in 1..n : \E x \in S : p[x] = i
  BY <1>7 DEF Surjection
<1> DEFINE s == [i \in 1..n |-> CHOOSE x \in S : p[x] = i]
<1>9. \A i \in 1..n : s[i] \in S /\ p[s[i]] = i
  BY <1>8
<1>10. s \in [1..n -> S]
  BY <1>9
<1> HIDE DEF s
<1>11. ASSUME NEW x \in S
       PROVE  \E i \in 1..n : s[i] = x
  <2>1. p[x] \in 1..n
    BY <1>6
  <2>2. s[p[x]] \in S /\ p[s[p[x]]] = p[x]
    BY <1>9, <2>1
  <2> QED
    BY <1>5, <2>1, <2>2
<1>12. ASSUME NEW i \in 1..n, NEW j \in 1..n, i < j
       PROVE  s[i] # s[j] /\ CompareRanked(s[i], s[j], f)
  <2>1. s[i] \in S /\ s[j] \in S /\ p[s[i]] = i /\ p[s[j]] = j
    BY <1>9
  <2>2. s[i] # s[j]
    BY <1>12, <2>1
  <2>3. ~CompareRanked(s[j], s[i], f)
    BY <1>4, <1>12, <2>1
  <2> QED
    BY <2>1, <2>2, <2>3, Total
<1>13. IsRanking(s, S, f)
  BY <1>10, <1>11, <1>12 DEF IsRanking, n
<1> QED
  BY <1>13

\* Ranked sorts.
LEMMA RankedSorts ==
  ASSUME NEW f, NEW S \in SUBSET NM
  PROVE  IsRanking(Ranked(S, f), S, f)
<1> DEFINE n == Cardinality(S)
           r == Ranked(S, f)
           sorted(s) == \A i, j \in DOMAIN s : i < j => CompareRanked(s[i], s[j], f)
<1>1. n \in Nat /\ IsFiniteSet(S)
  BY Count
<1>2. PICK s : IsRanking(s, S, f)
  BY RankingExists
<1>3. s \in SetToSeqs(S) /\ sorted(s)
  <2>1. s \in [1..n -> S] /\ \A i, j \in 1..n : i < j => s[i] # s[j] /\ CompareRanked(s[i], s[j], f)
    BY <1>2 DEF IsRanking
  <2>2. \A i, j \in 1..n : i # j => s[i] # s[j]
    <3> SUFFICES ASSUME NEW i \in 1..n, NEW j \in 1..n, i # j
                 PROVE  s[i] # s[j]
      OBVIOUS
    <3>1. i < j \/ j < i
      OBVIOUS
    <3> QED
      BY <2>1, <3>1
  <2>3. s \in SetToSeqs(S)
    BY <2>1, <2>2 DEF SetToSeqs
  <2> QED
    BY <2>1, <2>3
<1>4. r \in SetToSeqs(S) /\ sorted(r)
  <2>1. r = CHOOSE q \in SetToSeqs(S) : sorted(q)
    BY DEF Ranked
  <2> HIDE DEF sorted, r
  <2> QED
    BY <1>3, <2>1
<1>5. r \in [1..n -> S] /\ \A i, j \in 1..n : i # j => r[i] # r[j]
  BY <1>4 DEF SetToSeqs
<1>6. \A i, j \in 1..n : i < j => r[i] # r[j] /\ CompareRanked(r[i], r[j], f)
  <2> HIDE DEF r, n
  <2> QED
    BY <1>1, <1>4, <1>5
<1> HIDE DEF r
<1>7. \A x \in S : \E i \in 1..n : r[i] = x
  <2>1. r \in Injection(1..n, S)
    BY <1>5 DEF Injection, IsInjective
  <2>2. IsFiniteSet(1..n) /\ Cardinality(1..n) = n
    BY <1>1, FS_Interval
  <2>3. r \in Surjection(1..n, S)
    BY <1>1, <2>1, <2>2, FS_Injection
  <2> QED
    BY <2>3 DEF Surjection
<1>8. IsRanking(r, S, f)
  BY <1>5, <1>6, <1>7 DEF IsRanking
<1> QED
  BY <1>8 DEF r

-----------------------------------------------------------------------------
(* Compaction. *)

\* The first maintenance of each node.
First(S, f) ==
  {x \in S : \A y \in S \ {x} : NodeName[y] = NodeName[x] => CompareRanked(x, y, f)}

\* What CompactIdenticalNodes has kept of the first j entries of r.
KeptOK(kept, r, j, f) ==
  /\ \A a \in DOMAIN kept : \E i \in 1..j :
       kept[a] = r[i] /\ \A h \in 1..(i - 1) : NodeName[r[h]] # NodeName[r[i]]
  /\ \A a, b \in DOMAIN kept : a < b => kept[a] # kept[b] /\ CompareRanked(kept[a], kept[b], f)
  /\ \A i \in 1..j : \E a \in DOMAIN kept : NodeName[kept[a]] = NodeName[r[i]]

\* One more entry is kept or dropped.
LEMMA KeepOK ==
  ASSUME NEW f, NEW S \in SUBSET NM, NEW r, IsRanking(r, S, f),
         NEW j \in 0..(Cardinality(S) - 1), NEW kept \in Seq(NM), KeptOK(kept, r, j, f)
  PROVE  KeptOK(Keep(kept, r[j + 1]), r, j + 1, f)
<1> DEFINE n == Cardinality(S)
           x == r[j + 1]
           new == Keep(kept, x)
<1>1. n \in Nat /\ j \in Nat /\ j + 1 \in 1..n /\ x \in S /\ x \in NM /\ \A i \in 1..j : i \in 1..n
  BY Count DEF IsRanking
<1>2. CASE \E a \in DOMAIN kept : NodeName[kept[a]] = NodeName[x]
  <2>1. new = kept
    BY <1>2 DEF Keep
  <2>2. \A i \in 1..(j + 1) : i \in 1..j \/ i = j + 1
    BY <1>1
  <2>3. 1..j \subseteq 1..(j + 1)
    BY <1>1
  <2> HIDE DEF new
  <2>4. \A a \in DOMAIN new : \E i \in 1..(j + 1) :
          new[a] = r[i] /\ \A h \in 1..(i - 1) : NodeName[r[h]] # NodeName[r[i]]
    BY <2>1, <2>3 DEF KeptOK
  <2>5. \A a, b \in DOMAIN new : a < b => new[a] # new[b] /\ CompareRanked(new[a], new[b], f)
    BY <2>1 DEF KeptOK
  <2>6. \A i \in 1..(j + 1) : \E a \in DOMAIN new : NodeName[new[a]] = NodeName[r[i]]
    BY <1>2, <2>1, <2>2, Zenon DEF KeptOK
  <2>7. KeptOK(new, r, j + 1, f)
    BY <2>4, <2>5, <2>6 DEF KeptOK
  <2> QED
    BY <2>7 DEF new
<1>3. CASE ~\E a \in DOMAIN kept : NodeName[kept[a]] = NodeName[x]
  <2> DEFINE m == Len(kept)
  <2>1. new = Append(kept, x)
    BY <1>3 DEF Keep
  <2>2. /\ m \in Nat /\ DOMAIN kept = 1..m /\ DOMAIN new = 1..(m + 1)
        /\ new[m + 1] = x /\ \A a \in 1..m : new[a] = kept[a] /\ kept[a] \in NM
    BY <1>1, <2>1
  <2>3. \A a \in 1..(m + 1) : a \in 1..m \/ a = m + 1
    BY <2>2
  <2>4. \A i \in 1..(j + 1) : i \in 1..j \/ i = j + 1
    BY <1>1
  <2> HIDE DEF new, m
  <2>5. \A h \in 1..j : NodeName[r[h]] # NodeName[x]
    BY <1>3 DEF KeptOK
  <2>6. ASSUME NEW a \in 1..(m + 1)
        PROVE  \E i \in 1..(j + 1) :
                 new[a] = r[i] /\ \A h \in 1..(i - 1) : NodeName[r[h]] # NodeName[r[i]]
    <3>1. CASE a \in 1..m
      <4>1. PICK i \in 1..j :
              kept[a] = r[i] /\ \A h \in 1..(i - 1) : NodeName[r[h]] # NodeName[r[i]]
        BY <2>2, <3>1, Zenon DEF KeptOK
      <4>2. i \in 1..(j + 1) /\ new[a] = r[i]
        BY <1>1, <2>2, <3>1, <4>1
      <4> QED
        BY <4>1, <4>2
    <3>2. CASE a = m + 1
      <4>1. j + 1 \in 1..(j + 1) /\ (j + 1) - 1 = j /\ new[a] = r[j + 1]
        BY <1>1, <2>2, <3>2
      <4> QED
        BY <2>5, <4>1
    <3> QED
      BY <2>3, <3>1, <3>2
  <2>7. ASSUME NEW a \in 1..(m + 1), NEW b \in 1..(m + 1), a < b
        PROVE  new[a] # new[b] /\ CompareRanked(new[a], new[b], f)
    <3>1. a \in 1..m
      BY <2>2, <2>7
    <3>2. CASE b \in 1..m
      <4>1. kept[a] # kept[b] /\ CompareRanked(kept[a], kept[b], f)
        BY <2>2, <2>7, <3>1, <3>2, Zenon DEF KeptOK
      <4> QED
        BY <2>2, <3>1, <3>2, <4>1
    <3>3. CASE b = m + 1
      <4>1. PICK i \in 1..j : kept[a] = r[i]
        BY <2>2, <3>1, Zenon DEF KeptOK
      <4>2. i \in 1..n /\ i < j + 1
        BY <1>1
      <4>3. r[i] # r[j + 1] /\ CompareRanked(r[i], r[j + 1], f)
        BY <1>1, <4>2 DEF IsRanking
      <4> QED
        BY <2>2, <3>1, <3>3, <4>1, <4>3, SMTT(30)
    <3> QED
      BY <2>3, <3>2, <3>3
  <2>8. ASSUME NEW i \in 1..(j + 1)
        PROVE  \E a \in 1..(m + 1) : NodeName[new[a]] = NodeName[r[i]]
    <3>1. CASE i \in 1..j
      <4>1. PICK a \in 1..m : NodeName[kept[a]] = NodeName[r[i]]
        BY <2>2, <3>1, Zenon DEF KeptOK
      <4>2. a \in 1..(m + 1) /\ new[a] = kept[a]
        BY <2>2
      <4> QED
        BY <4>1, <4>2
    <3>2. CASE i = j + 1
      <4>1. m + 1 \in 1..(m + 1)
        BY <2>2
      <4> QED
        BY <2>2, <3>2, <4>1
    <3> QED
      BY <2>4, <3>1, <3>2
  <2>9. KeptOK(new, r, j + 1, f)
    BY <2>2, <2>6, <2>7, <2>8, Zenon DEF KeptOK
  <2> QED
    BY <2>9 DEF new
<1> QED
  BY <1>2, <1>3

\* CompactIdenticalNodes leaves the first maintenance of each node, in order.
LEMMA Compacts ==
  ASSUME NEW f, NEW S \in SUBSET NM
  PROVE  IsRanking(CompactIdenticalNodes(Ranked(S, f)), First(S, f), f)
<1> DEFINE n == Cardinality(S)
           r == Ranked(S, f)
           c == CompactIdenticalNodes(r)
           F == First(S, f)
           m == Len(c)
<1>1. n \in Nat
  BY Count
<1>2. IsRanking(r, S, f)
  BY RankedSorts
<1> HIDE DEF r
<1>3. r \in [1..n -> S] /\ r \in Seq(NM) /\ Len(r) = n
  <2>1. r \in [1..n -> S]
    BY <1>2 DEF IsRanking
  <2>2. r \in [1..n -> NM]
    BY <2>1
  <2> HIDE DEF n
  <2> QED
    BY <1>1, <2>1, <2>2
<1>4. PICK k \in [0..n -> Seq(NM)] :
        /\ k[0] = <<>> /\ k[n] = c
        /\ \A i \in 0..(n - 1) : k[i + 1] = Keep(k[i], r[i + 1])
  <2> HIDE DEF c
  <2>1. \E k \in [0..Len(r) -> Seq(NM)] :
          /\ k[0] = <<>> /\ k[Len(r)] = c
          /\ \A i \in 0..(Len(r) - 1) : k[i + 1] = Keep(k[i], r[i + 1])
    BY <1>3, CompactSteps DEF c
  <2> HIDE DEF n
  <2> QED
    BY <1>3, <2>1
<1> DEFINE T == {i \in 0..n : KeptOK(k[i], r, i, f)}
<1>5. \A i \in 0..n : i \in T
  <2>1. 0 \in T
    <3>1. 0 \in 0..n /\ 1..0 = {} /\ DOMAIN (k[0]) = {}
      BY <1>1, <1>4
    <3> QED
      BY <3>1 DEF KeptOK
  <2>2. ASSUME NEW i \in 0..(n - 1), i \in T
        PROVE  i + 1 \in T
    <3>1. i \in 0..n /\ i + 1 \in 0..n /\ k[i] \in Seq(NM)
      BY <1>1
    <3>2. KeptOK(Keep(k[i], r[i + 1]), r, i + 1, f)
      BY <1>2, <2>2, <3>1, KeepOK
    <3> QED
      BY <1>4, <3>1, <3>2
  <2> HIDE DEF T, n
  <2> QED
    BY <1>1, <2>1, <2>2, Induction, Zenon
<1>6. KeptOK(c, r, n, f) /\ c \in Seq(NM)
  <2>1. n \in 0..n
    BY <1>1
  <2> HIDE DEF c, n
  <2> QED
    BY <1>4, <1>5, <2>1
<1> HIDE DEF c
<1>7. m \in Nat /\ DOMAIN c = 1..m
  BY <1>6
<1>8. ASSUME NEW a \in 1..m
      PROVE  c[a] \in F
  <2>1. PICK i \in 1..n :
          c[a] = r[i] /\ \A h \in 1..(i - 1) : NodeName[r[h]] # NodeName[r[i]]
    BY <1>6, <1>7, Zenon DEF KeptOK
  <2>2. ASSUME NEW y \in S \ {c[a]}, NodeName[y] = NodeName[c[a]]
        PROVE  CompareRanked(c[a], y, f)
    <3>1. PICK h \in 1..n : r[h] = y
      BY <1>2 DEF IsRanking
    <3>2. h # i /\ ~(h < i)
      BY <2>1, <2>2, <3>1
    <3>3. i < h
      BY <1>1, <3>2
    <3> QED
      BY <1>2, <2>1, <3>1, <3>3 DEF IsRanking
  <2>3. c[a] \in S
    BY <1>3, <2>1
  <2> QED
    BY <2>2, <2>3 DEF First
<1>9. ASSUME NEW x \in F
      PROVE  \E a \in 1..m : c[a] = x
  <2>1. x \in S
    BY DEF First
  <2>2. PICK i \in 1..n : r[i] = x
    BY <1>2, <2>1 DEF IsRanking
  <2>3. PICK a \in 1..m : NodeName[c[a]] = NodeName[x]
    BY <1>6, <1>7, <2>2 DEF KeptOK
  <2>4. c[a] \in F /\ c[a] \in S
    BY <1>8 DEF First
  <2>5. c[a] = x
    <3> SUFFICES ASSUME c[a] # x
                 PROVE  FALSE
      OBVIOUS
    <3>1. CompareRanked(x, c[a], f) /\ CompareRanked(c[a], x, f)
      BY <2>1, <2>3, <2>4 DEF First
    <3> QED
      BY <2>1, <2>4, <3>1, Asymmetric
  <2> QED
    BY <2>5
<1>10. \A a, b \in 1..m : a < b => c[a] # c[b] /\ CompareRanked(c[a], c[b], f)
  BY <1>6, <1>7, Zenon DEF KeptOK
<1>11. c \in [1..m -> F]
  BY <1>6, <1>7, <1>8
<1>12. Cardinality(F) = m
  <2>1. \A a, b \in 1..m : c[a] = c[b] => a = b
    <3> SUFFICES ASSUME NEW a \in 1..m, NEW b \in 1..m, a # b
                 PROVE  c[a] # c[b]
      OBVIOUS
    <3>1. a < b \/ b < a
      BY <1>7
    <3> QED
      BY <1>10, <3>1
  <2> HIDE DEF m, F
  <2>2. c \in Bijection(1..m, F)
    BY <1>9, <1>11, <2>1 DEF Bijection, Injection, Surjection, IsInjective
  <2> QED
    BY <1>7, <2>2, FS_CountingElements DEF ExistsBijection
<1> HIDE DEF m, F
<1>13. IsRanking(c, F, f)
  BY <1>9, <1>10, <1>11, <1>12 DEF IsRanking
<1> QED
  BY <1>13, SMTT(30) DEF c, r, F

-----------------------------------------------------------------------------
(* The limits. *)

\* Limits are numbers: rounding up and rounding down ...
LEMMA ScaledType ==
  ASSUME NEW limit \in Limit, NEW total \in Nat, NEW roundUp \in BOOLEAN
  PROVE  Scaled(limit, total, roundUp) \in Int
<1>1. PICK v \in Int : v = limit.val
  BY DEF Limit
<1>2. PICK p \in Int : p = v * total
  OBVIOUS
<1>3. PICK q \in Int : q = -v * total
  OBVIOUS
<1>4. p \div 100 \in Int /\ -(q \div 100) \in Int
  OBVIOUS
<1> QED
  BY <1>1, <1>2, <1>3, <1>4 DEF Scaled

\* ... and the two maxima.
LEMMA MaximumType ==
  ASSUME NEW limit \in Limit, NEW total \in Nat
  PROVE  GetMaxOperations(limit, total) \in Int /\ GetMaxUnavailableNodes(limit, total) \in Int
<1>1. PICK u : u = Scaled(limit, total, TRUE) /\ u \in Int
  BY ScaledType, Zenon
<1>2. PICK d : d = Scaled(limit, total, FALSE) /\ d \in Int
  BY ScaledType, Zenon
<1>3. GetMaxOperations(limit, total) = IF limit.kind = "unset" THEN 1 ELSE u
  BY <1>1, Zenon DEF GetMaxOperations
<1>4. GetMaxUnavailableNodes(limit, total) = IF limit.kind = "unset" THEN -1 ELSE d
  BY <1>2, Zenon DEF GetMaxUnavailableNodes
<1>5. u \in Int /\ d \in Int
  BY <1>1, <1>2, Zenon
<1> QED
  BY <1>3, <1>4, <1>5

\* Sets of nodes can be counted.
LEMMA NodeCount ==
  ASSUME NEW S \in SUBSET Node
  PROVE  IsFiniteSet(S) /\ Cardinality(S) \in Nat
<1>1. IsFiniteSet(S)
  BY NamesAssumption, FS_Subset, Zenon
<1> QED
  BY <1>1, FS_CardinalityType

\* The slots are what is left of the limit on parallel operations.
LEMMA Slots ==
  ASSUME NEW nodes \in SUBSET Node, NEW reason, NEW opts \in Options
  PROVE  LET slots == AvailableSlots(nodes, reason, opts)
             operations == GetMaxOperations(opts.maxParallel, Cardinality(nodes))
             under == Cardinality(NodesUnderMaintenance(nodes, reason))
         IN slots \in Nat /\ (slots > 0 => slots + under <= operations)
<1> DEFINE ops == GetMaxOperations(opts.maxParallel, Cardinality(nodes))
           und == Cardinality(NodesUnderMaintenance(nodes, reason))
           n == Cardinality(nodes)
           slots == AvailableSlots(nodes, reason, opts)
<1>1. n \in Nat
  BY NodeCount
<1>2. und \in Nat
  <2>1. NodesUnderMaintenance(nodes, reason) \in SUBSET Node
    BY DEF NodesUnderMaintenance
  <2> QED
    BY <2>1, NodeCount
<1>3. ops \in Int
  <2>1. opts.maxParallel \in Limit
    BY DEF Options
  <2> QED
    BY <1>1, <2>1, MaximumType
<1>4. slots = Min({Max({0, ops - und}), n})
  BY DEF AvailableSlots
<1> HIDE DEF ops, und, n, slots
<1>5. PICK m \in Int : m = Max({0, ops - und}) /\ m >= 0 /\ (m = 0 \/ m = ops - und)
  <2>1. PICK d \in Int : d = ops - und
    BY <1>2, <1>3
  <2>2. Max({0, d}) \in Nat /\ (Max({0, d}) = 0 \/ Max({0, d}) = d)
    BY AtLeastZero
  <2> QED
    BY <2>1, <2>2
<1>6. slots \in Int /\ slots <= m /\ (slots = m \/ slots = n)
  <2>1. n \in Int /\ slots = Min({m, n})
    BY <1>1, <1>4, <1>5
  <2>2. Min({m, n}) \in Int /\ Min({m, n}) <= m /\ (Min({m, n}) = m \/ Min({m, n}) = n)
    BY <2>1, MinOfTwo, Zenon
  <2> QED
    BY <2>1, <2>2
<1>7. slots \in Nat /\ (slots > 0 => slots + und <= ops)
  BY <1>1, <1>2, <1>3, <1>5, <1>6
<1> QED
  BY <1>7 DEF slots, ops, und, n

\* The budget is what is left of the limit on unavailable nodes.
LEMMA Budget ==
  ASSUME NEW nodes \in SUBSET Node, NEW down \in SUBSET nodes, NEW reason, NEW opts \in Options
  PROVE  LET budget == CanBecomeUnavailable(nodes, down, reason, opts)
             maximum == GetMaxUnavailableNodes(opts.maxUnavailable, Cardinality(nodes))
             total == Cardinality(down \cup NodesUnderMaintenance(nodes, reason))
         IN /\ budget \in Nat /\ maximum \in Int
            /\ maximum >= 0 /\ budget > 0 => budget + total <= maximum
<1> DEFINE max == GetMaxUnavailableNodes(opts.maxUnavailable, Cardinality(nodes))
           tot == Cardinality(down \cup NodesUnderMaintenance(nodes, reason))
           n == Cardinality(nodes)
           budget == CanBecomeUnavailable(nodes, down, reason, opts)
           slots == AvailableSlots(nodes, reason, opts)
<1>1. n \in Nat
  BY NodeCount
<1>2. tot \in Nat
  <2>1. down \cup NodesUnderMaintenance(nodes, reason) \in SUBSET Node
    BY DEF NodesUnderMaintenance
  <2> QED
    BY <2>1, NodeCount
<1>3. max \in Int
  <2>1. opts.maxUnavailable \in Limit
    BY DEF Options
  <2> QED
    BY <1>1, <2>1, MaximumType
<1>4. budget = IF max >= 0 THEN Max({0, max - tot}) ELSE slots
  BY DEF CanBecomeUnavailable
<1>5. slots \in Nat
  BY Slots
<1> HIDE DEF max, tot, n, budget, slots
<1>6. PICK m \in Int : m = Max({0, max - tot}) /\ m >= 0 /\ (m = 0 \/ m = max - tot)
  <2>1. PICK d \in Int : d = max - tot
    BY <1>2, <1>3
  <2>2. Max({0, d}) \in Nat /\ (Max({0, d}) = 0 \/ Max({0, d}) = d)
    BY AtLeastZero
  <2> QED
    BY <2>1, <2>2
<1>7. budget \in Nat /\ (max >= 0 /\ budget > 0 => budget + tot <= max)
  BY <1>2, <1>3, <1>4, <1>5, <1>6
<1> QED
  BY <1>3, <1>7 DEF budget, max, tot, n

-----------------------------------------------------------------------------
(* Schedule computes the closed form. *)

\* Those of S in front of x, and the first i entries of c.
AheadOf(x, S, f) == {y \in S : CompareRanked(y, x, f)}
\* The first i entries.
FirstOf(c, i) == {c[j] : j \in 1..i}

\* In front of the i-th of a ranking are the i - 1 before it.
LEMMA AheadInRanking ==
  ASSUME NEW f, NEW S \in SUBSET NM, NEW c, IsRanking(c, S, f),
         NEW i \in 1..Cardinality(S)
  PROVE  /\ AheadOf(c[i], S, f) = FirstOf(c, i - 1)
         /\ Cardinality(AheadOf(c[i], S, f)) = i - 1
<1> DEFINE n == Cardinality(S)
           A == {y \in S : CompareRanked(y, c[i], f)}
           B == {c[j] : j \in 1..(i - 1)}
<1>1. n \in Nat /\ i \in 1..n /\ \A j \in 1..n : c[j] \in S /\ c[j] \in NM
  BY Count DEF IsRanking
<1>2. \A j, k \in 1..n : j < k => c[j] # c[k] /\ CompareRanked(c[j], c[k], f)
  BY DEF IsRanking
<1> HIDE DEF n
<1>3. \A j \in 1..(i - 1) : j \in 1..n /\ j < i
  BY <1>1
<1>4. ASSUME NEW y \in A
      PROVE  y \in B
  <2>1. PICK j \in 1..n : c[j] = y
    BY DEF IsRanking, n
  <2>2. CompareRanked(c[j], c[i], f)
    BY <2>1
  <2>3. ~(i < j)
    <3> SUFFICES ASSUME i < j
                 PROVE  FALSE
      OBVIOUS
    <3>1. CompareRanked(c[i], c[j], f)
      BY <1>1, <1>2
    <3> QED
      BY <1>1, <2>2, <3>1, Asymmetric
  <2>4. i # j
    BY <1>1, <2>2, Asymmetric
  <2>5. j \in 1..(i - 1)
    BY <1>1, <2>3, <2>4
  <2> QED
    BY <2>1, <2>5
<1>5. ASSUME NEW y \in B
      PROVE  y \in A
  <2>1. PICK j \in 1..(i - 1) : y = c[j]
    OBVIOUS
  <2> QED
    BY <1>1, <1>2, <1>3, <2>1
<1>6. A = B
  BY <1>4, <1>5
<1>7. Cardinality(B) = i - 1
  <2> DEFINE p == [j \in 1..(i - 1) |-> c[j]]
  <2>1. p \in [1..(i - 1) -> B] /\ \A y \in B : \E j \in 1..(i - 1) : p[j] = y
    OBVIOUS
  <2>2. \A j, k \in 1..(i - 1) : p[j] = p[k] => j = k
    <3> SUFFICES ASSUME NEW j \in 1..(i - 1), NEW k \in 1..(i - 1), j # k
                 PROVE  c[j] # c[k]
      OBVIOUS
    <3>1. (j < k \/ k < j) /\ j \in 1..n /\ k \in 1..n
      BY <1>1
    <3> QED
      BY <1>2, <3>1
  <2> HIDE DEF p, B
  <2>3. p \in Bijection(1..(i - 1), B)
    BY <2>1, <2>2 DEF Bijection, Injection, Surjection, IsInjective
  <2>4. i - 1 \in Nat
    BY <1>1
  <2> QED
    BY <2>3, <2>4, FS_CountingElements DEF ExistsBijection
<1> HIDE DEF A, B
<1>8. AheadOf(c[i], S, f) = A /\ FirstOf(c, i - 1) = B
  BY DEF AheadOf, FirstOf, A, B
<1> QED
  BY <1>6, <1>7, <1>8

\* x has room in the budget: its node is down, or those in front leave some.
HasRoom(x, S, f, down, budget) ==
  \/ NodeName[x] \in down
  \/ Cardinality({y \in AheadOf(x, S, f) : NodeName[y] \notin down}) < budget

\* Those of the first i entries whose nodes are available.
AvailableTo(c, i, down) == {y \in FirstOf(c, i) : NodeName[y] \notin down}

\* The loop after i entries: what it recommends and what is left of the budget.
ProgressOK(acc, c, i, S, f, down, budget) ==
  /\ acc.recommended = {x \in FirstOf(c, i) : HasRoom(x, S, f, down, budget)}
  /\ acc.budget = IF Cardinality(AvailableTo(c, i, down)) <= budget
                    THEN budget - Cardinality(AvailableTo(c, i, down)) ELSE 0

\* One more entry is considered.
LEMMA ConsiderOK ==
  ASSUME NEW f, NEW S \in SUBSET NM, NEW c, IsRanking(c, S, f), NEW down, NEW budget \in Nat,
         NEW i \in 0..(Cardinality(S) - 1), NEW acc \in Progress,
         ProgressOK(acc, c, i, S, f, down, budget)
  PROVE  ProgressOK(Consider(down, acc, c[i + 1]), c, i + 1, S, f, down, budget)
<1> DEFINE n == Cardinality(S)
           x == c[i + 1]
           new == Consider(down, acc, x)
           P == FirstOf(c, i)
           Q == FirstOf(c, i + 1)
           A == AvailableTo(c, i, down)
           B == AvailableTo(c, i + 1, down)
           room(z) == HasRoom(z, S, f, down, budget)
<1>1. n \in Nat /\ i \in Nat /\ i + 1 \in 1..n /\ x \in S /\ x \in NM
  BY Count DEF IsRanking
<1>2. Q = P \cup {x}
  BY <1>1 DEF FirstOf
<1>3. x \notin P
  <2> SUFFICES ASSUME NEW j \in 1..i, c[j] = x
               PROVE  FALSE
    BY DEF FirstOf
  <2>1. j \in 1..n /\ j < i + 1
    BY <1>1
  <2> QED
    BY <1>1, <2>1 DEF IsRanking
<1>4. P \subseteq NM
  BY <1>1 DEF IsRanking, FirstOf
<1>5. AheadOf(x, S, f) = P
  <2>1. PICK k \in 1..Cardinality(S) : k = i + 1 /\ k - 1 = i
    BY <1>1
  <2>2. AheadOf(c[k], S, f) = FirstOf(c, k - 1)
    BY AheadInRanking
  <2> QED
    BY <2>1, <2>2
<1> HIDE DEF P, Q, x
<1>6. A = {y \in P : NodeName[y] \notin down} /\ B = {y \in Q : NodeName[y] \notin down}
  BY DEF AvailableTo, P, Q
<1>7. room(x) <=> NodeName[x] \in down \/ Cardinality(A) < budget
  BY <1>5, <1>6 DEF HasRoom
<1>8. PICK a \in Nat : a = Cardinality(A) /\ IsFiniteSet(A)
  BY <1>4, <1>6, Count, Zenon
<1>9. /\ acc.recommended = {z \in P : room(z)} /\ acc.recommended \subseteq NM
      /\ acc.budget = (IF a <= budget THEN budget - a ELSE 0) /\ acc.budget \in Nat
  BY <1>8 DEF ProgressOK, P, Progress
<1> HIDE DEF A, B, room
<1>10. /\ new.recommended = {z \in Q : room(z)}
       /\ new.budget = IF Cardinality(B) <= budget THEN budget - Cardinality(B) ELSE 0
  <2>1. CASE NodeName[x] \in down
    <3>1. new = [acc EXCEPT !.recommended = @ \cup {x}]
      BY <2>1 DEF Consider
    <3>2. new.recommended = acc.recommended \cup {x} /\ new.budget = acc.budget
      BY <3>1 DEF Progress
    <3>3. B = A
      BY <1>2, <1>6, <2>1
    <3> HIDE DEF new
    <3> QED
      BY <1>2, <1>7, <1>8, <1>9, <2>1, <3>2, <3>3
  <2>2. CASE NodeName[x] \notin down
    <3>1. B = A \cup {x} /\ x \notin A
      BY <1>2, <1>3, <1>6, <2>2
    <3>2. Cardinality(B) = a + 1
      BY <1>8, <3>1, FS_AddElement
    <3>3. CASE acc.budget = 0
      <4>1. new = acc
        BY <2>2, <3>3 DEF Consider
      <4>2. a >= budget
        BY <1>8, <1>9, <3>3
      <4>3. ~room(x)
        BY <1>7, <1>8, <2>2, <4>2
      <4>4. new.recommended = {z \in Q : room(z)}
        BY <1>2, <1>9, <4>1, <4>3
      <4>5. new.budget = IF Cardinality(B) <= budget THEN budget - Cardinality(B) ELSE 0
        BY <1>8, <3>2, <3>3, <4>1, <4>2
      <4> QED
        BY <4>4, <4>5
    <3>4. CASE acc.budget # 0
      <4>1. new = [recommended |-> acc.recommended \cup {x}, budget |-> acc.budget - 1]
        BY <2>2, <3>4 DEF Consider
      <4>2. a < budget
        BY <1>8, <1>9, <3>4
      <4>3. room(x)
        BY <1>7, <1>8, <4>2
      <4>4. new.recommended = {z \in Q : room(z)}
        BY <1>2, <1>9, <4>1, <4>3, SMTT(30)
      <4>5. new.budget = IF Cardinality(B) <= budget THEN budget - Cardinality(B) ELSE 0
        BY <1>8, <1>9, <3>2, <4>1, <4>2
      <4> QED
        BY <4>4, <4>5
    <3> QED
      BY <3>3, <3>4
  <2> QED
    BY <2>1, <2>2
<1> HIDE DEF new
<1>11. ProgressOK(new, c, i + 1, S, f, down, budget)
  BY <1>10 DEF ProgressOK, Q, room, B
<1> QED
  BY <1>11 DEF new, x

\* A prefix of a list of maintenances.
LEMMA Prefix ==
  ASSUME NEW s \in Seq(NM), NEW n \in Nat, n <= Len(s)
  PROVE  /\ SubSeq(s, 1, n) \in Seq(NM) /\ Len(SubSeq(s, 1, n)) = n
         /\ \A i \in 1..n : SubSeq(s, 1, n)[i] = s[i]
<1>1. \A i \in 1..n : i \in 1..Len(s) /\ 1 + i - 1 = i
  OBVIOUS
<1>2. Len(SubSeq(s, 1, n)) = n
  OBVIOUS
<1>3. \A i \in 1..n : SubSeq(s, 1, n)[i] = s[i]
  BY <1>1, <1>2
<1>4. SubSeq(s, 1, n) \in Seq(NM)
  BY <1>1, <1>2, <1>3, SMTT(30)
<1> QED
  BY <1>2, <1>3, <1>4

\* The list that the loop goes through: as many of the compacted candidates as
\* there are slots.
LEMMA WindowOK ==
  ASSUME NEW nodes \in SUBSET Node, NEW f, DOMAIN f \subseteq NM, NEW opts \in Options
  PROVE  LET S == First(CandidateMaintenance(nodes, f), f)
             c == CompactIdenticalNodes(Ranked(CandidateMaintenance(nodes, f), f))
             w == Window(nodes, f, opts)
             slots == AvailableSlots(nodes, f, opts)
         IN /\ S \in SUBSET NM /\ IsRanking(c, S, f) /\ w \in Seq(NM)
            /\ Len(w) \in Nat /\ Len(w) <= slots /\ Len(w) <= Cardinality(S)
            /\ Len(w) = slots \/ Len(w) = Cardinality(S)
            /\ \A i \in 1..Len(w) : w[i] = c[i]
<1> DEFINE C == CandidateMaintenance(nodes, f)
           S == First(C, f)
           c == CompactIdenticalNodes(Ranked(C, f))
           slots == AvailableSlots(nodes, f, opts)
           w == Window(nodes, f, opts)
           m == Cardinality(S)
<1>1. C \in SUBSET NM
  BY SMTT(30) DEF CandidateMaintenance
<1>2. S \in SUBSET NM /\ m \in Nat
  <2>1. S \in SUBSET NM
    BY <1>1 DEF First
  <2> QED
    BY <2>1, Count
<1>3. IsRanking(c, S, f)
  BY <1>1, Compacts
<1>4. slots \in Nat
  BY Slots
<1>5. w = SubSeq(c, 1, Min({slots, Len(c)}))
  BY DEF Window
<1> HIDE DEF c, S, slots, w, m
<1>6. c \in Seq(NM) /\ Len(c) = m
  <2>1. c \in [1..m -> NM]
    BY <1>2, <1>3 DEF IsRanking, m
  <2> QED
    BY <1>2, <2>1
<1>7. PICK n \in Int : n = Min({slots, m}) /\ n <= slots /\ n <= m /\ (n = slots \/ n = m)
  <2>1. slots \in Int /\ m \in Int
    BY <1>2, <1>4
  <2> QED
    BY <2>1, MinOfTwo, Zenon
<1>8. n \in Nat /\ w = SubSeq(c, 1, n)
  BY <1>2, <1>4, <1>5, <1>6, <1>7
<1>9. w \in Seq(NM) /\ Len(w) = n /\ \A i \in 1..n : w[i] = c[i]
  BY <1>6, <1>7, <1>8, Prefix, Zenon
<1> QED
  BY <1>2, <1>3, <1>7, <1>8, <1>9, Zenon DEF c, S, slots, w, m, C

\* The loop of the default scheduler over the sorted and compacted candidates
\* computes the selection in closed form, for every listing of any cluster.
THEOREM ScheduleIsSelection ==
  ASSUME NEW nodes \in SUBSET Node, NEW down \in SUBSET nodes,
         NEW f, DOMAIN f \subseteq NM, NEW opts \in Options
  PROVE  Schedule(nodes, down, f, opts) = Selection(nodes, down, f, opts)
<1> DEFINE S == First(CandidateMaintenance(nodes, f), f)
           c == CompactIdenticalNodes(Ranked(CandidateMaintenance(nodes, f), f))
           w == Window(nodes, f, opts)
           slots == AvailableSlots(nodes, f, opts)
           budget == CanBecomeUnavailable(nodes, down, f, opts)
           n == Len(w)
           m == Cardinality(S)
           result == Schedule(nodes, down, f, opts)
<1>1. /\ S \in SUBSET NM /\ IsRanking(c, S, f) /\ w \in Seq(NM) /\ n \in Nat
      /\ n <= slots /\ n <= m /\ (n = slots \/ n = m) /\ \A i \in 1..n : w[i] = c[i]
  BY WindowOK
<1>2. budget \in Nat /\ slots \in Nat /\ m \in Nat
  BY <1>1, Budget, Slots, Count, Zenon
<1>3. PICK a \in [0..n -> Progress] :
        /\ a[0] = [recommended |-> {}, budget |-> budget] /\ a[n].recommended = result
        /\ \A i \in 0..(n - 1) : a[i + 1] = Consider(down, a[i], w[i + 1])
  <2>1. \E a : IsLoop(a, w, down, budget, result)
    BY <1>1, <1>2, ScheduleSteps, Zenon
  <2> HIDE DEF w, budget, result
  <2> QED
    BY <2>1 DEF IsLoop
<1>4. Selection(nodes, down, f, opts)
        = {x \in S : Cardinality(AheadOf(x, S, f)) < slots /\ HasRoom(x, S, f, down, budget)}
  BY DEF Selection, First, AheadOf, HasRoom
<1> HIDE DEF S, c, w, slots, budget, n, m, result
<1> DEFINE T == {i \in 0..n : ProgressOK(a[i], c, i, S, f, down, budget)}
<1>5. \A i \in 0..n : i \in T
  <2>1. 0 \in T
    <3>1. FirstOf(c, 0) = {} /\ AvailableTo(c, 0, down) = {}
      BY DEF FirstOf, AvailableTo
    <3>2. Cardinality(AvailableTo(c, 0, down)) = 0
      BY <3>1, FS_EmptySet, Zenon
    <3>3. a[0].recommended = {} /\ a[0].budget = budget /\ 0 \in 0..n
      BY <1>1, <1>3
    <3> QED
      BY <1>2, <3>1, <3>2, <3>3 DEF ProgressOK
  <2>2. ASSUME NEW i \in 0..(n - 1), i \in T
        PROVE  i + 1 \in T
    <3>1. i \in 0..n /\ i + 1 \in 0..n /\ i + 1 \in 1..n /\ i \in 0..(Cardinality(S) - 1)
      BY <1>1, <1>2 DEF m
    <3>2. a[i] \in Progress /\ ProgressOK(a[i], c, i, S, f, down, budget)
      BY <2>2, <3>1
    <3>3. ProgressOK(Consider(down, a[i], c[i + 1]), c, i + 1, S, f, down, budget)
      BY <1>1, <1>2, <3>1, <3>2, ConsiderOK
    <3> QED
      BY <1>1, <1>3, <3>1, <3>3
  <2> HIDE DEF T
  <2> QED
    BY <1>1, <2>1, <2>2, Induction
<1>6. result = {x \in FirstOf(c, n) : HasRoom(x, S, f, down, budget)}
  <2>1. n \in 0..n
    BY <1>1
  <2> QED
    BY <1>3, <1>5, <2>1 DEF ProgressOK
<1>7. ASSUME NEW i \in 1..m
      PROVE  c[i] \in S /\ Cardinality(AheadOf(c[i], S, f)) = i - 1
  <2>1. c[i] \in S
    BY <1>1 DEF IsRanking, m
  <2>2. Cardinality(AheadOf(c[i], S, f)) = i - 1
    BY <1>1, AheadInRanking DEF m
  <2> QED
    BY <2>1, <2>2
<1>8. ASSUME NEW x \in FirstOf(c, n)
      PROVE  x \in S /\ Cardinality(AheadOf(x, S, f)) < slots
  <2>1. PICK i \in 1..n : x = c[i]
    BY DEF FirstOf
  <2>2. i \in 1..m /\ i - 1 < slots
    BY <1>1, <1>2
  <2> QED
    BY <1>7, <2>1, <2>2
<1>9. ASSUME NEW x \in S, Cardinality(AheadOf(x, S, f)) < slots
      PROVE  x \in FirstOf(c, n)
  <2>1. PICK i \in 1..m : x = c[i]
    BY <1>1 DEF IsRanking, m
  <2>2. i - 1 < slots
    BY <1>7, <1>9, <2>1
  <2>3. i \in 1..n
    BY <1>1, <1>2, <2>2
  <2> QED
    BY <2>1, <2>3 DEF FirstOf
<1>10. result = Selection(nodes, down, f, opts)
  BY <1>4, <1>6, <1>8, <1>9
<1> QED
  BY <1>10 DEF result

-----------------------------------------------------------------------------
(* The selection keeps the limits. *)

\* At most k of S have fewer than k in front of them.
LEMMA AtMost ==
  ASSUME NEW f, NEW S \in SUBSET NM, NEW X \in SUBSET S, NEW k \in Nat,
         \A x \in X : Cardinality(AheadOf(x, S, f)) < k
  PROVE  Cardinality(X) <= k
<1> DEFINE p == [x \in X |-> Cardinality(AheadOf(x, S, f))]
<1>1. \A x \in X : Cardinality(AheadOf(x, S, f)) \in Nat
  BY Count DEF AheadOf
<1>2. \A x, y \in X : CompareRanked(x, y, f)
                        => Cardinality(AheadOf(x, S, f)) < Cardinality(AheadOf(y, S, f))
  BY FewerAhead DEF AheadOf
<1>3. p \in [X -> 0..(k - 1)]
  BY <1>1
<1>4. ASSUME NEW x \in X, NEW y \in X, x # y
      PROVE  p[x] # p[y]
  <2>1. CompareRanked(x, y, f) \/ CompareRanked(y, x, f)
    BY <1>4, Total
  <2> QED
    BY <1>1, <1>2, <2>1
<1> HIDE DEF p
<1>5. p \in Injection(X, 0..(k - 1))
  BY <1>3, <1>4 DEF Injection, IsInjective
<1>6. IsFiniteSet(0..(k - 1)) /\ Cardinality(0..(k - 1)) = k
  <2>1. PICK j \in Int : j = k - 1
    OBVIOUS
  <2>2. IsFiniteSet(0..j) /\ Cardinality(0..j) = IF 0 > j THEN 0 ELSE j - 0 + 1
    BY FS_Interval
  <2> QED
    BY <2>1, <2>2
<1> QED
  BY <1>5, <1>6, FS_Injection

\* Maintenances of different nodes are as many as their nodes.
LEMMA NodesOfCount ==
  ASSUME NEW S \in SUBSET NM, \A x, y \in S : NodeName[x] = NodeName[y] => x = y
  PROVE  NodesOf(S) \in SUBSET Node /\ Cardinality(NodesOf(S)) = Cardinality(S)
<1> DEFINE p == [x \in S |-> NodeName[x]]
<1>1. IsFiniteSet(S)
  BY Count
<1>2. NodesOf(S) \in SUBSET Node
  BY NamesAssumption, Zenon DEF NodesOf
<1>3. /\ p \in [S -> NodesOf(S)]
      /\ \A n \in NodesOf(S) : \E x \in S : p[x] = n
      /\ \A x, y \in S : p[x] = p[y] => x = y
  BY DEF NodesOf
<1> HIDE DEF p
<1>4. p \in Bijection(S, NodesOf(S))
  BY <1>3 DEF Bijection, Injection, Surjection, IsInjective
<1> QED
  BY <1>1, <1>2, <1>4, FS_Bijection DEF ExistsBijection

\* What is selected is of the listed nodes, one of each, none of a node under
\* maintenance; there are slots for all, and the budget covers those available.
LEMMA SelectedOK ==
  ASSUME NEW nodes \in SUBSET Node, NEW down \in SUBSET nodes,
         NEW f, DOMAIN f \subseteq NM, NEW opts \in Options
  PROVE  LET chosen == Schedule(nodes, down, f, opts)
         IN /\ chosen \subseteq NM /\ chosen \subseteq CandidateMaintenance(nodes, f)
            /\ \A x, y \in chosen : NodeName[x] = NodeName[y] => x = y
            /\ NodesOf(chosen) \subseteq nodes \ NodesUnderMaintenance(nodes, f)
            /\ Cardinality(chosen) <= AvailableSlots(nodes, f, opts)
            /\ Cardinality({x \in chosen : NodeName[x] \notin down})
                 <= CanBecomeUnavailable(nodes, down, f, opts)
<1> DEFINE C == CandidateMaintenance(nodes, f)
           S == First(C, f)
           V == {y \in S : NodeName[y] \notin down}
           chosen == Schedule(nodes, down, f, opts)
           available == {x \in chosen : NodeName[x] \notin down}
           slots == AvailableSlots(nodes, f, opts)
           budget == CanBecomeUnavailable(nodes, down, f, opts)
<1>1. chosen = Selection(nodes, down, f, opts)
  BY ScheduleIsSelection
<1>2. chosen = {x \in S : Cardinality(AheadOf(x, S, f)) < slots /\ HasRoom(x, S, f, down, budget)}
  BY <1>1 DEF Selection, First, AheadOf, HasRoom
<1>3. slots \in Nat /\ budget \in Nat
  BY Slots, Budget, Zenon
<1>4. /\ C \subseteq NM /\ S \subseteq C
      /\ \A x \in C : NodeName[x] \in nodes \ NodesUnderMaintenance(nodes, f)
  BY DEF CandidateMaintenance, CandidateNodes, First
<1>5. \A x, y \in S : NodeName[x] = NodeName[y] => x = y
  BY <1>4, Asymmetric DEF First
<1> HIDE DEF C, S, chosen, slots, budget
<1>6. chosen \in SUBSET S /\ S \in SUBSET NM /\ V \in SUBSET NM /\ available \in SUBSET V
  BY <1>2, <1>4
<1>7. Cardinality(chosen) <= slots
  BY <1>2, <1>3, <1>6, AtMost, Zenon
<1>8. Cardinality(available) <= budget
  <2>1. ASSUME NEW x \in available
        PROVE  Cardinality(AheadOf(x, V, f)) < budget
    <3>1. AheadOf(x, V, f) = {y \in AheadOf(x, S, f) : NodeName[y] \notin down}
      BY DEF AheadOf
    <3> QED
      BY <1>2, <3>1 DEF HasRoom
  <2> HIDE DEF V, available
  <2> QED
    BY <1>3, <1>6, <2>1, AtMost, Zenon
<1>9. NodesOf(chosen) \subseteq nodes \ NodesUnderMaintenance(nodes, f)
  BY <1>4, <1>6 DEF NodesOf
<1> QED
  BY <1>4, <1>5, <1>6, <1>7, <1>8, <1>9 DEF C, chosen, slots, budget
\* A selection that is not empty keeps the limit on parallel operations, is of
\* nodes without maintenance, one maintenance of each, and, if it has an
\* available node, keeps the limit on unavailable nodes.
LimitsKept(nodes, down, f, opts, selection) ==
  LET under == NodesUnderMaintenance(nodes, f)
      chosen == NodesOf(selection)
      total == Cardinality(nodes)
      maxUnavailable == GetMaxUnavailableNodes(opts.maxUnavailable, total)
  IN /\ Cardinality(under \cup chosen) <= GetMaxOperations(opts.maxParallel, total)
     /\ chosen \cap under = {} /\ Cardinality(chosen) = Cardinality(selection)
     /\ maxUnavailable >= 0 /\ ~(chosen \subseteq down)
          => Cardinality(down \cup under \cup chosen) <= maxUnavailable

\* What Schedule returns keeps the limits.
LEMMA WithinLimits ==
  ASSUME NEW nodes \in SUBSET Node, NEW down \in SUBSET nodes,
         NEW f, DOMAIN f \subseteq NM, NEW opts \in Options,
         NEW selection, selection # {}, selection = Schedule(nodes, down, f, opts)
  PROVE  LimitsKept(nodes, down, f, opts, selection)
<1> DEFINE und == NodesUnderMaintenance(nodes, f)
           chosen == NodesOf(selection)
           total == Cardinality(nodes)
           operations == GetMaxOperations(opts.maxParallel, total)
           maximum == GetMaxUnavailableNodes(opts.maxUnavailable, total)
           slots == AvailableSlots(nodes, f, opts)
           budget == CanBecomeUnavailable(nodes, down, f, opts)
           V == {x \in selection : NodeName[x] \notin down}
<1>1. /\ selection \in SUBSET NM /\ chosen \subseteq nodes \ und
      /\ \A x, y \in selection : NodeName[x] = NodeName[y] => x = y
      /\ Cardinality(selection) <= slots /\ Cardinality(V) <= budget
  BY SelectedOK, Zenon
<1>2. slots \in Nat /\ (slots > 0 => slots + Cardinality(und) <= operations)
  BY Slots
<1>3. budget \in Nat /\ maximum \in Int
      /\ (maximum >= 0 /\ budget > 0 => budget + Cardinality(down \cup und) <= maximum)
  BY Budget, Zenon
<1>4. operations \in Int
  BY MaximumType, NodeCount DEF Options
<1>5. und \in SUBSET Node
  BY DEF NodesUnderMaintenance
<1>6. chosen \in SUBSET Node /\ Cardinality(chosen) = Cardinality(selection)
  BY <1>1, NodesOfCount
<1>7. V \in SUBSET NM /\ \A x, y \in V : NodeName[x] = NodeName[y] => x = y
  BY <1>1
<1>8. NodesOf(V) \in SUBSET Node /\ Cardinality(NodesOf(V)) = Cardinality(V)
  BY <1>7, NodesOfCount
<1>9. chosen \subseteq down \cup NodesOf(V)
  BY DEF NodesOf
<1>10. Cardinality(selection) \in Nat /\ Cardinality(selection) > 0
  <2>1. IsFiniteSet(selection) /\ Cardinality(selection) \in Nat
    BY <1>1, Count
  <2>2. Cardinality(selection) # 0
    BY <2>1, FS_EmptySet
  <2> QED
    BY <2>1, <2>2
<1>11. ~(chosen \subseteq down) => Cardinality(V) \in Nat /\ Cardinality(V) > 0
  <2>1. IsFiniteSet(V) /\ Cardinality(V) \in Nat
    BY <1>7, Count
  <2>2. ~(chosen \subseteq down) => V # {}
    BY DEF NodesOf
  <2>3. V # {} => Cardinality(V) # 0
    BY <2>1, FS_EmptySet
  <2> HIDE DEF V, chosen
  <2> QED
    BY <2>1, <2>2, <2>3
<1> HIDE DEF und, chosen, operations, maximum, slots, budget, V
<1>12. Cardinality(und \cup chosen) <= operations
  <2>1. und \cap chosen = {}
    BY <1>1
  <2>2. Cardinality(und \cup chosen) = Cardinality(und) + Cardinality(chosen)
    <3>1. Cardinality(und) \in Nat /\ Cardinality(chosen) \in Nat
          /\ IsFiniteSet(und) /\ IsFiniteSet(chosen)
      BY <1>5, <1>6, NodeCount
    <3>2. Cardinality(und \cap chosen) = 0
      BY <2>1, FS_EmptySet
    <3>3. Cardinality(und \cup chosen)
            = Cardinality(und) + Cardinality(chosen) - Cardinality(und \cap chosen)
      BY <3>1, FS_Union
    <3> QED
      BY <3>1, <3>2, <3>3
  <2>3. Cardinality(und) \in Nat
    BY <1>5, NodeCount
  <2> QED
    BY <1>1, <1>2, <1>4, <1>6, <1>10, <2>2, <2>3
<1>13. ASSUME maximum >= 0, ~(chosen \subseteq down)
       PROVE  Cardinality(down \cup und \cup chosen) <= maximum
  <2> DEFINE A == down \cup und
  <2>1. A \in SUBSET Node
    BY <1>5
  <2>2. down \cup und \cup chosen \subseteq A \cup NodesOf(V)
    BY <1>9
  <2> HIDE DEF A
  <2>3. /\ IsFiniteSet(A) /\ Cardinality(A) \in Nat
        /\ IsFiniteSet(NodesOf(V)) /\ Cardinality(NodesOf(V)) \in Nat
    BY <1>8, <2>1, NodeCount
  <2>4. /\ IsFiniteSet(A \cup NodesOf(V)) /\ Cardinality(A \cup NodesOf(V)) \in Nat
        /\ Cardinality(A \cup NodesOf(V)) <= Cardinality(A) + Cardinality(NodesOf(V))
    <3>1. /\ IsFiniteSet(A \cup NodesOf(V))
          /\ Cardinality(A \cup NodesOf(V))
               = Cardinality(A) + Cardinality(NodesOf(V)) - Cardinality(A \cap NodesOf(V))
      BY <2>3, FS_Union
    <3>2. Cardinality(A \cap NodesOf(V)) \in Nat
      BY <1>8, NodeCount
    <3>3. Cardinality(A \cup NodesOf(V)) \in Nat
      BY <3>1, FS_CardinalityType
    <3> QED
      BY <2>3, <3>1, <3>2, <3>3
  <2>5. /\ Cardinality(down \cup und \cup chosen) <= Cardinality(A \cup NodesOf(V))
        /\ Cardinality(down \cup und \cup chosen) \in Nat
    <3>1. down \cup und \cup chosen \in SUBSET (A \cup NodesOf(V))
      BY <2>2
    <3>2. /\ Cardinality(down \cup und \cup chosen) <= Cardinality(A \cup NodesOf(V))
          /\ IsFiniteSet(down \cup und \cup chosen)
      BY <2>4, <3>1, FS_Subset
    <3> QED
      BY <3>2, FS_CardinalityType
  <2>6. budget + Cardinality(A) <= maximum /\ Cardinality(NodesOf(V)) <= budget
    BY <1>1, <1>3, <1>8, <1>11, <1>13, SMTT(30) DEF A
  <2> QED
    BY <1>3, <2>3, <2>4, <2>5, <2>6
<1>14. chosen \cap und = {}
  BY <1>1
<1> QED
  BY <1>6, <1>12, <1>13, <1>14, SMTT(30) DEF und, chosen, operations, maximum, LimitsKept

=============================================================================
