---------------------------- MODULE AcceptanceProofs ----------------------------
(***************************************************************************)
(* What is checked before anything runs, for every header, index, receipt, *)
(* set of shards, deployment file and plan: the ranges of a header that    *)
(* read_shard accepts share no byte and have the size of their tensors,    *)
(* the verdict of the binding pass says exactly what the shards held when  *)
(* they were read, the Store then serves what the index promised, the plan *)
(* check accepts the built plan and no other, and nobody is refused a plan *)
(* without notice.                                                         *)
(***************************************************************************)
EXTENDS CheckpointStore, ShardHeader, PlanProgram, SequenceLemmas, FiniteSetTheorems, TLAPS

-----------------------------------------------------------------------------
(* One header: an accepted header's tensors lie in the payload and share   *)
(* no byte.  The neighbour test of read_shard decides all pairs because    *)
(* the ranges were sorted first.                                           *)
InPayload(i) ==
  0 <= declared[i].begin /\ declared[i].begin <= declared[i].end /\ declared[i].end <= payload

(* order lists every tensor with bytes, by range. *)
InOrder ==
  /\ \E n \in Nat : order \in Bijection(1..n, WithBytes)
  /\ \A i, j \in DOMAIN order : i < j => Before(declared[order[i]], declared[order[j]])

Progress ==
  /\ declared \in Declarations /\ payload \in Payloads
  /\ next \in Nat \ {0}
  /\ \A i \in 1..Len(declared) : i < next => InPayload(i)
  /\ phase \in {"compare", "accepted"} => next > Len(declared) /\ InOrder
  /\ phase = "accepted" => NeighboursApart

(* Offsets are integers. *)
LEMMA HeaderTypes ==
  ASSUME declared \in Declarations, payload \in Payloads
  PROVE  /\ Len(declared) \in Nat
         /\ payload \in Int
         /\ \A i \in 1..Len(declared) : declared[i].begin \in Int /\ declared[i].end \in Int
<1> DEFINE Tensor == [dtype : STRING, shape : Seq(Int), begin : Int, end : Int]
<1>1. declared \in Seq(Tensor)
  BY HeaderAssumption
<1>2. \A tensor \in Tensor : tensor.begin \in Int /\ tensor.end \in Int
  OBVIOUS
<1> HIDE DEF Tensor
<1>3. \A i \in 1..Len(declared) : declared[i] \in Tensor
  BY <1>1
<1>4. Len(declared) \in Nat /\ payload \in Int
  BY <1>1, HeaderAssumption
<1> QED
  BY <1>2, <1>3, <1>4

(* The invariant is kept by every step of read_shard. *)
LEMMA ProgressHolds == HeaderSpec => []Progress
<1>1. HeaderInit => Progress
  BY DEF HeaderInit, Progress
<1>2. Progress /\ [HeaderNext]_headerVars => Progress'
  <2> SUFFICES ASSUME Progress, [HeaderNext]_headerVars
               PROVE  Progress'
    OBVIOUS
  <2>1. CASE ValidateTensor
    <3>1. CASE OffsetsValid(declared[next], payload)
      <4>1. next' = next + 1 /\ UNCHANGED <<declared, payload, phase, order>>
        BY <2>1, <3>1 DEF ValidateTensor
      <4>2. InPayload(next)
        BY <3>1, <2>1, HeaderTypes DEF OffsetsValid, InPayload, Progress, ValidateTensor
      <4>3. \A i \in 1..Len(declared) : i < next' => InPayload(i)
        BY <4>1, <4>2, HeaderTypes DEF Progress
      <4> QED
        BY <2>1, <4>1, <4>3 DEF Progress, ValidateTensor, InPayload
    <3>2. CASE ~OffsetsValid(declared[next], payload)
      BY <2>1, <3>2 DEF ValidateTensor, Progress, InPayload
    <3> QED
      BY <3>1, <3>2
  <2>2. CASE SortRanges
    <3>1. UNCHANGED <<declared, payload, next>> /\ phase' = "compare"
      BY <2>2 DEF SortRanges
    <3>2. InOrder'
      <4>1. PICK n \in 0..Len(declared) : order' \in Bijection(1..n, WithBytes)
        BY <2>2 DEF SortRanges
      <4>2. n \in Nat
        BY <4>1, HeaderTypes DEF Progress
      <4>3. WithBytes' = WithBytes
        BY <3>1 DEF WithBytes
      <4>4. (\E k \in Nat : order \in Bijection(1..k, WithBytes))'
        BY <4>1, <4>2, <4>3
      <4>5. (\A i, j \in DOMAIN order : i < j => Before(declared[order[i]], declared[order[j]]))'
        BY <2>2, <3>1 DEF SortRanges
      <4> QED
        BY <4>4, <4>5 DEF InOrder
    <3>3. next > Len(declared)
      BY <2>2 DEF SortRanges
    <3> QED
      BY <3>1, <3>2, <3>3 DEF Progress, InPayload
  <2>3. CASE CompareNeighbours
    <3>1. UNCHANGED <<declared, payload, next, order>> /\ phase = "compare"
      BY <2>3 DEF CompareNeighbours
    <3>2. InOrder' /\ NeighboursApart' = NeighboursApart
      BY <3>1 DEF Progress, InOrder, NeighboursApart, WithBytes
    <3>3. phase' = "accepted" => NeighboursApart
      BY <2>3 DEF CompareNeighbours
    <3> QED
      BY <3>1, <3>2, <3>3 DEF Progress, InPayload
  <2>4. CASE UNCHANGED headerVars
    BY <2>4 DEF headerVars, Progress, InPayload, InOrder, WithBytes, NeighboursApart
  <2> QED
    BY <2>1, <2>2, <2>3, <2>4 DEF HeaderNext, HeaderRest
<1> QED
  BY <1>1, <1>2, PTL DEF HeaderSpec

(* A tensor placed before another in the sorted order ends before it. *)
LEMMA EarlierEndsFirst ==
  ASSUME Progress, phase = "accepted",
         NEW a \in DOMAIN order, NEW b \in DOMAIN order, a < b
  PROVE  declared[order[a]].end <= declared[order[b]].begin
<1>1. PICK n \in Nat : order \in Bijection(1..n, WithBytes)
  BY DEF Progress, InOrder
<1>2. order \in [1..n -> WithBytes]
  BY <1>1 DEF Bijection, Injection
<1>3. a \in 1..n /\ b \in 1..n /\ a + 1 \in 1..n
  BY <1>2
<1>4. \A k \in 1..n : declared[order[k]].begin \in Int /\ declared[order[k]].end \in Int
  BY <1>2, HeaderTypes DEF Progress, WithBytes
<1>5. declared[order[a]].end <= declared[order[a + 1]].begin
  <2>1. NeighboursApart /\ a + 1 \in DOMAIN order /\ a + 1 > 1 /\ (a + 1) - 1 = a
    BY <1>2, <1>3 DEF Progress
  <2> QED
    BY <2>1, <1>3, <1>4 DEF NeighboursApart
<1>6. declared[order[a + 1]].begin <= declared[order[b]].begin
  <2>1. CASE a + 1 = b
    BY <2>1, <1>3, <1>4
  <2>2. CASE a + 1 < b
    <3>1. Before(declared[order[a + 1]], declared[order[b]])
      BY <2>2, <1>2, <1>3 DEF Progress, InOrder
    <3> QED
      BY <3>1, <1>3, <1>4 DEF Before
  <2> QED
    BY <2>1, <2>2, <1>3
<1> QED
  BY <1>3, <1>4, <1>5, <1>6

(* In an accepted header no two tensors overlap and all lie in the payload *)
(* (checkpoint_binding.cpp:404-417).                                       *)
THEOREM AcceptedHeadersAreDisjoint == HeaderSpec => []AcceptedIsDisjoint
<1>1. Progress => AcceptedIsDisjoint
  <2> SUFFICES ASSUME Progress, phase = "accepted"
               PROVE  /\ \A i \in 1..Len(declared) : InPayload(i)
                      /\ \A i, j \in 1..Len(declared) : i # j => Apart(i, j)
    BY DEF AcceptedIsDisjoint, InPayload
  <2>1. \A i \in 1..Len(declared) : InPayload(i)
    BY HeaderTypes DEF Progress
  <2>2. ASSUME NEW i \in 1..Len(declared), NEW j \in 1..Len(declared), i # j
        PROVE  Apart(i, j)
    <3>1. CASE declared[i].begin = declared[i].end \/ declared[j].begin = declared[j].end
      BY <3>1 DEF Apart
    <3>2. CASE i \in WithBytes /\ j \in WithBytes
      <4>1. PICK n \in Nat : order \in Bijection(1..n, WithBytes)
        BY DEF Progress, InOrder
      <4>2. DOMAIN order = 1..n
        BY <4>1 DEF Bijection, Injection
      <4>3. PICK a \in 1..n : order[a] = i
        BY <3>2, <4>1 DEF Bijection, Surjection
      <4>4. PICK b \in 1..n : order[b] = j
        BY <3>2, <4>1 DEF Bijection, Surjection
      <4>5. CASE a < b
        BY <4>2, <4>3, <4>4, <4>5, EarlierEndsFirst DEF Apart
      <4>6. CASE b < a
        BY <4>2, <4>3, <4>4, <4>6, EarlierEndsFirst DEF Apart
      <4> QED
        BY <2>2, <4>3, <4>4, <4>5, <4>6
    <3> QED
      BY <3>1, <3>2 DEF WithBytes
  <2> QED
    BY <2>1, <2>2
<1> QED
  BY <1>1, ProgressHolds, PTL

-----------------------------------------------------------------------------
(* The size of a tensor, a product over the dimensions of its shape.       *)
(* FoldLeft takes the greatest index off a set of indices, one after the   *)
(* other.  A non-empty set of indices has one, ...                         *)
LEMMA GreatestOf ==
  ASSUME NEW n \in Nat, NEW s \in SUBSET (1 .. n), s # {}
  PROVE  Max(s) \in s /\ \A y \in s : Max(s) >= y
<1> DEFINE T == {k \in Nat : n - k \in s}
<1>1. \A y \in s : y \in Nat /\ n - y \in Nat /\ n - (n - y) = y
  OBVIOUS
<1>2. T # {}
  BY <1>1
<1>3. PICK m \in T : \A k \in T : m <= k
  <2>1. T \in SUBSET Nat
    OBVIOUS
  <2> QED BY <1>2, <2>1, LeastNat
<1>4. n - m \in s /\ \A y \in s : n - m >= y
  <2>1. \A y \in s : m <= n - y
    BY <1>1, <1>3
  <2> QED BY <1>1, <1>3, <2>1
<1>5. \E z \in s : \A y \in s : z >= y
  BY <1>4
<1> QED BY <1>5 DEF Max

(* ... which is above all the others.                                      *)
LEMMA GreatestIs ==
  ASSUME NEW n \in Nat, NEW s \in SUBSET (1 .. n), NEW x \in s, \A y \in s : x >= y
  PROVE  Max(s) = x
<1>1. Max(s) \in s /\ Max(s) >= x
  BY GreatestOf
<1>2. s \subseteq Nat
  OBVIOUS
<1>3. x >= Max(s) /\ x \in Nat /\ Max(s) \in Nat
  BY <1>1, <1>2
<1> QED BY <1>1, <1>3

(* The fold of every set of indices, as the steps of a run. *)
IsFold(F, V, n, start, step) ==
  /\ F \in [SUBSET (1 .. n) -> V]
  /\ \A s \in SUBSET (1 .. n) :
       F[s] = IF s = {} THEN start ELSE step[Max(s)][F[s \ {Max(s)}]]

(* Every function of a step has a fold.                                    *)
LEMMA FoldExists ==
  ASSUME NEW V, NEW n \in Nat, NEW start \in V, NEW step \in StepFunctions(V, n)
  PROVE  \E F : IsFold(F, V, n, start, step)
<1> DEFINE Sets == SUBSET (1 .. n)
           Upto(F, m) ==
             /\ F \in [Sets -> V]
             /\ \A s \in Sets : s \subseteq 1 .. m =>
                  F[s] = IF s = {} THEN start ELSE step[Max(s)][F[s \ {Max(s)}]]
           Built == {m \in Nat : \E F : Upto(F, m)}
<1>1. 0 \in Built
  <2> DEFINE F == [s \in Sets |-> start]
  <2>1. F \in [Sets -> V] /\ \A s \in Sets : F[s] = start
    OBVIOUS
  <2>2. \A s \in Sets : s \subseteq 1 .. 0 => s = {}
    OBVIOUS
  <2> HIDE DEF F, Sets
  <2>3. Upto(F, 0)
    BY <2>1, <2>2, Zenon
  <2> QED BY <2>3
<1>2. ASSUME NEW m \in Nat, m \in Built PROVE m + 1 \in Built
  <2>1. PICK F : Upto(F, m)
    BY <1>2
  <2>2. CASE m + 1 \notin 1 .. n
    <3>1. \A s \in Sets : s \subseteq 1 .. (m + 1) => s \subseteq 1 .. m
      BY <2>2
    <3> HIDE DEF Sets
    <3>2. Upto(F, m + 1)
      BY <2>1, <3>1, Zenon
    <3> QED BY <3>2
  <2>3. CASE m + 1 \in 1 .. n
    <3> DEFINE k == m + 1
               G == [s \in Sets |-> IF k \in s THEN step[k][F[s \ {k}]] ELSE F[s]]
    <3>1. \A s \in Sets : s \ {k} \in Sets
      OBVIOUS
    <3>2. \A v \in V : step[k][v] \in V
      BY <2>3 DEF StepFunctions
    <3>3. \A s \in Sets : s \subseteq 1 .. k => s \ {k} \subseteq 1 .. m
      OBVIOUS
    <3>4. \A s \in Sets : s \subseteq 1 .. k /\ k \in s => Max(s) = k
      <4> SUFFICES ASSUME NEW s \in Sets, s \subseteq 1 .. k, k \in s PROVE Max(s) = k
        OBVIOUS
      <4>1. \A y \in s : k >= y
        OBVIOUS
      <4> QED BY <4>1, GreatestIs
    <3> HIDE DEF k, Sets
    <3>5. G \in [Sets -> V]
      <4>1. \A s \in Sets : F[s] \in V
        BY <2>1
      <4> QED BY <4>1, <3>1, <3>2
    <3>6. ASSUME NEW s \in Sets, s \subseteq 1 .. k
          PROVE  G[s] = IF s = {} THEN start ELSE step[Max(s)][G[s \ {Max(s)}]]
      <4>1. CASE k \in s
        <5>1. G[s] = step[k][F[s \ {k}]]
          BY <4>1
        <5>2. G[s \ {k}] = F[s \ {k}]
          BY <3>1
        <5> HIDE DEF G
        <5> QED BY <3>4, <3>6, <4>1, <5>1, <5>2, Zenon
      <4>2. CASE k \notin s
        <5>1. G[s] = F[s]
          BY <4>2
        <5>2. s \subseteq 1 .. m
          BY <3>3, <3>6, <4>2
        <5>3. s \ {Max(s)} \in Sets
          BY DEF Sets
        <5>4. G[s \ {Max(s)}] = F[s \ {Max(s)}]
          BY <4>2, <5>3
        <5> HIDE DEF G
        <5> QED BY <2>1, <5>1, <5>2, <5>4, Zenon
      <4> QED BY <4>1, <4>2
    <3> HIDE DEF G
    <3>7. Upto(G, k)
      BY <3>5, <3>6, Zenon
    <3>8. Upto(G, m + 1)
      BY <3>7 DEF k
    <3> HIDE DEF Upto
    <3> QED BY <3>8
  <2> QED BY <2>2, <2>3
<1>3. Built = Nat
  <2> HIDE DEF Built
  <2>1. Built \in SUBSET Nat
    BY DEF Built
  <2> QED BY <1>1, <1>2, <2>1, EveryNat
<1>4. PICK F : Upto(F, n)
  BY <1>3
<1> QED BY <1>4, Zenon DEF IsFold

(* Folding the first elements. *)
LEMMA FoldOfBeginning ==
  ASSUME NEW n \in Nat, NEW m \in 1 .. n
  PROVE  /\ 1 .. m \in SUBSET (1 .. n) /\ 1 .. m # {}
         /\ Max(1 .. m) = m /\ (1 .. m) \ {m} = 1 .. m - 1
<1>1. 1 .. m \in SUBSET (1 .. n) /\ m \in 1 .. m /\ \A y \in 1 .. m : m >= y
  OBVIOUS
<1>2. Max(1 .. m) = m
  BY <1>1, GreatestIs
<1> QED BY <1>1, <1>2

(* The products of a shape: as read_shard computes them, and without bound. *)
IsProducts(p, shape) ==
  /\ p \in [0 .. Len(shape) -> Int] /\ p[0] = 1
  /\ \A i \in 1 .. Len(shape) : p[i] = Times(p[i - 1], shape[i])
IsTrueProducts(p, shape) ==
  /\ p \in [0 .. Len(shape) -> Int] /\ p[0] = 1
  /\ \A i \in 1 .. Len(shape) : p[i] = p[i - 1] * shape[i]

(* Both products stay among the integers, ...                              *)
LEMMA TimesIsInteger ==
  ASSUME NEW a \in Int, NEW b \in Int PROVE Times(a, b) \in Int
<1>1. MaxUint + 1 \in Nat \ {0} /\ Refused \in Int
  BY HeaderAssumption DEF Refused
<1>2. (a * b) % (MaxUint + 1) \in Int
  BY <1>1
<1> QED BY <1>1, <1>2, Zenon DEF Times

LEMMA ProductIsInteger == ASSUME NEW a \in Int, NEW b \in Int PROVE a * b \in Int
OBVIOUS

(* ... and FoldLeft is the last of them.                                   *)
LEMMA ProductsAre ==
  ASSUME NEW shape \in Seq(Int)
  PROVE  \E p : IsProducts(p, shape) /\ p[Len(shape)] = FoldLeft(Times, 1, shape)
<1> DEFINE n == Len(shape)
           Sets == SUBSET (1 .. n)
           Rule(f) == [s \in Sets |-> IF s = {} THEN 1 ELSE Times(f[s \ {Max(s)}], shape[Max(s)])]
           Flat == CHOOSE f : f = Rule(f)
           step == [i \in 1 .. n |-> [v \in Int |-> Times(v, shape[i])]]
<1>1. n \in Nat /\ DOMAIN shape = 1 .. n /\ \A i \in 1 .. n : shape[i] \in Int
  OBVIOUS
<1>2. FoldLeft(Times, 1, shape) = Flat[1 .. n]
  BY <1>1, Zenon DEF FoldLeft, MapThenFoldSet
<1>3. step \in StepFunctions(Int, n)
  BY <1>1, TimesIsInteger DEF StepFunctions
<1>4. ASSUME NEW i \in 1 .. n, NEW v \in Int PROVE step[i][v] = Times(v, shape[i])
  <2>1. step[i] = [w \in Int |-> Times(w, shape[i])]
    BY Zenon
  <2> QED BY <2>1, Zenon
<1> HIDE DEF step, n
<1>5. PICK F : IsFold(F, Int, n, 1, step)
  <2>1. 1 \in Int
    OBVIOUS
  <2> QED BY <1>1, <1>3, <2>1, FoldExists
<1>6. ASSUME NEW s \in Sets, s # {} PROVE Max(s) \in 1 .. n /\ s \ {Max(s)} \in Sets
  BY <1>1, <1>6, GreatestOf
<1> HIDE DEF Sets
<1>7. F \in [Sets -> Int] /\ \A s \in Sets : F[s] = IF s = {} THEN 1 ELSE step[Max(s)][F[s \ {Max(s)}]]
  BY <1>5, Zenon DEF IsFold, Sets
<1>8. ASSUME NEW s \in Sets
      PROVE  F[s] = IF s = {} THEN 1 ELSE Times(F[s \ {Max(s)}], shape[Max(s)])
  <2>1. CASE s = {}
    BY <1>7, <2>1
  <2>2. CASE s # {}
    <3>1. F[s \ {Max(s)}] \in Int
      BY <1>6, <1>7, <2>2
    <3> QED BY <1>4, <1>6, <1>7, <2>2, <3>1, Zenon
  <2> QED BY <2>1, <2>2
<1>9. F = Rule(F)
  BY <1>7, <1>8
<1>10. Flat = Rule(Flat)
  <2> HIDE DEF Rule
  <2> QED BY <1>9, Zenon
<1> HIDE DEF Flat
<1>11. \A s \in Sets : Flat[s] = IF s = {} THEN 1 ELSE Times(Flat[s \ {Max(s)}], shape[Max(s)])
  BY <1>10, Zenon
<1>12. {} \in Sets /\ 1 .. 0 = {}
  BY DEF Sets
<1> DEFINE p == [i \in 0 .. n |-> Flat[1 .. i]]
<1>13. p[0] = 1
  <2>1. 0 \in 0 .. n
    BY <1>1
  <2> QED BY <1>11, <1>12, <2>1, Zenon
<1>14. ASSUME NEW i \in 1 .. n PROVE p[i] = Times(p[i - 1], shape[i])
  <2>1. i \in 0 .. n /\ i - 1 \in 0 .. n
    BY <1>1
  <2>2. p[i] = Flat[1 .. i] /\ p[i - 1] = Flat[1 .. i - 1]
    BY <2>1, Zenon
  <2>3. 1 .. i \in Sets /\ 1 .. i # {} /\ Max(1 .. i) = i /\ (1 .. i) \ {i} = 1 .. i - 1
    BY <1>1, FoldOfBeginning DEF Sets
  <2>4. Flat[1 .. i] = Times(Flat[(1 .. i) \ {i}], shape[i])
    BY <1>11, <2>3, Zenon
  <2> QED BY <2>2, <2>3, <2>4, Zenon
<1>15. p = [i \in 0 .. n |-> p[i]] /\ p[n] = Flat[1 .. n]
  BY <1>1
<1> HIDE DEF p
<1>16. \A i \in 0 .. n : p[i] \in Int
  <2> DEFINE T == {i \in Nat : i \in 0 .. n => p[i] \in Int}
  <2>1. 0 \in T
    BY <1>13
  <2>2. ASSUME NEW i \in Nat, i \in T PROVE i + 1 \in T
    <3> SUFFICES ASSUME i + 1 \in 0 .. n PROVE p[i + 1] \in Int
      OBVIOUS
    <3>1. i + 1 \in 1 .. n /\ (i + 1) - 1 = i /\ i \in 0 .. n
      BY <1>1
    <3>2. p[i] \in Int /\ shape[i + 1] \in Int
      BY <1>1, <2>2, <3>1
    <3>3. p[i + 1] = Times(p[i], shape[i + 1])
      BY <1>14, <3>1
    <3> QED BY <3>2, <3>3, TimesIsInteger
  <2>3. T = Nat
    <3> HIDE DEF T
    <3>1. T \in SUBSET Nat
      BY DEF T
    <3> QED BY <2>1, <2>2, <3>1, EveryNat
  <2> QED BY <1>1, <2>3
<1>17. p \in [0 .. n -> Int]
  BY <1>15, <1>16, Zenon
<1>18. IsProducts(p, shape)
  BY <1>13, <1>14, <1>17, Zenon DEF IsProducts, n
<1> QED BY <1>2, <1>15, <1>18, Zenon DEF n

LEMMA TrueProductsAre ==
  ASSUME NEW shape \in Seq(Int)
  PROVE  \E p : IsTrueProducts(p, shape) /\ p[Len(shape)] = FoldLeft(LAMBDA m, dim : m * dim, 1, shape)
<1> DEFINE n == Len(shape)
           Sets == SUBSET (1 .. n)
           Rule(f) == [s \in Sets |-> IF s = {} THEN 1 ELSE f[s \ {Max(s)}] * shape[Max(s)]]
           Flat == CHOOSE f : f = Rule(f)
           step == [i \in 1 .. n |-> [v \in Int |-> v * shape[i]]]
<1>1. n \in Nat /\ DOMAIN shape = 1 .. n /\ \A i \in 1 .. n : shape[i] \in Int
  OBVIOUS
<1>2. FoldLeft(LAMBDA m, dim : m * dim, 1, shape) = Flat[1 .. n]
  BY <1>1, Zenon DEF FoldLeft, MapThenFoldSet
<1>3. step \in StepFunctions(Int, n)
  BY <1>1, ProductIsInteger DEF StepFunctions
<1>4. ASSUME NEW i \in 1 .. n, NEW v \in Int PROVE step[i][v] = v * shape[i]
  <2>1. step[i] = [w \in Int |-> w * shape[i]]
    BY Zenon
  <2> QED BY <2>1, Zenon
<1> HIDE DEF step, n
<1>5. PICK F : IsFold(F, Int, n, 1, step)
  <2>1. 1 \in Int
    OBVIOUS
  <2> QED BY <1>1, <1>3, <2>1, FoldExists
<1>6. ASSUME NEW s \in Sets, s # {} PROVE Max(s) \in 1 .. n /\ s \ {Max(s)} \in Sets
  BY <1>1, <1>6, GreatestOf
<1> HIDE DEF Sets
<1>7. F \in [Sets -> Int] /\ \A s \in Sets : F[s] = IF s = {} THEN 1 ELSE step[Max(s)][F[s \ {Max(s)}]]
  BY <1>5, Zenon DEF IsFold, Sets
<1>8. ASSUME NEW s \in Sets
      PROVE  F[s] = IF s = {} THEN 1 ELSE F[s \ {Max(s)}] * shape[Max(s)]
  <2>1. CASE s = {}
    BY <1>7, <2>1
  <2>2. CASE s # {}
    <3>1. F[s \ {Max(s)}] \in Int
      BY <1>6, <1>7, <2>2
    <3> QED BY <1>4, <1>6, <1>7, <2>2, <3>1, Zenon
  <2> QED BY <2>1, <2>2
<1>9. F = Rule(F)
  BY <1>7, <1>8
<1>10. Flat = Rule(Flat)
  <2> HIDE DEF Rule
  <2> QED BY <1>9, Zenon
<1> HIDE DEF Flat
<1>11. \A s \in Sets : Flat[s] = IF s = {} THEN 1 ELSE Flat[s \ {Max(s)}] * shape[Max(s)]
  BY <1>10, Zenon
<1>12. {} \in Sets /\ 1 .. 0 = {}
  BY DEF Sets
<1> DEFINE p == [i \in 0 .. n |-> Flat[1 .. i]]
<1>13. p[0] = 1
  <2>1. 0 \in 0 .. n
    BY <1>1
  <2> QED BY <1>11, <1>12, <2>1, Zenon
<1>14. ASSUME NEW i \in 1 .. n PROVE p[i] = p[i - 1] * shape[i]
  <2>1. i \in 0 .. n /\ i - 1 \in 0 .. n
    BY <1>1
  <2>2. p[i] = Flat[1 .. i] /\ p[i - 1] = Flat[1 .. i - 1]
    BY <2>1, Zenon
  <2>3. 1 .. i \in Sets /\ 1 .. i # {} /\ Max(1 .. i) = i /\ (1 .. i) \ {i} = 1 .. i - 1
    BY <1>1, FoldOfBeginning DEF Sets
  <2>4. Flat[1 .. i] = Flat[(1 .. i) \ {i}] * shape[i]
    BY <1>11, <2>3, Zenon
  <2> QED BY <2>2, <2>3, <2>4, Zenon
<1>15. p = [i \in 0 .. n |-> p[i]] /\ p[n] = Flat[1 .. n]
  BY <1>1
<1> HIDE DEF p
<1>16. \A i \in 0 .. n : p[i] \in Int
  <2> DEFINE T == {i \in Nat : i \in 0 .. n => p[i] \in Int}
  <2>1. 0 \in T
    BY <1>13
  <2>2. ASSUME NEW i \in Nat, i \in T PROVE i + 1 \in T
    <3> SUFFICES ASSUME i + 1 \in 0 .. n PROVE p[i + 1] \in Int
      OBVIOUS
    <3>1. i + 1 \in 1 .. n /\ (i + 1) - 1 = i /\ i \in 0 .. n
      BY <1>1
    <3>2. p[i] \in Int /\ shape[i + 1] \in Int
      BY <1>1, <2>2, <3>1
    <3>3. p[i + 1] = p[i] * shape[i + 1]
      BY <1>14, <3>1
    <3> QED BY <3>2, <3>3, ProductIsInteger
  <2>3. T = Nat
    <3> HIDE DEF T
    <3>1. T \in SUBSET Nat
      BY DEF T
    <3> QED BY <2>1, <2>2, <3>1, EveryNat
  <2> QED BY <1>1, <2>3
<1>17. p \in [0 .. n -> Int]
  BY <1>15, <1>16, Zenon
<1>18. IsTrueProducts(p, shape)
  BY <1>13, <1>14, <1>17, Zenon DEF IsTrueProducts, n
<1> QED BY <1>2, <1>15, <1>18, Zenon DEF n

(* A product that is not refused is exact. *)
LEMMA TimesIsExact ==
  ASSUME NEW a \in Nat, NEW b \in Int, Times(a, b) # Refused
  PROVE  b >= 0 /\ Times(a, b) = a * b /\ a * b \in 0 .. MaxUint
<1>1. MaxUint \in Nat
  BY HeaderAssumption
<1>2. a # Refused
  BY DEF Refused
<1>3. b >= 0 /\ (b # 0 => a <= MaxUint \div b) /\ Times(a, b) = (a * b) % (MaxUint + 1)
  <2>1. b >= 0
    BY <1>2 DEF Times
  <2>2. b # 0 => a <= MaxUint \div b
    BY <1>1, <1>2, <2>1 DEF Times
  <2>3. Times(a, b) = (a * b) % (MaxUint + 1)
    BY DEF Times
  <2> QED BY <2>1, <2>2, <2>3
<1>4. a * b \in 0 .. MaxUint
  <2>1. CASE b = 0
    BY <1>1, <2>1
  <2>2. CASE b # 0
    <3> DEFINE q == MaxUint \div b
    <3>1. q \in Nat /\ q * b <= MaxUint /\ b \in Nat
      BY <1>1, <1>3, <2>2
    <3>2. a <= q
      BY <1>3, <2>2
    <3> HIDE DEF q
    <3>3. a * b <= q * b /\ a * b >= 0 /\ a * b \in Int
      BY <3>1, <3>2
    <3> QED BY <1>1, <3>1, <3>3
  <2> QED BY <2>1, <2>2
<1>5. \A z \in 0 .. MaxUint : z % (MaxUint + 1) = z
  BY <1>1
<1> QED BY <1>3, <1>4, <1>5

(* A product that fits is not refused. *)
LEMMA TimesThatFits ==
  ASSUME NEW a \in Nat, NEW b \in Nat, a * b <= MaxUint PROVE Times(a, b) = a * b
<1>1. MaxUint \in Nat /\ a # Refused /\ ~(b < 0)
  BY HeaderAssumption DEF Refused
<1>2. b # 0 => ~(a > MaxUint \div b)
  <2> SUFFICES ASSUME b # 0, a > MaxUint \div b PROVE FALSE
    OBVIOUS
  <2> DEFINE q == MaxUint \div b
  <2>1. q \in Nat /\ MaxUint < (q + 1) * b
    BY <1>1
  <2>2. a >= q + 1
    BY <1>1, <2>1
  <2> HIDE DEF q
  <2>3. (q + 1) * b <= a * b
    BY <2>1, <2>2
  <2> QED BY <1>1, <2>1, <2>3
<1>3. a * b \in 0 .. MaxUint
  BY <1>1
<1>4. \A z \in 0 .. MaxUint : z % (MaxUint + 1) = z
  BY <1>1
<1>5. Times(a, b) = (a * b) % (MaxUint + 1)
  BY <1>1, <1>2, Zenon DEF Times
<1> QED BY <1>3, <1>4, <1>5

(* The same of the products of a shape. *)
LEMMA ProductsAreExact ==
  ASSUME NEW shape \in Seq(Int), NEW p, IsProducts(p, shape), NEW t, IsTrueProducts(t, shape)
  PROVE  p[Len(shape)] # Refused => p[Len(shape)] = t[Len(shape)] /\ t[Len(shape)] \in Nat
<1> DEFINE n == Len(shape)
           T == {i \in Nat : i \in 0 .. n /\ p[i] # Refused => p[i] = t[i] /\ t[i] \in Nat}
<1>1. n \in Nat /\ \A i \in 1 .. n : shape[i] \in Int
  OBVIOUS
<1>2. /\ p[0] = 1 /\ t[0] = 1
      /\ \A i \in 1 .. n : p[i] = Times(p[i - 1], shape[i]) /\ t[i] = t[i - 1] * shape[i]
  BY Zenon DEF IsProducts, IsTrueProducts
<1> HIDE DEF n
<1>3. 0 \in T
  BY <1>2
<1>4. ASSUME NEW i \in Nat, i \in T PROVE i + 1 \in T
  <2> SUFFICES ASSUME i + 1 \in 0 .. n, p[i + 1] # Refused
               PROVE  p[i + 1] = t[i + 1] /\ t[i + 1] \in Nat
    OBVIOUS
  <2>1. i + 1 \in 1 .. n /\ (i + 1) - 1 = i /\ i \in 0 .. n
    BY <1>1
  <2>2. p[i + 1] = Times(p[i], shape[i + 1]) /\ t[i + 1] = t[i] * shape[i + 1] /\ shape[i + 1] \in Int
    BY <1>1, <1>2, <2>1, Zenon
  <2>3. p[i] # Refused
    BY <2>2 DEF Times
  <2>4. p[i] = t[i] /\ t[i] \in Nat
    BY <1>4, <2>1, <2>3
  <2>5. Times(t[i], shape[i + 1]) = t[i] * shape[i + 1] /\ t[i] * shape[i + 1] \in 0 .. MaxUint
    BY <2>2, <2>4, TimesIsExact
  <2> QED BY <2>2, <2>4, <2>5
<1>5. T = Nat
  <2> HIDE DEF T
  <2>1. T \in SUBSET Nat
    BY DEF T
  <2> QED BY <1>3, <1>4, <2>1, EveryNat
<1>6. n \in T /\ n \in 0 .. n
  BY <1>1, <1>5
<1> QED BY <1>6 DEF n

(* If the last product fits and is not zero, so do all before it.          *)
LEMMA ProductsThatFit ==
  ASSUME NEW shape \in Seq(Int), \A i \in 1 .. Len(shape) : shape[i] >= 0,
         NEW p, IsProducts(p, shape), NEW t, IsTrueProducts(t, shape),
         t[Len(shape)] \in 1 .. MaxUint
  PROVE  p[Len(shape)] = t[Len(shape)]
<1> DEFINE n == Len(shape)
           last == t[n]
           Naturals == {i \in Nat : i \in 0 .. n => t[i] \in Nat}
           Below == {k \in Nat : k \in 0 .. n => t[n - k] \in 1 .. last}
           Equal == {i \in Nat : i \in 0 .. n => p[i] = t[i]}
<1>1. n \in Nat /\ \A i \in 1 .. n : shape[i] \in Nat
  OBVIOUS
<1>2. /\ p[0] = 1 /\ t[0] = 1
      /\ \A i \in 1 .. n : p[i] = Times(p[i - 1], shape[i]) /\ t[i] = t[i - 1] * shape[i]
  BY Zenon DEF IsProducts, IsTrueProducts
<1>3. last \in 1 .. MaxUint /\ MaxUint \in Nat
  BY HeaderAssumption
<1>4. n - 0 = n
  BY <1>1
<1>5. t[n - 0] = last
  BY <1>4
<1> HIDE DEF n, last
<1>6. Naturals = Nat
  <2>1. 0 \in Naturals
    BY <1>2
  <2>2. ASSUME NEW i \in Nat, i \in Naturals PROVE i + 1 \in Naturals
    <3> SUFFICES ASSUME i + 1 \in 0 .. n PROVE t[i + 1] \in Nat
      OBVIOUS
    <3>1. i + 1 \in 1 .. n /\ (i + 1) - 1 = i /\ i \in 0 .. n
      BY <1>1
    <3>2. t[i + 1] = t[i] * shape[i + 1] /\ shape[i + 1] \in Nat
      BY <1>1, <1>2, <3>1, Zenon
    <3>3. t[i] \in Nat
      BY <2>2, <3>1
    <3> QED BY <3>2, <3>3
  <2> HIDE DEF Naturals
  <2>3. Naturals \in SUBSET Nat
    BY DEF Naturals
  <2> QED BY <2>1, <2>2, <2>3, EveryNat
<1>7. Below = Nat
  <2>1. 0 \in Below
    BY <1>3, <1>5
  <2>2. ASSUME NEW k \in Nat, k \in Below PROVE k + 1 \in Below
    <3> SUFFICES ASSUME k + 1 \in 0 .. n PROVE t[n - (k + 1)] \in 1 .. last
      OBVIOUS
    <3> DEFINE i == n - k
    <3>1. i \in 1 .. n /\ i - 1 = n - (k + 1) /\ i - 1 \in 0 .. n /\ k \in 0 .. n
      BY <1>1
    <3>2. t[i] \in 1 .. last
      BY <2>2, <3>1
    <3> HIDE DEF i
    <3>3. t[i] = t[i - 1] * shape[i] /\ shape[i] \in Nat
      BY <1>1, <1>2, <3>1
    <3>4. t[i - 1] \in Nat
      BY <1>6, <3>1
    <3>5. \A x, y \in Nat : x * y \in 1 .. last => x \in 1 .. last
      <4> SUFFICES ASSUME NEW x \in Nat, NEW y \in Nat, x * y \in 1 .. last PROVE x \in 1 .. last
        OBVIOUS
      <4>1. x # 0 /\ y # 0
        OBVIOUS
      <4>2. x * 1 <= x * y
        BY <4>1
      <4> QED BY <1>3, <4>1, <4>2
    <3> QED BY <3>1, <3>2, <3>3, <3>4, <3>5
  <2> HIDE DEF Below
  <2>3. Below \in SUBSET Nat
    BY DEF Below
  <2> QED BY <2>1, <2>2, <2>3, EveryNat
<1>8. \A i \in 0 .. n : t[i] \in 1 .. MaxUint
  <2> SUFFICES ASSUME NEW i \in 0 .. n PROVE t[i] \in 1 .. MaxUint
    OBVIOUS
  <2>1. n - i \in Nat /\ n - i \in 0 .. n /\ n - (n - i) = i
    BY <1>1
  <2>2. t[i] \in 1 .. last
    BY <1>7, <2>1
  <2> QED BY <1>3, <2>2
<1>9. Equal = Nat
  <2>1. 0 \in Equal
    BY <1>2
  <2>2. ASSUME NEW i \in Nat, i \in Equal PROVE i + 1 \in Equal
    <3> SUFFICES ASSUME i + 1 \in 0 .. n PROVE p[i + 1] = t[i + 1]
      OBVIOUS
    <3>1. i + 1 \in 1 .. n /\ (i + 1) - 1 = i /\ i \in 0 .. n
      BY <1>1
    <3>2. p[i + 1] = Times(p[i], shape[i + 1]) /\ t[i + 1] = t[i] * shape[i + 1] /\ shape[i + 1] \in Nat
      BY <1>1, <1>2, <3>1, Zenon
    <3>3. p[i] = t[i] /\ t[i] \in Nat /\ t[i + 1] <= MaxUint
      BY <1>3, <1>8, <2>2, <3>1
    <3> QED BY <3>2, <3>3, TimesThatFits
  <2> HIDE DEF Equal
  <2>3. Equal \in SUBSET Nat
    BY DEF Equal
  <2> QED BY <2>1, <2>2, <2>3, EveryNat
<1>10. n \in 0 .. n
  BY <1>1
<1> QED BY <1>9, <1>10 DEF n

(* expected_tensor_bytes is refused or exact, and it is not refused for a  *)
(* tensor with bytes that fit.                                             *)
LEMMA BytesAreExact ==
  ASSUME NEW tensor \in [dtype : STRING, shape : Seq(Int), begin : Int, end : Int]
  PROVE  /\ TensorBytes(tensor) # Refused =>
              tensor.dtype \in DOMAIN Width /\ TensorBytes(tensor) = TrueBytes(tensor)
         /\ /\ tensor.dtype \in DOMAIN Width
            /\ \A i \in 1 .. Len(tensor.shape) : tensor.shape[i] >= 0
            /\ TrueBytes(tensor) \in 1 .. MaxUint
            => TensorBytes(tensor) = TrueBytes(tensor)
<1> DEFINE shape == tensor.shape
           width == Width[tensor.dtype]
<1>1. shape \in Seq(Int)
  OBVIOUS
<1>2. PICK p : IsProducts(p, shape) /\ p[Len(shape)] = FoldLeft(Times, 1, shape)
  BY <1>1, ProductsAre
<1>3. PICK t : /\ IsTrueProducts(t, shape)
               /\ t[Len(shape)] = FoldLeft(LAMBDA m, dim : m * dim, 1, shape)
  BY <1>1, TrueProductsAre
<1> DEFINE number == p[Len(shape)]
           true == t[Len(shape)]
<1>4. TrueBytes(tensor) = width * true
  BY <1>3 DEF TrueBytes
<1>5. tensor.dtype \in DOMAIN Width => TensorBytes(tensor) = Times(number, width)
  BY <1>2 DEF TensorBytes
<1>6. tensor.dtype \notin DOMAIN Width => TensorBytes(tensor) = Refused
  BY DEF TensorBytes
<1>7. tensor.dtype \in DOMAIN Width => width \in Nat \ {0}
  BY HeaderAssumption
<1>8. number # Refused => number = true /\ true \in Nat
  BY <1>1, <1>2, <1>3, ProductsAreExact
<1>9. (\A i \in 1 .. Len(shape) : shape[i] >= 0) /\ true \in 1 .. MaxUint => number = true
  BY <1>1, <1>2, <1>3, ProductsThatFit
<1>10. true \in Int
  <2>1. Len(shape) \in 0 .. Len(shape)
    BY <1>1
  <2> QED BY <1>3, <2>1 DEF IsTrueProducts
<1> HIDE DEF number, true, width
<1>11. TensorBytes(tensor) # Refused =>
         tensor.dtype \in DOMAIN Width /\ TensorBytes(tensor) = TrueBytes(tensor)
  <2> SUFFICES ASSUME TensorBytes(tensor) # Refused
               PROVE  tensor.dtype \in DOMAIN Width /\ TensorBytes(tensor) = TrueBytes(tensor)
    OBVIOUS
  <2>1. tensor.dtype \in DOMAIN Width /\ Times(number, width) # Refused /\ width \in Nat
    BY <1>5, <1>6, <1>7
  <2>2. number # Refused
    BY <2>1 DEF Times
  <2>3. Times(number, width) = number * width
    BY <1>8, <2>1, <2>2, TimesIsExact
  <2> QED BY <1>4, <1>5, <1>8, <2>1, <2>2, <2>3
<1>12. ASSUME tensor.dtype \in DOMAIN Width, \A i \in 1 .. Len(shape) : shape[i] >= 0,
              TrueBytes(tensor) \in 1 .. MaxUint
       PROVE  TensorBytes(tensor) = TrueBytes(tensor)
  <2>1. width \in Nat \ {0} /\ width * true \in 1 .. MaxUint /\ MaxUint \in Nat
    BY <1>4, <1>7, <1>12, HeaderAssumption
  <2>2. true \in 1 .. MaxUint
    <3>1. true > 0
      BY <1>10, <2>1
    <3>2. 1 * true <= width * true
      BY <1>10, <2>1, <3>1
    <3> QED BY <1>10, <2>1, <3>1, <3>2
  <2>3. number = true
    BY <1>9, <1>12, <2>2
  <2>4. Times(true, width) = true * width
    BY <2>1, <2>2, TimesThatFits
  <2> QED BY <1>4, <1>5, <1>12, <2>1, <2>2, <2>3, <2>4
<1> QED BY <1>11, <1>12

(* The tensors validated so far have the size their range says; a header   *)
(* was refused for a tensor or for two ranges that meet.                   *)
SizeProgress ==
  /\ \A i \in 1 .. Len(declared) : i < next =>
       declared[i].end - declared[i].begin = TensorBytes(declared[i])
  /\ phase = "refused" =>
       \/ \E i \in 1 .. Len(declared) : ~OffsetsValid(declared[i], payload)
       \/ InOrder /\ ~NeighboursApart

(* Every step of read_shard keeps it. *)
LEMMA SizesHold == HeaderSpec => []SizeProgress
<1>1. HeaderInit => SizeProgress
  BY HeaderTypes DEF HeaderInit, SizeProgress
<1>2. Progress /\ SizeProgress /\ [HeaderNext]_headerVars => SizeProgress'
  <2> SUFFICES ASSUME Progress, SizeProgress, [HeaderNext]_headerVars
               PROVE  SizeProgress'
    OBVIOUS
  <2>1. CASE ValidateTensor
    <3>1. next \in 1 .. Len(declared) /\ phase # "refused" /\ UNCHANGED <<declared, payload, order>>
      BY <2>1, HeaderTypes DEF ValidateTensor, Progress
    <3>2. CASE OffsetsValid(declared[next], payload)
      <4>1. next' = next + 1 /\ phase' = phase
        BY <2>1, <3>2 DEF ValidateTensor
      <4>2. declared[next].end - declared[next].begin = TensorBytes(declared[next])
        BY <3>2 DEF OffsetsValid
      <4>3. \A i \in 1 .. Len(declared) : i < next + 1 => i < next \/ i = next
        BY <3>1
      <4> QED BY <3>1, <4>1, <4>2, <4>3 DEF SizeProgress
    <3>3. CASE ~OffsetsValid(declared[next], payload)
      <4>1. next' = next
        BY <2>1, <3>3 DEF ValidateTensor
      <4> QED BY <3>1, <3>3, <4>1 DEF SizeProgress
    <3> QED BY <3>2, <3>3
  <2>2. CASE SortRanges
    <3>1. phase' = "compare" /\ UNCHANGED <<declared, payload, next>>
      BY <2>2 DEF SortRanges
    <3> QED BY <3>1 DEF SizeProgress
  <2>3. CASE CompareNeighbours
    <3>1. phase = "compare" /\ UNCHANGED <<declared, payload, next, order>>
      BY <2>3 DEF CompareNeighbours
    <3>2. InOrder
      BY <3>1 DEF Progress
    <3>3. InOrder' /\ NeighboursApart' = NeighboursApart
      BY <3>1, <3>2 DEF InOrder, NeighboursApart, WithBytes
    <3>4. phase' = "refused" => ~NeighboursApart
      BY <2>3 DEF CompareNeighbours
    <3> QED BY <3>1, <3>3, <3>4 DEF SizeProgress
  <2>4. CASE UNCHANGED headerVars
    BY <2>4 DEF headerVars, SizeProgress, InOrder, WithBytes, NeighboursApart
  <2> QED
    BY <2>1, <2>2, <2>3, <2>4 DEF HeaderNext, HeaderRest
<1> QED
  BY <1>1, <1>2, ProgressHolds, PTL DEF HeaderSpec

(* In a sound header sorted ranges do not meet.                            *)
LEMMA SoundRangesAreApart ==
  ASSUME declared \in Declarations, payload \in Payloads, Sound, InOrder
  PROVE  NeighboursApart
<1> SUFFICES ASSUME NEW i \in DOMAIN order, i > 1
             PROVE  declared[order[i]].begin >= declared[order[i - 1]].end
  BY DEF NeighboursApart
<1>1. PICK n \in Nat : order \in Bijection(1..n, WithBytes)
  BY DEF InOrder
<1>2. order \in [1..n -> WithBytes]
  BY <1>1 DEF Bijection, Injection
<1>3. i \in 1 .. n /\ i - 1 \in 1 .. n /\ i - 1 < i /\ i - 1 # i
  BY <1>2
<1> DEFINE a == order[i - 1]
           b == order[i]
<1>4. a \in WithBytes /\ b \in WithBytes
  BY <1>2, <1>3
<1>5. a # b
  <2>1. order[i] # order[i - 1]
    BY <1>1, <1>2, <1>3 DEF Bijection, Injection, IsInjective
  <2> QED BY <2>1
<1>6. Before(declared[a], declared[b])
  BY <1>2, <1>3 DEF InOrder
<1> HIDE DEF a, b
<1>7. a \in 1 .. Len(declared) /\ b \in 1 .. Len(declared)
  BY <1>4 DEF WithBytes
<1>8. /\ declared[a].begin \in Int /\ declared[a].end \in Int
      /\ declared[b].begin \in Int /\ declared[b].end \in Int
      /\ declared[a].begin < declared[a].end /\ declared[b].begin < declared[b].end
  <2>1. declared[a].begin # declared[a].end /\ declared[b].begin # declared[b].end
    BY <1>4 DEF WithBytes
  <2>2. declared[a].begin <= declared[a].end /\ declared[b].begin <= declared[b].end
    BY <1>7 DEF Sound
  <2> QED BY <1>7, <2>1, <2>2, HeaderTypes
<1>9. Apart(a, b)
  BY <1>5, <1>7 DEF Sound
<1>10. declared[a].end <= declared[b].begin
  BY <1>6, <1>8, <1>9 DEF Apart, Before
<1> QED BY <1>8, <1>10 DEF a, b

(* An accepted range has exactly the bytes that dtype and shape call for,  *)
(* however large the dimensions are, and a sound header is refused only    *)
(* for an empty tensor whose other dimensions overflow                     *)
(* (checkpoint_binding.cpp:99-128).                                        *)
THEOREM AcceptedSizesAreExact == HeaderSpec => []SizesAreExact
<1>1. Progress /\ SizeProgress => SizesAreExact
  <2> SUFFICES ASSUME Progress, SizeProgress PROVE SizesAreExact
    OBVIOUS
  <2>1. declared \in Declarations /\ payload \in Payloads /\ payload \in 0 .. MaxUint
    BY HeaderAssumption DEF Progress
  <2>2. \A i \in 1 .. Len(declared) :
          declared[i] \in [dtype : STRING, shape : Seq(Int), begin : Int, end : Int]
    <3> DEFINE Tensor == [dtype : STRING, shape : Seq(Int), begin : Int, end : Int]
    <3>1. declared \in Seq(Tensor)
      BY <2>1, HeaderAssumption
    <3> HIDE DEF Tensor
    <3>2. \A i \in 1 .. Len(declared) : declared[i] \in Tensor
      BY <3>1
    <3> QED BY <3>2 DEF Tensor
  <2>3. ASSUME phase = "accepted", NEW i \in 1 .. Len(declared)
        PROVE  /\ declared[i].dtype \in DOMAIN Width
               /\ declared[i].end - declared[i].begin = TrueBytes(declared[i])
    <3>1. i < next
      BY <2>1, <2>3, HeaderTypes DEF Progress
    <3>2. InPayload(i) /\ declared[i].end - declared[i].begin = TensorBytes(declared[i])
      BY <3>1 DEF Progress, SizeProgress
    <3>3. TensorBytes(declared[i]) # Refused
      BY <2>1, <3>2, HeaderTypes DEF InPayload, Refused
    <3> QED BY <2>2, <3>2, <3>3, BytesAreExact
  <2>4. ASSUME phase = "refused", Sound
        PROVE  \E i \in 1 .. Len(declared) :
                 TrueBytes(declared[i]) = 0 /\ TensorBytes(declared[i]) = Refused
    <3>1. PICK i \in 1 .. Len(declared) : ~OffsetsValid(declared[i], payload)
      BY <2>1, <2>4, SoundRangesAreApart DEF SizeProgress
    <3> DEFINE x == declared[i]
    <3>2. /\ 0 <= x.begin /\ x.begin <= x.end /\ x.end <= payload
          /\ x.dtype \in DOMAIN Width
          /\ \A k \in 1 .. Len(x.shape) : x.shape[k] >= 0
          /\ x.end - x.begin = TrueBytes(x)
      BY <2>4 DEF Sound
    <3>3. x.begin \in Int /\ x.end \in Int
      BY <2>1, HeaderTypes
    <3>4. TensorBytes(x) # TrueBytes(x)
      BY <3>1, <3>2 DEF OffsetsValid
    <3>5. x \in [dtype : STRING, shape : Seq(Int), begin : Int, end : Int]
      BY <2>2
    <3> HIDE DEF x
    <3>6. TensorBytes(x) = Refused /\ TrueBytes(x) \notin 1 .. MaxUint
      BY <3>2, <3>4, <3>5, BytesAreExact
    <3>7. TrueBytes(x) = 0
      <4>1. TrueBytes(x) \in Nat /\ TrueBytes(x) <= MaxUint /\ MaxUint \in Nat
        BY <2>1, <3>2, <3>3, HeaderAssumption
      <4> QED BY <3>6, <4>1
    <3> QED BY <3>6, <3>7 DEF x
  <2> QED BY <2>3, <2>4 DEF SizesAreExact
<1> QED
  BY <1>1, ProgressHolds, SizesHold, PTL

-----------------------------------------------------------------------------
(* The binding pass.  The shards the pass goes through, read or not. *)
Listed == todo \cup {s \in Shard : found[s] # "unread"}

NoRepeats == \A p, q \in Places : At(p).name = At(q).name => p = q

(* An index that names something, or a listing that is not empty. *)
SomethingNamed ==
  \/ index = "map" /\ weightMap # << >> /\ receipt.index # "other"
  \/ index = "absent" /\ Listed # {}

(* What has been right up to here, as far as the pass has looked. *)
Clean ==
  /\ pc # "config" => config = "right"
  /\ pc \notin {"config", "receipt"} => receipt.config # "other"
  /\ pc \notin {"config", "receipt", "index"} => SomethingNamed
  /\ pc \in {"read", "bind", "done"} => Listed \cap Unsafe = {} /\ late = {}
  /\ \A s \in Shard : found[s] # "unreadable"
  /\ NoRepeats
  /\ pc \in {"bind", "done"} => AsIndexed
  /\ pc = "done" => receipt.count \in {-1, Cardinality(DOMAIN catalog)}

BindingTypes ==
  /\ pc \in {"config", "receipt", "index", "stat", "read", "bind", "done", "thrown"}
  /\ ioErrors \in Nat
  /\ weightMap \in WeightMaps
  /\ todo \in SUBSET Shard /\ late \in SUBSET Shard
  /\ found \in [Shard -> {"unread", "absent", "unreadable", "read"}]
  /\ header \in [Shard -> Headers \cup {<< >>}]

(* The shards that are left are unread, the others have said what they     *)
(* hold, and only a safe name was read.                                    *)
ShardsInvariant ==
  /\ \A s \in Shard : found[s] # "read" => header[s] = << >>
  /\ \A s \in Shard : found[s] = "read" => Safe(s)
  /\ \A s \in todo : found[s] = "unread"
  /\ pc \in {"config", "receipt", "index", "stat"} => \A s \in Shard : found[s] = "unread"
  /\ pc \in {"config", "receipt", "index"} => todo = {} /\ index = "unread" /\ weightMap = << >>
  /\ index \in {"unread", "absent", "broken"} => weightMap = << >>
  /\ pc \in {"bind", "done"} => todo = {}
  /\ index = "map" => Listed = {weightMap[name] : name \in DOMAIN weightMap}
  /\ index = "absent" => Listed \cap Unsafe = {}
  /\ index \in {"unread", "absent", "broken", "map"}
  /\ pc \in {"stat", "read", "bind"} => index # "unread"

(* The catalogue holds the first entry of every name that was read. *)
CatalogInvariant ==
  /\ DOMAIN catalog = {At(p).name : p \in Places}
  /\ \A name \in DOMAIN catalog :
       \E p \in Places : /\ At(p).name = name
                         /\ catalog[name] = [layout |-> At(p).layout, shard |-> p[1]]

CountsInvariant ==
  pc = "done" /\ config # "missing" =>
    /\ counts.missing = Cardinality(DOMAIN Expected \ DOMAIN catalog)
    /\ counts.unexpected = Cardinality(DOMAIN catalog \ DOMAIN Expected)
    /\ counts.mismatched =
         Cardinality({name \in DOMAIN catalog \cap DOMAIN Expected : Mismatched(name)})

BindingInvariant ==
  /\ BindingTypes /\ ShardsInvariant /\ CatalogInvariant /\ CountsInvariant
  /\ pc # "thrown" => (ioErrors = 0 <=> Clean)

-----------------------------------------------------------------------------
(* A finite set is empty when it counts nothing. *)
LEMMA NoneCounted ==
  ASSUME NEW S, IsFiniteSet(S)
  PROVE  Cardinality(S) \in Nat /\ (Cardinality(S) = 0 <=> S = {})
  BY FS_CardinalityType, FS_EmptySet

LEMMA NamesAreFinite ==
  ASSUME NEW S \in SUBSET Name
  PROVE  IsFiniteSet(S)
  BY FS_Subset, BindingAssumption

LEMMA ShardsAreFinite ==
  ASSUME NEW S \in SUBSET Shard
  PROVE  IsFiniteSet(S)
<1> DEFINE m == Len(ShardOrder)
<1>1. ShardOrder \in [1 .. m -> Shard] /\ m \in Nat
  BY BindingAssumption, LenProperties
<1>2. Shard = {ShardOrder[i] : i \in 1 .. m}
  BY <1>1 DEF Shard, ToSet
<1> HIDE DEF m
<1>3. ShardOrder \in Surjection(1 .. m, Shard)
  BY <1>1, <1>2 DEF Surjection
<1>4. IsFiniteSet(1 .. m)
  BY <1>1, FS_Interval
<1>5. IsFiniteSet(Shard)
  BY <1>3, <1>4, FS_Surjection
<1> QED
  BY <1>5, FS_Subset

(* The shard that is read is one of those left. *)
LEMMA FirstIsLeft ==
  ASSUME NEW shards \in SUBSET Shard, shards # {}
  PROVE  First(shards) \in shards
<1> DEFINE T == {i \in 1 .. Len(ShardOrder) : ShardOrder[i] \in shards}
<1>1. ShardOrder \in [1 .. Len(ShardOrder) -> Shard] /\ Len(ShardOrder) \in Nat
      /\ DOMAIN ShardOrder = 1 .. Len(ShardOrder)
  BY BindingAssumption, LenProperties
<1>2. Shard = {ShardOrder[i] : i \in DOMAIN ShardOrder}
  BY DEF Shard, ToSet
<1>3. T \in SUBSET Nat /\ T # {}
  BY <1>1, <1>2
<1>4. PICK i \in T : \A k \in T : i <= k
  BY <1>3, LeastNat
<1>5. \A j \in 1 .. (i - 1) : ShardOrder[j] \notin shards
  BY <1>1, <1>4
<1>6. \E k \in DOMAIN ShardOrder :
        ShardOrder[k] \in shards /\ \A j \in 1 .. (k - 1) : ShardOrder[j] \notin shards
  BY <1>1, <1>4, <1>5
<1> QED
  BY <1>6 DEF First

-----------------------------------------------------------------------------
(* Entries of a header, and how a repeated name is counted. *)
LEMMA EntriesAre ==
  ASSUME NEW entries \in Headers \cup {<< >>}
  PROVE  /\ Len(entries) \in Nat
         /\ \A i \in 1 .. Len(entries) : entries[i] \in [name : Name, layout : Layout]
         /\ NamesOf(entries) = {entries[i].name : i \in 1 .. Len(entries)}
         /\ NamesOf(entries) \in SUBSET Name
<1>1. entries \in Seq([name : Name, layout : Layout])
  BY BindingAssumption, EmptySeq
<1>2. Len(entries) \in Nat /\ \A i \in 1 .. Len(entries) : entries[i] \in [name : Name, layout : Layout]
  BY <1>1, LenProperties, ElementOfSeq
<1> QED
  BY <1>2 DEF NamesOf

LEMMA CountTo ==
  ASSUME NEW n \in Nat
  PROVE  IsFiniteSet(1 .. n) /\ Cardinality(1 .. n) = n
<1>1. IsFiniteSet(1 .. n)
  BY FS_Interval
<1>2. Cardinality(1 .. n) = IF 1 > n THEN 0 ELSE n - 1 + 1
  BY FS_Interval
<1>3. Cardinality(1 .. n) = n
  BY <1>2
<1> QED
  BY <1>1, <1>3

LEMMA RepeatsInHeader ==
  ASSUME NEW entries \in Headers
  PROVE  LET repeats == Len(entries) - Cardinality(NamesOf(entries)) IN
         /\ repeats \in Nat
         /\ repeats = 0 <=> \A i, j \in 1 .. Len(entries) : entries[i].name = entries[j].name => i = j
<1> DEFINE m == Len(entries)
           names == NamesOf(entries)
           f == [i \in 1 .. m |-> entries[i].name]
<1>1. m \in Nat /\ names = {f[i] : i \in 1 .. m}
  BY EntriesAre
<1>2. f \in Surjection(1 .. m, names)
  BY <1>1 DEF Surjection
<1>3. IsFiniteSet(1 .. m) /\ Cardinality(1 .. m) = m
  BY <1>1, CountTo
<1> HIDE DEF m, names
<1>4. IsFiniteSet(names) /\ Cardinality(names) <= m
      /\ (Cardinality(names) = m <=> f \in Injection(1 .. m, names))
  BY <1>2, <1>3, FS_Surjection
<1>5. Cardinality(names) \in Nat
  BY <1>4, FS_CardinalityType
<1>6. f \in Injection(1 .. m, names) <=> \A i, j \in 1 .. m : entries[i].name = entries[j].name => i = j
  BY <1>2 DEF Injection, Surjection, IsInjective
<1>7. m - Cardinality(names) \in Nat /\ (m - Cardinality(names) = 0 <=> Cardinality(names) = m)
  BY <1>1, <1>4, <1>5
<1> QED
  BY <1>4, <1>6, <1>7 DEF m, names

LEMMA DuplicatesCount ==
  ASSUME NEW entries \in Headers, NEW s
  PROVE  /\ Duplicates(s, entries) \in Nat
         /\ Duplicates(s, entries) = 0 <=>
              /\ \A i, j \in 1 .. Len(entries) : entries[i].name = entries[j].name => i = j
              /\ NamesOf(entries) \cap DOMAIN catalog = {}
<1> DEFINE repeats == Len(entries) - Cardinality(NamesOf(entries))
           known == NamesOf(entries) \cap DOMAIN catalog
<1>1. /\ repeats \in Nat
      /\ repeats = 0 <=> \A i, j \in 1 .. Len(entries) : entries[i].name = entries[j].name => i = j
  BY RepeatsInHeader
<1>2. IsFiniteSet(known)
  <2>1. known \in SUBSET Name
    BY EntriesAre
  <2> QED
    BY <2>1, NamesAreFinite
<1> HIDE DEF repeats, known
<1>3. Cardinality(known) \in Nat /\ (Cardinality(known) = 0 <=> known = {})
  BY <1>2, NoneCounted
<1>4. Duplicates(s, entries) = repeats + Cardinality(known)
  BY DEF Duplicates, repeats, known
<1>5. /\ repeats + Cardinality(known) \in Nat
      /\ repeats + Cardinality(known) = 0 <=> repeats = 0 /\ Cardinality(known) = 0
  BY <1>1, <1>3
<1> QED
  BY <1>1, <1>3, <1>4, <1>5 DEF known

-----------------------------------------------------------------------------
(* Where entries are. *)
LEMMA PlacesAre ==
  ASSUME BindingTypes, NEW p \in Places
  PROVE  /\ p[1] \in Shard /\ p[2] \in 1 .. Len(header[p[1]]) /\ p = <<p[1], p[2]>>
         /\ At(p) \in [name : Name, layout : Layout]
<1>1. p[1] \in Shard /\ p[2] \in 1 .. Len(header[p[1]]) /\ p = <<p[1], p[2]>>
  BY DEF Places
<1>2. header[p[1]] \in Headers \cup {<< >>}
  BY <1>1 DEF BindingTypes
<1> QED
  BY <1>1, <1>2, EntriesAre DEF At

LEMMA PlaceOf ==
  ASSUME NEW s \in Shard, NEW i \in 1 .. Len(header[s])
  PROVE  <<s, i>> \in Places /\ At(<<s, i>>) = header[s][i]
  BY DEF Places, At

(* Without shards read there are no places. *)
LEMMA NoPlaces ==
  ASSUME \A s \in Shard : header[s] = << >>
  PROVE  Places = {}
<1>1. 1 .. Len(<< >>) = {}
  BY EmptySeq
<1> QED
  BY <1>1 DEF Places

LEMMA CatalogNames ==
  ASSUME BindingTypes, CatalogInvariant
  PROVE  DOMAIN catalog \in SUBSET Name /\ IsFiniteSet(DOMAIN catalog)
<1>1. DOMAIN catalog \in SUBSET Name
  BY PlacesAre DEF CatalogInvariant
<1> QED
  BY <1>1, NamesAreFinite

(* A function without arguments is the empty sequence. *)
LEMMA EmptyMap ==
  ASSUME NEW map \in WeightMaps
  PROVE  /\ map = << >> <=> DOMAIN map = {}
         /\ DOMAIN map \in SUBSET Name
         /\ \A name \in DOMAIN map : map[name] \in Shard
<1>1. PICK names \in SUBSET Name : map \in [names -> Shard]
  BY DEF WeightMaps
<1>2. << >> = [i \in {} |-> 0]
  OBVIOUS
<1>3. DOMAIN map = {} => map = << >>
  BY <1>1, <1>2
<1>4. map = << >> => DOMAIN map = {}
  BY <1>2
<1> QED
  BY <1>1, <1>3, <1>4

-----------------------------------------------------------------------------
LEMMA BindingBegins == Init => BindingInvariant
<1> SUFFICES ASSUME Init PROVE BindingInvariant
  OBVIOUS
<1>1. /\ pc = "config" /\ config = "unread" /\ index = "unread" /\ weightMap = << >>
      /\ todo = {} /\ late = {} /\ ioErrors = 0 /\ catalog = << >>
      /\ \A s \in Shard : found[s] = "unread" /\ header[s] = << >>
      /\ found \in [Shard -> {"unread"}] /\ header \in [Shard -> {<< >>}]
  BY DEF Init
<1>2. Places = {}
  BY <1>1, NoPlaces
<1>3. << >> \in WeightMaps
  <2>1. << >> = [i \in {} |-> 0] 
    OBVIOUS
  <2>2. << >> \in [{} -> Shard] /\ {} \in SUBSET Name
    BY <2>1
  <2> QED
    BY <2>2 DEF WeightMaps
<1>4. BindingTypes
  BY <1>1, <1>3 DEF BindingTypes
<1>5. ShardsInvariant
  BY <1>1 DEF ShardsInvariant
<1>6. DOMAIN << >> = {}
  OBVIOUS
<1>7. CatalogInvariant
  BY <1>1, <1>2, <1>6 DEF CatalogInvariant
<1>8. CountsInvariant
  BY <1>1 DEF CountsInvariant
<1>9. NoRepeats
  BY <1>2 DEF NoRepeats
<1>10. Clean
  BY <1>1, <1>9 DEF Clean
<1> QED
  BY <1>1, <1>4, <1>5, <1>7, <1>8, <1>10 DEF BindingInvariant

(* The steps that open no shard leave the places, and what they say, alone. *)
LEMMA NothingRead ==
  ASSUME BindingInvariant, UNCHANGED <<header, catalog>>
  PROVE  /\ Places' = Places /\ NoRepeats' = NoRepeats
         /\ CatalogInvariant'
<1>1. Places' = Places
  BY DEF Places
<1>2. \A p : At(p)' = At(p)
  BY DEF At
<1>3. NoRepeats' = NoRepeats
  BY <1>1, <1>2 DEF NoRepeats
<1> QED
  BY <1>1, <1>2, <1>3 DEF BindingInvariant, CatalogInvariant

LEMMA ReadConfigKeeps ==
  ASSUME BindingInvariant, ReadConfig
  PROVE  BindingInvariant'
<1>1. /\ pc = "config" /\ config' \in {"missing", "wrong", "right"}
      /\ pc' = IF config' = "missing" THEN "done" ELSE "receipt"
      /\ ioErrors' = IF config' = "right" THEN 0 ELSE 1
      /\ UNCHANGED <<receipt, index, weightMap, todo, late, found, header, catalog, counts>>
  BY DEF ReadConfig
<1>2. BindingTypes' /\ ShardsInvariant'
  BY <1>1 DEF BindingInvariant, BindingTypes, ShardsInvariant, Listed, Safe
<1>3. CatalogInvariant' /\ NoRepeats' = NoRepeats
  BY <1>1, NothingRead
<1>4. CountsInvariant'
  BY <1>1 DEF CountsInvariant
<1>5. NoRepeats
  <2>1. \A s \in Shard : header[s] = << >>
    BY <1>1 DEF BindingInvariant, ShardsInvariant
  <2> QED
    BY <2>1, NoPlaces DEF NoRepeats
<1>6. \A s \in Shard : found'[s] # "unreadable"
  BY <1>1 DEF BindingInvariant, ShardsInvariant
<1>7. ioErrors' = 0 <=> Clean'
  BY <1>1, <1>3, <1>5, <1>6 DEF Clean
<1> QED
  BY <1>2, <1>3, <1>4, <1>7 DEF BindingInvariant

LEMMA ReadReceiptKeeps ==
  ASSUME BindingInvariant, ReadReceipt
  PROVE  BindingInvariant'
<1>1. /\ pc = "receipt" /\ pc' = "index" /\ ioErrors \in Nat
      /\ ioErrors' = ioErrors + IF receipt'.config = "other" THEN 1 ELSE 0
      /\ UNCHANGED <<config, index, weightMap, todo, late, found, header, catalog, counts>>
  BY DEF ReadReceipt, BindingInvariant, BindingTypes
<1>2. BindingTypes' /\ ShardsInvariant'
  BY <1>1 DEF BindingInvariant, BindingTypes, ShardsInvariant, Listed, Safe
<1>3. CatalogInvariant' /\ NoRepeats' = NoRepeats
  BY <1>1, NothingRead
<1>4. CountsInvariant'
  BY <1>1 DEF CountsInvariant
<1>5. ioErrors = 0 <=> Clean
  BY <1>1 DEF BindingInvariant
<1>6. Clean' <=> Clean /\ receipt'.config # "other"
  BY <1>1, <1>3 DEF Clean
<1>7. ioErrors' = 0 <=> ioErrors = 0 /\ receipt'.config # "other"
  BY <1>1
<1> QED
  BY <1>2, <1>3, <1>4, <1>5, <1>6, <1>7 DEF BindingInvariant

LEMMA ReadIndexKeeps ==
  ASSUME BindingInvariant, ReadIndex
  PROVE  BindingInvariant'
<1>1. /\ pc = "index" /\ pc' = "stat" /\ ioErrors \in Nat
      /\ UNCHANGED <<config, receipt, late, found, header, catalog, counts>>
      /\ todo = {} /\ weightMap = << >> /\ \A s \in Shard : found[s] = "unread"
      /\ Unsafe \subseteq Shard
  BY BindingAssumption DEF ReadIndex, BindingInvariant, BindingTypes, ShardsInvariant
<1>2. CatalogInvariant' /\ NoRepeats' = NoRepeats
  BY <1>1, NothingRead
<1>3. CountsInvariant'
  BY <1>1 DEF CountsInvariant
<1>4. ioErrors = 0 <=> Clean
  BY <1>1 DEF BindingInvariant
<1>5. Clean' <=> Clean /\ SomethingNamed'
  BY <1>1, <1>2 DEF Clean
<1>6. Listed' = todo'
  BY <1>1 DEF Listed
<1>7. << >> \in WeightMaps
  BY <1>1 DEF BindingInvariant, BindingTypes
<1>8. CASE /\ index' = "map" /\ weightMap' \in WeightMaps
           /\ ioErrors' = ioErrors + (IF weightMap' = << >> THEN 1 ELSE 0)
                                   + (IF receipt.index = "other" THEN 1 ELSE 0)
           /\ todo' = {weightMap'[name] : name \in DOMAIN weightMap'}
  <2>1. todo' \in SUBSET Shard
    BY <1>8, EmptyMap
  <2>2. ioErrors' \in Nat /\ (ioErrors' = 0 <=> ioErrors = 0 /\ SomethingNamed')
    BY <1>1, <1>8 DEF SomethingNamed
  <2>3. BindingTypes' /\ ShardsInvariant'
    BY <1>1, <1>6, <1>8, <2>1, <2>2 DEF BindingInvariant, BindingTypes, ShardsInvariant, Safe
  <2> QED
    BY <1>1, <1>2, <1>3, <1>4, <1>5, <2>2, <2>3 DEF BindingInvariant
<1>9. CASE /\ index' = "broken" /\ weightMap' = << >> /\ todo' = {}
           /\ ioErrors' = ioErrors + 2 + (IF receipt.index = "other" THEN 1 ELSE 0)
  <2>1. ioErrors' \in Nat /\ ioErrors' # 0 /\ ~SomethingNamed'
    BY <1>1, <1>9 DEF SomethingNamed
  <2>2. BindingTypes' /\ ShardsInvariant'
    BY <1>1, <1>6, <1>7, <1>9, <2>1 DEF BindingInvariant, BindingTypes, ShardsInvariant, Safe
  <2> QED
    BY <1>1, <1>2, <1>3, <1>5, <2>1, <2>2 DEF BindingInvariant
<1>10. CASE /\ index' = "absent" /\ weightMap' = << >>
            /\ \E listing \in SUBSET (Shard \ Unsafe) :
                 /\ todo' = listing
                 /\ ioErrors' = ioErrors + IF listing = {} THEN 1 ELSE 0
  <2>1. todo' \in SUBSET Shard /\ todo' \cap Unsafe = {}
        /\ ioErrors' = ioErrors + IF todo' = {} THEN 1 ELSE 0
    BY <1>10
  <2>2. ioErrors' \in Nat /\ (ioErrors' = 0 <=> ioErrors = 0 /\ SomethingNamed')
    BY <1>1, <1>6, <1>10, <2>1 DEF SomethingNamed
  <2>3. BindingTypes' /\ ShardsInvariant'
    BY <1>1, <1>6, <1>7, <1>10, <2>1, <2>2 DEF BindingInvariant, BindingTypes, ShardsInvariant, Safe
  <2> QED
    BY <1>1, <1>2, <1>3, <1>4, <1>5, <2>2, <2>3 DEF BindingInvariant
<1> QED
  BY <1>8, <1>9, <1>10 DEF ReadIndex

LEMMA StatShardsKeeps ==
  ASSUME BindingInvariant, ~NamesOnly, StatShards
  PROVE  BindingInvariant'
<1>1. /\ pc = "stat" /\ pc' = "read" /\ ioErrors \in Nat
      /\ late' \in SUBSET {s \in todo : Safe(s)}
      /\ ioErrors' = ioErrors + Cardinality(todo \cap Unsafe) + Cardinality(late')
      /\ UNCHANGED <<config, receipt, index, weightMap, todo, found, header, catalog, counts>>
      /\ todo \in SUBSET Shard /\ \A s \in Shard : found[s] = "unread"
  BY DEF StatShards, BindingInvariant, BindingTypes, ShardsInvariant
<1>2. CatalogInvariant' /\ NoRepeats' = NoRepeats
  BY <1>1, NothingRead
<1>3. CountsInvariant'
  BY <1>1 DEF CountsInvariant
<1>4. ioErrors = 0 <=> Clean
  BY <1>1 DEF BindingInvariant
<1>5. Listed = todo /\ Listed' = todo
  BY <1>1 DEF Listed
<1>6. Clean' <=> Clean /\ todo \cap Unsafe = {} /\ late' = {}
  BY <1>1, <1>2, <1>5 DEF Clean, SomethingNamed
<1>7. /\ Cardinality(todo \cap Unsafe) \in Nat
      /\ Cardinality(todo \cap Unsafe) = 0 <=> todo \cap Unsafe = {}
  <2>1. IsFiniteSet(todo \cap Unsafe)
    BY <1>1, ShardsAreFinite
  <2> QED
    BY <2>1, NoneCounted
<1>8. Cardinality(late') \in Nat /\ (Cardinality(late') = 0 <=> late' = {})
  <2>1. IsFiniteSet(late')
    BY <1>1, ShardsAreFinite
  <2> QED
    BY <2>1, NoneCounted
<1>9. /\ ioErrors' \in Nat
      /\ ioErrors' = 0 <=> ioErrors = 0 /\ Cardinality(todo \cap Unsafe) = 0 /\ Cardinality(late') = 0
  BY <1>1, <1>7, <1>8
<1>10. BindingTypes' /\ ShardsInvariant'
  BY <1>1, <1>5, <1>9 DEF BindingInvariant, BindingTypes, ShardsInvariant, Safe
<1> QED
  BY <1>1, <1>2, <1>3, <1>4, <1>6, <1>7, <1>8, <1>9, <1>10 DEF BindingInvariant

(* A header that is read adds its entries' places. *)
LEMMA PlacesGrow ==
  ASSUME BindingInvariant, NEW s \in Shard, found[s] = "unread", NEW entries \in Headers,
         header' = [header EXCEPT ![s] = entries]
  PROVE  /\ Places' = Places \cup {<<s, i>> : i \in 1 .. Len(entries)}
         /\ \A p \in Places : p[1] # s /\ At(p)' = At(p)
         /\ \A i \in 1 .. Len(entries) : At(<<s, i>>)' = entries[i]
<1>1. header \in [Shard -> Headers \cup {<< >>}] /\ header[s] = << >> /\ 1 .. Len(<< >>) = {}
  BY EmptySeq DEF BindingInvariant, BindingTypes, ShardsInvariant
<1>2. header'[s] = entries /\ \A t \in Shard : t # s => header'[t] = header[t]
  BY <1>1
<1>3. \A p \in Places : p[1] \in Shard /\ p[1] # s /\ At(p)' = At(p)
  <2>1. \A p \in Places : p[1] \in Shard /\ p[2] \in 1 .. Len(header[p[1]])
    BY DEF Places
  <2> QED
    BY <1>1, <1>2, <2>1 DEF At
<1>4. ASSUME NEW p \in Places
      PROVE  p \in Places'
  <2>1. PICK t \in Shard : p \in {t} \X (1 .. Len(header[t]))
    BY DEF Places
  <2>2. t # s
    BY <1>1, <2>1
  <2> QED
    BY <1>2, <2>1, <2>2 DEF Places
<1>5. ASSUME NEW i \in 1 .. Len(entries)
      PROVE  <<s, i>> \in Places'
  BY <1>2 DEF Places
<1>6. ASSUME NEW p \in Places'
      PROVE  p \in Places \cup {<<s, i>> : i \in 1 .. Len(entries)}
  <2>1. PICK t \in Shard : p \in {t} \X (1 .. Len(header'[t]))
    BY DEF Places
  <2>2. CASE t = s
    BY <1>2, <2>1, <2>2
  <2>3. CASE t # s
    BY <1>2, <2>1, <2>3 DEF Places
  <2> QED
    BY <2>2, <2>3
<1>7. \A i \in 1 .. Len(entries) : At(<<s, i>>)' = entries[i]
  BY <1>2 DEF At
<1> QED
  BY <1>3, <1>4, <1>5, <1>6, <1>7

(* The first entry of a name that is there. *)
LEMMA FirstOfName ==
  ASSUME NEW entries \in Headers, NEW name \in NamesOf(entries)
  PROVE  \E i \in 1 .. Len(entries) : FirstOf(entries, name) = entries[i] /\ entries[i].name = name
<1> DEFINE T == {i \in 1 .. Len(entries) : entries[i].name = name}
<1>1. T \in SUBSET Nat /\ T # {}
  BY EntriesAre
<1>2. PICK i \in T : \A k \in T : i <= k
  BY <1>1, LeastNat
<1>3. \A j \in 1 .. (i - 1) : entries[j].name # name
  BY <1>2, EntriesAre
<1>4. \E k \in 1 .. Len(entries) :
        entries[k].name = name /\ \A j \in 1 .. (k - 1) : entries[j].name # name
  BY <1>2, <1>3
<1> QED
  BY <1>4 DEF FirstOf

(* The catalogue takes a header's names, and nothing repeats afterwards    *)
(* exactly when nothing did and none of them was counted as a duplicate.   *)
LEMMA MergeKeeps ==
  ASSUME BindingInvariant, NEW s \in Shard, found[s] = "unread", NEW entries \in Headers,
         header' = [header EXCEPT ![s] = entries], catalog' = Merge(s, entries)
  PROVE  /\ CatalogInvariant'
         /\ NoRepeats' <=> NoRepeats /\ Duplicates(s, entries) = 0
<1>1. /\ Places' = Places \cup {<<s, i>> : i \in 1 .. Len(entries)}
      /\ \A p \in Places : p[1] # s /\ At(p)' = At(p)
      /\ \A i \in 1 .. Len(entries) : At(<<s, i>>)' = entries[i]
  BY PlacesGrow
<1>2. /\ DOMAIN catalog = {At(p).name : p \in Places}
      /\ \A name \in DOMAIN catalog :
           \E p \in Places : /\ At(p).name = name
                             /\ catalog[name] = [layout |-> At(p).layout, shard |-> p[1]]
  BY DEF BindingInvariant, CatalogInvariant
<1>3. /\ DOMAIN catalog' = DOMAIN catalog \cup NamesOf(entries)
      /\ \A name \in DOMAIN catalog : catalog'[name] = catalog[name]
      /\ \A name \in NamesOf(entries) \ DOMAIN catalog :
           catalog'[name] = [layout |-> FirstOf(entries, name).layout, shard |-> s]
  BY DEF Merge
<1>4. NamesOf(entries) = {entries[i].name : i \in 1 .. Len(entries)}
  BY EntriesAre
<1>5. DOMAIN catalog' = {At(p)'.name : p \in Places'}
  <2>1. ASSUME NEW name \in DOMAIN catalog
        PROVE  \E p \in Places' : At(p)'.name = name
    <3>1. PICK p \in Places : At(p).name = name
      BY <1>2
    <3> QED
      BY <1>1, <3>1
  <2>2. ASSUME NEW name \in NamesOf(entries)
        PROVE  \E p \in Places' : At(p)'.name = name
    <3>1. PICK i \in 1 .. Len(entries) : entries[i].name = name
      BY <1>4
    <3>2. <<s, i>> \in Places' /\ At(<<s, i>>)'.name = name
      BY <1>1, <3>1
    <3> QED
      BY <3>2
  <2>3. ASSUME NEW p \in Places'
        PROVE  At(p)'.name \in DOMAIN catalog \cup NamesOf(entries)
    <3>1. CASE p \in Places
      BY <1>1, <1>2, <3>1
    <3>2. CASE p \notin Places
      <4>1. PICK i \in 1 .. Len(entries) : p = <<s, i>>
        BY <1>1, <3>2
      <4>2. At(p)'.name = entries[i].name
        BY <1>1, <4>1
      <4> QED
        BY <1>4, <4>2
    <3> QED
      BY <3>1, <3>2
  <2> QED
    BY <1>3, <2>1, <2>2, <2>3
<1>6. ASSUME NEW name \in DOMAIN catalog'
      PROVE  \E p \in Places' : /\ At(p)'.name = name
                                /\ catalog'[name] = [layout |-> At(p)'.layout, shard |-> p[1]]
  <2>1. CASE name \in DOMAIN catalog
    <3>1. PICK p \in Places : /\ At(p).name = name
                              /\ catalog[name] = [layout |-> At(p).layout, shard |-> p[1]]
      BY <1>2, <2>1
    <3>2. p \in Places' /\ At(p)' = At(p) /\ catalog'[name] = catalog[name]
      BY <1>1, <1>3, <2>1, <3>1
    <3> QED
      BY <3>1, <3>2
  <2>2. CASE name \notin DOMAIN catalog
    <3>1. name \in NamesOf(entries)
      BY <1>3, <2>2
    <3>2. PICK i \in 1 .. Len(entries) : FirstOf(entries, name) = entries[i] /\ entries[i].name = name
      BY <3>1, FirstOfName
    <3>3. <<s, i>> \in Places' /\ At(<<s, i>>)' = entries[i] /\ <<s, i>>[1] = s
      BY <1>1
    <3>4. catalog'[name] = [layout |-> entries[i].layout, shard |-> s]
      BY <1>3, <2>2, <3>1, <3>2
    <3> QED
      BY <3>2, <3>3, <3>4
  <2> QED
    BY <2>1, <2>2
<1>7. CatalogInvariant'
  BY <1>5, <1>6 DEF CatalogInvariant
<1>8. Duplicates(s, entries) = 0 <=>
        /\ \A i, j \in 1 .. Len(entries) : entries[i].name = entries[j].name => i = j
        /\ NamesOf(entries) \cap DOMAIN catalog = {}
  BY DuplicatesCount
<1>9. ASSUME NoRepeats'
      PROVE  NoRepeats /\ Duplicates(s, entries) = 0
  <2>1. NoRepeats
    BY <1>1, <1>9 DEF NoRepeats
  <2>2. ASSUME NEW i \in 1 .. Len(entries), NEW j \in 1 .. Len(entries), entries[i].name = entries[j].name
        PROVE  i = j
    <3>1. <<s, i>> \in Places' /\ <<s, j>> \in Places' /\ At(<<s, i>>)'.name = At(<<s, j>>)'.name
      BY <1>1, <2>2
    <3>2. <<s, i>> = <<s, j>>
      BY <1>9, <3>1 DEF NoRepeats
    <3> QED
      BY <3>2
  <2>3. NamesOf(entries) \cap DOMAIN catalog = {}
    <3> SUFFICES ASSUME NEW i \in 1 .. Len(entries), NEW p \in Places, At(p).name = entries[i].name
                 PROVE  FALSE
      BY <1>2, <1>4
    <3>1. /\ <<s, i>> \in Places' /\ p \in Places' /\ p[1] # s
          /\ At(<<s, i>>)'.name = At(p)'.name
      BY <1>1
    <3>2. <<s, i>> = p
      BY <1>9, <3>1 DEF NoRepeats
    <3> QED
      BY <3>1, <3>2
  <2> QED
    BY <1>8, <2>1, <2>2, <2>3
<1>10. ASSUME NoRepeats, Duplicates(s, entries) = 0
       PROVE  NoRepeats'
  <2> SUFFICES ASSUME NEW p \in Places', NEW q \in Places', At(p)'.name = At(q)'.name
               PROVE  p = q
    BY DEF NoRepeats
  <2>1. \A i \in 1 .. Len(entries) : entries[i].name \notin DOMAIN catalog
    BY <1>4, <1>8, <1>10
  <2>2. CASE p \in Places /\ q \in Places
    BY <1>1, <1>10, <2>2 DEF NoRepeats
  <2>3. CASE p \in Places /\ q \notin Places
    <3>1. PICK i \in 1 .. Len(entries) : q = <<s, i>>
      BY <1>1, <2>3
    <3>2. At(p).name \in DOMAIN catalog /\ At(p).name = entries[i].name
      BY <1>1, <1>2, <2>3, <3>1
    <3> QED
      BY <2>1, <3>2
  <2>4. CASE p \notin Places /\ q \in Places
    <3>1. PICK i \in 1 .. Len(entries) : p = <<s, i>>
      BY <1>1, <2>4
    <3>2. At(q).name \in DOMAIN catalog /\ At(q).name = entries[i].name
      BY <1>1, <1>2, <2>4, <3>1
    <3> QED
      BY <2>1, <3>2
  <2>5. CASE p \notin Places /\ q \notin Places
    <3>1. PICK i \in 1 .. Len(entries) : p = <<s, i>>
      BY <1>1, <2>5
    <3>2. PICK j \in 1 .. Len(entries) : q = <<s, j>>
      BY <1>1, <2>5
    <3>3. entries[i].name = entries[j].name
      BY <1>1, <3>1, <3>2
    <3> QED
      BY <1>8, <1>10, <3>1, <3>2, <3>3
  <2> QED
    BY <2>2, <2>3, <2>4, <2>5
<1> QED
  BY <1>7, <1>9, <1>10

LEMMA ReadShardKeeps ==
  ASSUME BindingInvariant, ~NamesOnly, ReadShard
  PROVE  BindingInvariant'
<1> DEFINE s == First(todo)
<1>1. /\ pc = "read" /\ pc' = "read" /\ ioErrors \in Nat
      /\ todo \in SUBSET Shard /\ todo # {} /\ todo' = todo \ {s}
      /\ UNCHANGED <<config, receipt, index, weightMap, late, counts>>
      /\ found \in [Shard -> {"unread", "absent", "unreadable", "read"}]
      /\ header \in [Shard -> Headers \cup {<< >>}]
  BY DEF ReadShard, BindingInvariant, BindingTypes
<1>2. s \in todo /\ s \in Shard
  BY <1>1, FirstIsLeft
<1>3. found[s] = "unread" /\ header[s] = << >>
  BY <1>2 DEF BindingInvariant, ShardsInvariant
<1>4. \/ /\ found' = [found EXCEPT ![s] = "absent"]
         /\ UNCHANGED <<ioErrors, header, catalog>>
      \/ /\ Safe(s)
         /\ found' = [found EXCEPT ![s] = "unreadable"]
         /\ ioErrors' = ioErrors + 1
         /\ UNCHANGED <<header, catalog>>
      \/ /\ Safe(s)
         /\ \E entries \in Headers :
              /\ header' = [header EXCEPT ![s] = entries]
              /\ catalog' = Merge(s, entries)
              /\ ioErrors' = ioErrors + Duplicates(s, entries)
         /\ found' = [found EXCEPT ![s] = "read"]
  BY DEF ReadShard
<1> HIDE DEF s
<1>5. /\ found' \in [Shard -> {"unread", "absent", "unreadable", "read"}]
      /\ found'[s] # "unread" /\ \A t \in Shard : t # s => found'[t] = found[t]
  BY <1>1, <1>2, <1>4
<1>6. Listed' = Listed
  BY <1>1, <1>2, <1>3, <1>5 DEF Listed
<1>7. header' \in [Shard -> Headers \cup {<< >>}]
      /\ (\A t \in Shard : t # s => header'[t] = header[t])
      /\ (found'[s] # "read" => header'[s] = << >>)
      /\ (found'[s] = "read" => Safe(s))
  BY <1>1, <1>2, <1>3, <1>4
<1>8. CountsInvariant'
  BY <1>1 DEF CountsInvariant
<1>9. /\ CatalogInvariant' /\ ioErrors' \in Nat
      /\ ioErrors' = 0 /\ NoRepeats' /\ found'[s] # "unreadable" <=>
         ioErrors = 0 /\ NoRepeats' /\ found'[s] # "unreadable"
      /\ ioErrors' = 0 => ioErrors = 0 /\ found'[s] # "unreadable" /\ (NoRepeats => NoRepeats')
      /\ NoRepeats' => NoRepeats
  <2>1. CASE /\ found' = [found EXCEPT ![s] = "absent"]
             /\ UNCHANGED <<ioErrors, header, catalog>>
    <3>1. CatalogInvariant' /\ NoRepeats' = NoRepeats
      BY <2>1, NothingRead
    <3>2. found'[s] = "absent"
      BY <1>1, <1>2, <2>1
    <3> QED
      BY <1>1, <2>1, <3>1, <3>2
  <2>2. CASE /\ found' = [found EXCEPT ![s] = "unreadable"]
             /\ ioErrors' = ioErrors + 1
             /\ UNCHANGED <<header, catalog>>
    <3>1. CatalogInvariant' /\ NoRepeats' = NoRepeats
      BY <2>2, NothingRead
    <3>2. found'[s] = "unreadable" /\ ioErrors' \in Nat /\ ioErrors' # 0
      BY <1>1, <1>2, <2>2
    <3> QED
      BY <3>1, <3>2
  <2>3. CASE \E entries \in Headers :
               /\ header' = [header EXCEPT ![s] = entries]
               /\ catalog' = Merge(s, entries)
               /\ ioErrors' = ioErrors + Duplicates(s, entries)
               /\ found' = [found EXCEPT ![s] = "read"]
    <3>1. PICK entries \in Headers :
            /\ header' = [header EXCEPT ![s] = entries]
            /\ catalog' = Merge(s, entries)
            /\ ioErrors' = ioErrors + Duplicates(s, entries)
            /\ found' = [found EXCEPT ![s] = "read"]
      BY <2>3
    <3>2. CatalogInvariant' /\ (NoRepeats' <=> NoRepeats /\ Duplicates(s, entries) = 0)
      BY <1>2, <1>3, <3>1, MergeKeeps
    <3>3. Duplicates(s, entries) \in Nat
      BY DuplicatesCount
    <3>4. found'[s] = "read"
      BY <1>1, <1>2, <3>1
    <3>5. ioErrors' \in Nat /\ (ioErrors' = 0 <=> ioErrors = 0 /\ Duplicates(s, entries) = 0)
      BY <1>1, <3>1, <3>3
    <3> QED
      BY <3>2, <3>4, <3>5
  <2> QED
    BY <1>4, <2>1, <2>2, <2>3
<1>10. BindingTypes'
  BY <1>1, <1>5, <1>7, <1>9 DEF BindingInvariant, BindingTypes
<1>11. ShardsInvariant'
  BY <1>1, <1>2, <1>5, <1>6, <1>7 DEF BindingInvariant, ShardsInvariant, Safe
<1>12. ioErrors = 0 <=> Clean
  BY <1>1 DEF BindingInvariant
<1>13. \A t \in Shard : t # s => (found'[t] # "unreadable" <=> found[t] # "unreadable")
  BY <1>5
<1>14. Clean' <=> Clean /\ found'[s] # "unreadable" /\ NoRepeats'
  <2>1. SomethingNamed' <=> SomethingNamed
    BY <1>1, <1>6 DEF SomethingNamed
  <2> QED
    BY <1>1, <1>2, <1>3, <1>6, <1>9, <1>13, <2>1 DEF Clean
<1>15. ioErrors' = 0 <=> Clean'
  <2>1. Clean => NoRepeats
    BY DEF Clean
  <2> QED
    BY <1>9, <1>12, <1>14, <2>1
<1> QED
  BY <1>8, <1>9, <1>10, <1>11, <1>15 DEF BindingInvariant

-----------------------------------------------------------------------------
(* The index errors vanish exactly when the shards hold what it says.      *)
LEMMA IndexErrorsCount ==
  ASSUME BindingInvariant, weightMap # << >>
  PROVE  /\ index = "map" /\ IndexErrors \in Nat
         /\ NoRepeats => (IndexErrors = 0 <=> AsIndexed)
<1> DEFINE names == DOMAIN weightMap
           lost == names \ DOMAIN catalog
           strayed == {name \in names \cap DOMAIN catalog : catalog[name].shard # weightMap[name]}
           extra == DOMAIN catalog \ names
<1>1. index = "map"
  BY DEF BindingInvariant, ShardsInvariant
<1>2. names \in SUBSET Name
  BY EmptyMap DEF BindingInvariant, BindingTypes
<1>3. DOMAIN catalog \in SUBSET Name
  BY CatalogNames DEF BindingInvariant
<1>4. Cardinality(lost) \in Nat /\ (Cardinality(lost) = 0 <=> lost = {})
  <2>1. IsFiniteSet(lost)
    BY <1>2, NamesAreFinite
  <2> QED
    BY <2>1, NoneCounted
<1>5. Cardinality(strayed) \in Nat /\ (Cardinality(strayed) = 0 <=> strayed = {})
  <2>1. IsFiniteSet(strayed)
    BY <1>2, NamesAreFinite
  <2> QED
    BY <2>1, NoneCounted
<1>6. Cardinality(extra) \in Nat /\ (Cardinality(extra) = 0 <=> extra = {})
  <2>1. IsFiniteSet(extra)
    BY <1>3, NamesAreFinite
  <2> QED
    BY <2>1, NoneCounted
<1>7. IndexErrors = Cardinality(lost) + Cardinality(strayed) + Cardinality(extra)
  BY DEF IndexErrors
<1> DEFINE a == Cardinality(lost)
           b == Cardinality(strayed)
           c == Cardinality(extra)
<1>8. /\ a + b + c \in Nat
      /\ a + b + c = 0 <=> a = 0 /\ b = 0 /\ c = 0
  <2>1. a \in Nat /\ b \in Nat /\ c \in Nat
    BY <1>4, <1>5, <1>6
  <2> HIDE DEF a, b, c
  <2> QED
    BY <2>1
<1>9. IndexErrors \in Nat /\ (IndexErrors = 0 <=> lost = {} /\ strayed = {} /\ extra = {})
  BY <1>4, <1>5, <1>6, <1>7, <1>8
<1>10. /\ DOMAIN catalog = {At(p).name : p \in Places}
       /\ \A name \in DOMAIN catalog :
            \E p \in Places : /\ At(p).name = name
                              /\ catalog[name] = [layout |-> At(p).layout, shard |-> p[1]]
  BY DEF BindingInvariant, CatalogInvariant
<1>11. ASSUME AsIndexed
       PROVE  lost = {} /\ strayed = {} /\ extra = {}
  <2>1. names = DOMAIN catalog /\ \A p \in Places : weightMap[At(p).name] = p[1]
    BY <1>1, <1>10, <1>11 DEF AsIndexed
  <2>2. ASSUME NEW name \in names
        PROVE  catalog[name].shard = weightMap[name]
    <3>1. PICK p \in Places : /\ At(p).name = name
                              /\ catalog[name] = [layout |-> At(p).layout, shard |-> p[1]]
      BY <1>10, <2>1
    <3> QED
      BY <2>1, <3>1
  <2> QED
    BY <2>1, <2>2
<1>12. ASSUME NoRepeats, lost = {}, strayed = {}, extra = {}
       PROVE  AsIndexed
  <2>1. names = DOMAIN catalog
    BY <1>12
  <2>2. \A name \in names : catalog[name].shard = weightMap[name]
    BY <1>12, <2>1
  <2>3. ASSUME NEW p \in Places
        PROVE  weightMap[At(p).name] = p[1]
    <3>1. At(p).name \in DOMAIN catalog
      BY <1>10
    <3>2. PICK q \in Places : /\ At(q).name = At(p).name
                              /\ catalog[At(p).name] = [layout |-> At(q).layout, shard |-> q[1]]
      BY <1>10, <3>1
    <3>3. q = p
      BY <1>12, <3>2 DEF NoRepeats
    <3> QED
      BY <2>1, <2>2, <3>1, <3>2, <3>3
  <2> QED
    BY <1>10, <2>1, <2>3 DEF AsIndexed
<1> QED
  BY <1>1, <1>9, <1>11, <1>12

LEMMA CrossCheckKeeps ==
  ASSUME BindingInvariant, CrossCheck
  PROVE  BindingInvariant'
<1>1. /\ pc = "read" /\ pc' = "bind" /\ todo = {} /\ ioErrors \in Nat
      /\ ioErrors' = ioErrors + IF weightMap = << >> THEN 0 ELSE IndexErrors
      /\ UNCHANGED <<config, receipt, index, weightMap, todo, late, found, header, catalog, counts>>
  BY DEF CrossCheck, BindingInvariant, BindingTypes
<1>2. CatalogInvariant' /\ NoRepeats' = NoRepeats
  BY <1>1, NothingRead
<1>3. CountsInvariant'
  BY <1>1 DEF CountsInvariant
<1>4. ioErrors = 0 <=> Clean
  BY <1>1 DEF BindingInvariant
<1>5. AsIndexed' <=> AsIndexed
  <2>1. Places' = Places /\ \A p : At(p)' = At(p)
    BY <1>1 DEF Places, At
  <2> QED
    BY <1>1, <2>1 DEF AsIndexed
<1>6. Clean' <=> Clean /\ AsIndexed
  <2>1. Listed' = Listed
    BY <1>1 DEF Listed
  <2>2. SomethingNamed' <=> SomethingNamed
    BY <1>1, <2>1 DEF SomethingNamed
  <2> QED
    BY <1>1, <1>2, <1>5, <2>1, <2>2 DEF Clean
<1>7. ioErrors' \in Nat /\ (ioErrors' = 0 <=> Clean /\ AsIndexed)
  <2>1. CASE weightMap = << >>
    <3>1. Clean => index = "absent"
      BY <1>1, <2>1 DEF Clean, SomethingNamed
    <3>2. Clean => AsIndexed
      BY <3>1 DEF AsIndexed
    <3> QED
      BY <1>1, <1>4, <2>1, <3>2
  <2>2. CASE weightMap # << >>
    <3>1. IndexErrors \in Nat /\ (NoRepeats => (IndexErrors = 0 <=> AsIndexed))
      BY <2>2, IndexErrorsCount
    <3>2. Clean => NoRepeats
      BY DEF Clean
    <3>3. ioErrors' \in Nat /\ (ioErrors' = 0 <=> ioErrors = 0 /\ IndexErrors = 0)
      BY <1>1, <2>2, <3>1
    <3> QED
      BY <1>4, <3>1, <3>2, <3>3
  <2> QED
    BY <2>1, <2>2
<1>8. BindingTypes' /\ ShardsInvariant'
  <2>1. Listed' = Listed
    BY <1>1 DEF Listed
  <2> QED
    BY <1>1, <1>7, <2>1 DEF BindingInvariant, BindingTypes, ShardsInvariant, Safe
<1> QED
  BY <1>2, <1>3, <1>6, <1>7, <1>8 DEF BindingInvariant

LEMMA BindCatalogKeeps ==
  ASSUME BindingInvariant, ~NamesOnly, BindCatalog
  PROVE  BindingInvariant'
<1>1. /\ pc = "bind" /\ pc' = "done" /\ ioErrors \in Nat
      /\ ioErrors' = ioErrors + IF receipt.count \in {-1, Cardinality(DOMAIN catalog)} THEN 0 ELSE 1
      /\ UNCHANGED <<config, receipt, index, weightMap, todo, late, found, header, catalog>>
  BY DEF BindCatalog, BindingInvariant, BindingTypes
<1>2. /\ counts'.missing = Cardinality(DOMAIN Expected \ DOMAIN catalog)
      /\ counts'.unexpected = Cardinality(DOMAIN catalog \ DOMAIN Expected)
      /\ counts'.mismatched =
           Cardinality({name \in DOMAIN catalog \cap DOMAIN Expected : Mismatched(name)})
  BY DEF BindCatalog
<1>3. \A name : Mismatched(name)' = Mismatched(name)
  BY <1>1 DEF Mismatched
<1>4. CountsInvariant'
  BY <1>1, <1>2, <1>3 DEF CountsInvariant
<1>5. CatalogInvariant' /\ NoRepeats' = NoRepeats
  BY <1>1, NothingRead
<1>6. ioErrors = 0 <=> Clean
  BY <1>1 DEF BindingInvariant
<1>7. Listed' = Listed
  BY <1>1 DEF Listed
<1>8. Clean' <=> Clean /\ receipt.count \in {-1, Cardinality(DOMAIN catalog)}
  <2>1. Places' = Places /\ \A p : At(p)' = At(p)
    BY <1>1 DEF Places, At
  <2>2. AsIndexed' <=> AsIndexed
    BY <1>1, <2>1 DEF AsIndexed
  <2>3. SomethingNamed' <=> SomethingNamed
    BY <1>1, <1>7 DEF SomethingNamed
  <2> QED
    BY <1>1, <1>5, <1>7, <2>2, <2>3 DEF Clean
<1>9. /\ ioErrors' \in Nat
      /\ ioErrors' = 0 <=> ioErrors = 0 /\ receipt.count \in {-1, Cardinality(DOMAIN catalog)}
  BY <1>1
<1>10. BindingTypes' /\ ShardsInvariant'
  BY <1>1, <1>7, <1>9 DEF BindingInvariant, BindingTypes, ShardsInvariant, Safe
<1> QED
  BY <1>4, <1>5, <1>6, <1>8, <1>9, <1>10 DEF BindingInvariant

LEMMA BindingStopsKeeps ==
  ASSUME BindingInvariant, Throw \/ UNCHANGED vars
  PROVE  BindingInvariant'
<1>1. /\ pc' = pc \/ pc' = "thrown"
      /\ UNCHANGED <<config, receipt, index, weightMap, todo, late, found, header, catalog,
                     ioErrors, counts>>
  BY DEF Throw, vars
<1>2. CatalogInvariant' /\ NoRepeats' = NoRepeats
  BY <1>1, NothingRead
<1>3. \A name : Mismatched(name)' = Mismatched(name)
  BY <1>1 DEF Mismatched
<1>4. CountsInvariant'
  BY <1>1, <1>3 DEF CountsInvariant, BindingInvariant
<1>5. Listed' = Listed
  BY <1>1 DEF Listed
<1>6. BindingTypes' /\ ShardsInvariant'
  BY <1>1, <1>5 DEF BindingInvariant, BindingTypes, ShardsInvariant, Safe
<1>7. pc' # "thrown" => (ioErrors' = 0 <=> Clean')
  <2> SUFFICES ASSUME pc' # "thrown" PROVE ioErrors' = 0 <=> Clean'
    OBVIOUS
  <2>1. pc' = pc
    BY <1>1
  <2>2. Places' = Places /\ \A p : At(p)' = At(p)
    BY <1>1 DEF Places, At
  <2>3. AsIndexed' <=> AsIndexed
    BY <1>1, <2>2 DEF AsIndexed
  <2>4. SomethingNamed' <=> SomethingNamed
    BY <1>1, <1>5 DEF SomethingNamed
  <2>5. Clean' <=> Clean
    BY <1>1, <1>2, <1>5, <2>1, <2>3, <2>4 DEF Clean
  <2> QED
    BY <1>1, <2>1, <2>5 DEF BindingInvariant
<1> QED
  BY <1>2, <1>4, <1>6, <1>7 DEF BindingInvariant

LEMMA BindingStep ==
  ASSUME BindingInvariant, ~NamesOnly, [Next]_vars
  PROVE  BindingInvariant'
BY ReadConfigKeeps, ReadReceiptKeeps, ReadIndexKeeps, StatShardsKeeps, ReadShardKeeps,
   CrossCheckKeeps, BindCatalogKeeps, BindingStopsKeeps DEF Next, Advance, Stopped

-----------------------------------------------------------------------------
(* When no name repeats, as many names are catalogued as entries were read. *)
LEMMA PlacesCount ==
  ASSUME BindingInvariant, NoRepeats
  PROVE  Cardinality(Places) = Cardinality(DOMAIN catalog)
<1> DEFINE names == DOMAIN catalog
           place == [name \in names |-> CHOOSE p \in Places : At(p).name = name]
<1>1. names = {At(p).name : p \in Places}
  BY DEF BindingInvariant, CatalogInvariant
<1>2. \A name \in names : place[name] \in Places /\ At(place[name]).name = name
  BY <1>1
<1>3. \A p \in Places : At(p).name \in names /\ place[At(p).name] = p
  <2> SUFFICES ASSUME NEW p \in Places
               PROVE  At(p).name \in names /\ place[At(p).name] = p
    OBVIOUS
  <2>1. At(p).name \in names
    BY <1>1
  <2>2. place[At(p).name] \in Places /\ At(place[At(p).name]).name = At(p).name
    BY <1>2, <2>1
  <2> HIDE DEF place
  <2> QED
    BY <2>1, <2>2 DEF NoRepeats
<1>4. place \in [names -> Places] /\ DOMAIN place = names
  BY <1>2
<1> HIDE DEF place
<1>5. place \in Surjection(names, Places)
  BY <1>3, <1>4 DEF Surjection
<1>6. \A x, y \in names : place[x] = place[y] => x = y
  BY <1>2
<1>7. place \in Injection(names, Places)
  BY <1>4, <1>6 DEF Injection, IsInjective
<1>8. IsFiniteSet(names)
  BY CatalogNames DEF BindingInvariant
<1> QED
  BY <1>5, <1>7, <1>8, FS_Surjection

(* An entry that was read lies in a safe shard, and that shard was listed. *)
LEMMA PlacesWereRead ==
  ASSUME BindingInvariant, NEW p \in Places
  PROVE  p[1] \in Listed /\ Safe(p[1])
<1>1. p[1] \in Shard /\ p[2] \in 1 .. Len(header[p[1]])
  BY PlacesAre DEF BindingInvariant
<1>2. 1 .. Len(<< >>) = {}
  BY EmptySeq
<1>3. header[p[1]] # << >>
  BY <1>1, <1>2
<1>4. found[p[1]] = "read"
  BY <1>1, <1>3 DEF BindingInvariant, ShardsInvariant
<1> QED
  BY <1>1, <1>4 DEF BindingInvariant, ShardsInvariant, Listed

(* What the layouts of the catalogue say when none is a mismatch. *)
LEMMA MatchedLayouts ==
  ASSUME BindingInvariant, ~NamesOnly, NEW name \in DOMAIN catalog, name \in DOMAIN Expected
  PROVE  ~Mismatched(name) <=> catalog[name].layout = Expected[name]
<1>1. PICK p \in Places : /\ At(p).name = name
                          /\ catalog[name] = [layout |-> At(p).layout, shard |-> p[1]]
  BY DEF BindingInvariant, CatalogInvariant
<1>2. At(p) \in [name : Name, layout : Layout]
  BY PlacesAre DEF BindingInvariant
<1>3. catalog[name].layout \in Layout
  BY <1>1, <1>2
<1>4. catalog[name].layout # NoLayout
  BY <1>3, BindingAssumption
<1> QED
  BY <1>4 DEF Mismatched

(* The three counters are nought exactly when the catalogue is as expected. *)
LEMMA CountersVanish ==
  ASSUME BindingInvariant, ~NamesOnly, pc = "done", config # "missing"
  PROVE  counts.missing = 0 /\ counts.unexpected = 0 /\ counts.mismatched = 0
         <=> /\ DOMAIN catalog = DOMAIN Expected
             /\ \A name \in DOMAIN Expected : catalog[name].layout = Expected[name]
<1> DEFINE missing == DOMAIN Expected \ DOMAIN catalog
           extra == DOMAIN catalog \ DOMAIN Expected
           wrong == {name \in DOMAIN catalog \cap DOMAIN Expected : Mismatched(name)}
<1>1. /\ counts.missing = Cardinality(missing)
      /\ counts.unexpected = Cardinality(extra)
      /\ counts.mismatched = Cardinality(wrong)
  BY DEF BindingInvariant, CountsInvariant
<1>2. IsFiniteSet(DOMAIN catalog)
  BY CatalogNames DEF BindingInvariant
<1>3. IsFiniteSet(DOMAIN Expected)
  BY NamesAreFinite, BindingAssumption
<1>4. IsFiniteSet(missing) /\ IsFiniteSet(extra) /\ IsFiniteSet(wrong)
  BY <1>2, <1>3, FS_Subset
<1> HIDE DEF missing, extra, wrong
<1>5. Cardinality(missing) = 0 <=> missing = {}
  BY <1>4, NoneCounted
<1>6. Cardinality(extra) = 0 <=> extra = {}
  BY <1>4, NoneCounted
<1>7. Cardinality(wrong) = 0 <=> wrong = {}
  BY <1>4, NoneCounted
<1>8. wrong = {} <=> \A name \in DOMAIN catalog \cap DOMAIN Expected : catalog[name].layout = Expected[name]
  BY MatchedLayouts DEF wrong
<1>9. missing = {} /\ extra = {} <=> DOMAIN catalog = DOMAIN Expected
  BY DEF missing, extra
<1>10. missing = {} /\ extra = {} /\ wrong = {}
         <=> /\ DOMAIN catalog = DOMAIN Expected
             /\ \A name \in DOMAIN Expected : catalog[name].layout = Expected[name]
  BY <1>8, <1>9
<1> QED
  BY <1>1, <1>5, <1>6, <1>7, <1>10

(* Reading every expected tensor once, and nothing else, is reading no     *)
(* name twice and filling the catalogue as expected.                       *)
LEMMA EachOnceIs ==
  ASSUME BindingInvariant
  PROVE  EachOnce <=>
           /\ NoRepeats
           /\ DOMAIN catalog = DOMAIN Expected
           /\ \A name \in DOMAIN Expected : catalog[name].layout = Expected[name]
<1>1. /\ DOMAIN catalog = {At(p).name : p \in Places}
      /\ \A name \in DOMAIN catalog :
           \E p \in Places : /\ At(p).name = name
                             /\ catalog[name] = [layout |-> At(p).layout, shard |-> p[1]]
  BY DEF BindingInvariant, CatalogInvariant
<1>2. \A p \in Places : At(p) \in [name : Name, layout : Layout]
  BY PlacesAre DEF BindingInvariant
<1>3. ASSUME EachOnce
      PROVE  /\ NoRepeats
             /\ DOMAIN catalog = DOMAIN Expected
             /\ \A name \in DOMAIN Expected : catalog[name].layout = Expected[name]
  <2>1. \A name \in DOMAIN Expected : \E place \in Places :
          /\ At(place) = [name |-> name, layout |-> Expected[name]]
          /\ \A other \in Places : At(other).name = name => other = place
    BY <1>3 DEF EachOnce
  <2>2. \A place \in Places : At(place).name \in DOMAIN Expected
    BY <1>3 DEF EachOnce
  <2>3. NoRepeats
    BY <2>1, <2>2 DEF NoRepeats
  <2>4. \A name \in DOMAIN Expected : \E place \in Places : At(place).name = name
    BY <2>1
  <2>5. DOMAIN catalog = DOMAIN Expected
    BY <1>1, <2>2, <2>4
  <2>6. ASSUME NEW name \in DOMAIN Expected
        PROVE  catalog[name].layout = Expected[name]
    <3>1. PICK place \in Places : /\ At(place) = [name |-> name, layout |-> Expected[name]]
                                  /\ \A other \in Places : At(other).name = name => other = place
      BY <2>1
    <3>2. PICK p \in Places : /\ At(p).name = name
                              /\ catalog[name] = [layout |-> At(p).layout, shard |-> p[1]]
      BY <1>1, <2>5
    <3>3. p = place
      BY <3>1, <3>2
    <3> QED
      BY <3>1, <3>2, <3>3
  <2> QED
    BY <2>3, <2>5, <2>6
<1>4. ASSUME NoRepeats, DOMAIN catalog = DOMAIN Expected,
             \A name \in DOMAIN Expected : catalog[name].layout = Expected[name]
      PROVE  EachOnce
  <2>1. ASSUME NEW name \in DOMAIN Expected
        PROVE  \E place \in Places :
                 /\ At(place) = [name |-> name, layout |-> Expected[name]]
                 /\ \A other \in Places : At(other).name = name => other = place
    <3>1. PICK p \in Places : /\ At(p).name = name
                              /\ catalog[name] = [layout |-> At(p).layout, shard |-> p[1]]
      BY <1>1, <1>4
    <3>2. At(p) = [name |-> name, layout |-> Expected[name]]
      <4>1. At(p).layout = Expected[name]
        BY <1>4, <3>1
      <4> QED
        BY <1>2, <3>1, <4>1
    <3>3. \A other \in Places : At(other).name = name => other = p
      BY <1>4, <3>1 DEF NoRepeats
    <3> QED
      BY <3>2, <3>3
  <2>2. \A place \in Places : At(place).name \in DOMAIN Expected
    BY <1>1, <1>4
  <2> QED
    BY <2>1, <2>2 DEF EachOnce
<1> QED
  BY <1>3, <1>4

LEMMA VerdictFollows ==
  ASSUME BindingInvariant, ~NamesOnly, pc = "done"
  PROVE  complete <=> Flawless /\ late = {}
<1>1. ioErrors = 0 <=> Clean
  BY DEF BindingInvariant
<1>2. CASE config = "missing"
  <2>1. ~Clean /\ ~Flawless
    BY <1>2 DEF Clean, Flawless, Attested
  <2> QED
    BY <1>1, <2>1 DEF complete, Finish
<1>3. CASE config # "missing"
  <2> DEFINE AsExpected ==
               /\ DOMAIN catalog = DOMAIN Expected
               /\ \A name \in DOMAIN Expected : catalog[name].layout = Expected[name]
  <2>1. complete <=> Clean /\ AsExpected
    <3>1. counts.missing = 0 /\ counts.unexpected = 0 /\ counts.mismatched = 0 <=> AsExpected
      BY <1>3, CountersVanish
    <3> HIDE DEF AsExpected
    <3> QED
      BY <1>1, <3>1 DEF complete, Finish
  <2>2. EachOnce <=> NoRepeats /\ AsExpected
    BY EachOnceIs
  <2> HIDE DEF AsExpected
  <2>3. index \in {"unread", "absent", "broken", "map"}
    BY DEF BindingInvariant, ShardsInvariant
  <2>4. ASSUME Clean, AsExpected
        PROVE  Flawless /\ late = {}
    <3>1. /\ config = "right" /\ receipt.config # "other" /\ SomethingNamed /\ late = {}
          /\ (\A s \in Shard : found[s] # "unreadable") /\ NoRepeats /\ AsIndexed
          /\ receipt.count \in {-1, Cardinality(DOMAIN catalog)}
      BY <2>4 DEF Clean
    <3>2. EachOnce
      BY <2>2, <2>4, <3>1
    <3>3. index \in {"absent", "map"} /\ (index # "absent" => receipt.index # "other")
      BY <3>1 DEF SomethingNamed
    <3>4. Cardinality(Places) = Cardinality(DOMAIN catalog)
      BY <3>1, PlacesCount
    <3> QED
      BY <3>1, <3>2, <3>3, <3>4 DEF Flawless, Attested
  <2>5. ASSUME Flawless, late = {}
        PROVE  Clean /\ AsExpected
    <3>1. /\ config = "right" /\ receipt.config # "other"
          /\ index # "absent" => receipt.index # "other"
          /\ EachOnce /\ AsIndexed /\ index \in {"absent", "map"}
          /\ \A s \in Shard : found[s] # "unreadable"
          /\ receipt.count \in {-1, Cardinality(Places)}
      BY <2>5 DEF Flawless, Attested
    <3>2. NoRepeats /\ AsExpected
      BY <2>2, <3>1
    <3>3. Cardinality(Places) = Cardinality(DOMAIN catalog)
      BY <3>2, PlacesCount
    <3>4. PICK p \in Places : TRUE
      BY <3>1, BindingAssumption DEF EachOnce
    <3>5. SomethingNamed
      <4>1. p[1] \in Listed
        BY PlacesWereRead
      <4>2. index = "map" => weightMap # << >>
        <5> SUFFICES ASSUME index = "map" PROVE weightMap # << >>
          OBVIOUS
        <5>1. DOMAIN weightMap # {}
          BY <3>1, <3>4 DEF AsIndexed
        <5> QED
          BY <5>1, EmptyMap DEF BindingInvariant, BindingTypes
      <4> QED
        BY <3>1, <4>1, <4>2 DEF SomethingNamed
    <3>6. Listed \cap Unsafe = {}
      <4>1. CASE index = "absent"
        BY <4>1 DEF BindingInvariant, ShardsInvariant
      <4>2. CASE index = "map"
        <5>1. Listed = {weightMap[name] : name \in DOMAIN weightMap}
          BY <4>2 DEF BindingInvariant, ShardsInvariant
        <5>2. ASSUME NEW name \in DOMAIN weightMap
              PROVE  weightMap[name] \notin Unsafe
          <6>1. PICK q \in Places : At(q).name = name
            BY <3>1, <4>2 DEF AsIndexed
          <6>2. weightMap[name] = q[1]
            BY <3>1, <4>2, <6>1 DEF AsIndexed
          <6> QED
            BY <6>2, PlacesWereRead DEF Safe
        <5> QED
          BY <5>1, <5>2
      <4> QED
        BY <3>1, <4>1, <4>2
    <3> QED
      BY <2>5, <3>1, <3>2, <3>3, <3>5, <3>6 DEF Clean
  <2> QED
    BY <2>1, <2>4, <2>5
<1> QED
  BY <1>2, <1>3

-----------------------------------------------------------------------------
(* The store.  The names of the headers that have been parsed. *)
ParsedNames == UNION {NamesOf(header[mapped[j]]) : j \in 1 .. parsed}

(* What the index promises of some names. *)
Promised(names) == [name \in names |-> [layout |-> Expected[name], shard |-> weightMap[name]]]

(* The tables of the store are those of the headers parsed so far, and a   *)
(* complete checkpoint leaves nothing to fail on.                          *)
ServesThePromise ==
  /\ stage \in {"none", "mapping", "reading", "open"}
  /\ ToSet(mapped) \subseteq ShardsOf
  /\ stage \in {"reading", "open"} => ToSet(mapped) = ShardsOf
  /\ parsed <= Len(mapped)
  /\ stage = "open" => parsed = Len(mapped)
  /\ served = Promised(ParsedNames)

StoreInvariant ==
  /\ BindingInvariant
  /\ mapped \in Seq(Shard) /\ parsed \in Nat
  /\ stage # "none" => pc = "done"
  /\ stage = "none" => mapped = << >>
  /\ stage \in {"none", "mapping"} => parsed = 0 /\ served = << >>
  /\ complete /\ index = "map" => ServesThePromise

-----------------------------------------------------------------------------
(* Of a complete checkpoint with an index: every shard the index names was *)
(* read and holds expected tensors that the index places there, and every  *)
(* expected tensor is in one of them.                                      *)
LEMMA CompleteFacts ==
  ASSUME BindingInvariant, ~NamesOnly, complete, index = "map"
  PROVE  /\ ShardsOf \subseteq Shard
         /\ \A s \in ShardsOf : found[s] = "read" /\ header[s] \in Headers
         /\ \A s \in ShardsOf : \A i \in 1 .. Len(header[s]) :
              /\ header[s][i].name \in DOMAIN Expected
              /\ header[s][i].layout = Expected[header[s][i].name]
              /\ weightMap[header[s][i].name] = s
         /\ \A name \in DOMAIN Expected : \E s \in ShardsOf : name \in NamesOf(header[s])
<1>1. pc = "done"
  BY DEF complete
<1>2. EachOnce /\ AsIndexed
  BY <1>1, VerdictFollows DEF Flawless
<1>3. /\ DOMAIN weightMap = {At(p).name : p \in Places}
      /\ \A p \in Places : weightMap[At(p).name] = p[1]
  BY <1>2 DEF AsIndexed
<1>4. ShardsOf = {weightMap[name] : name \in DOMAIN weightMap}
  BY DEF ShardsOf
<1>5. ASSUME NEW s \in ShardsOf
      PROVE  \E p \in Places : p[1] = s
  BY <1>3, <1>4
<1>6. ASSUME NEW s \in ShardsOf
      PROVE  s \in Shard /\ found[s] = "read" /\ header[s] \in Headers
  <2>1. PICK p \in Places : p[1] = s
    BY <1>5
  <2>2. s \in Shard /\ p[2] \in 1 .. Len(header[s])
    BY <2>1, PlacesAre DEF BindingInvariant
  <2>3. 1 .. Len(<< >>) = {}
    BY EmptySeq
  <2>4. header[s] # << >>
    BY <2>2, <2>3
  <2> QED
    BY <2>2, <2>4 DEF BindingInvariant, BindingTypes, ShardsInvariant
<1>7. ASSUME NEW s \in ShardsOf, NEW i \in 1 .. Len(header[s])
      PROVE  /\ header[s][i].name \in DOMAIN Expected
             /\ header[s][i].layout = Expected[header[s][i].name]
             /\ weightMap[header[s][i].name] = s
  <2>1. <<s, i>> \in Places /\ At(<<s, i>>) = header[s][i] /\ <<s, i>>[1] = s
    BY <1>6, PlaceOf
  <2>2. header[s][i].name \in DOMAIN Expected
    BY <1>2, <2>1 DEF EachOnce
  <2>3. PICK place \in Places :
          /\ At(place) = [name |-> header[s][i].name, layout |-> Expected[header[s][i].name]]
          /\ \A other \in Places : At(other).name = header[s][i].name => other = place
    BY <1>2, <2>2 DEF EachOnce
  <2>4. place = <<s, i>>
    BY <2>1, <2>3
  <2>5. header[s][i].layout = Expected[header[s][i].name]
    BY <2>1, <2>3, <2>4
  <2> QED
    BY <1>3, <2>1, <2>2, <2>5
<1>8. ASSUME NEW name \in DOMAIN Expected
      PROVE  \E s \in ShardsOf : name \in NamesOf(header[s])
  <2>1. PICK place \in Places : At(place) = [name |-> name, layout |-> Expected[name]]
    BY <1>2 DEF EachOnce
  <2>2. At(place).name = name
    BY <2>1
  <2>3. place[1] \in ShardsOf
    BY <1>3, <1>4, <2>2
  <2>4. place[2] \in 1 .. Len(header[place[1]]) /\ At(place) = header[place[1]][place[2]]
    BY PlacesAre DEF BindingInvariant, At
  <2>5. name \in NamesOf(header[place[1]])
    BY <2>2, <2>4 DEF NamesOf
  <2> QED
    BY <2>3, <2>5
<1> QED
  BY <1>6, <1>7, <1>8

(* Mapping one more shard leaves the earlier ones where they were. *)
LEMMA OneMoreMapped ==
  ASSUME NEW shards \in Seq(Shard), NEW s \in Shard
  PROVE  /\ Append(shards, s) \in Seq(Shard)
         /\ Len(Append(shards, s)) = Len(shards) + 1 /\ Len(shards) \in Nat
         /\ ToSet(Append(shards, s)) = ToSet(shards) \cup {s}
<1> DEFINE more == Append(shards, s)
           m == Len(shards)
<1>1. /\ more \in Seq(Shard) /\ Len(more) = m + 1 /\ m \in Nat
      /\ \A i \in 1 .. m : more[i] = shards[i]
      /\ more[m + 1] = s
  BY AppendProperties, LenProperties
<1>2. DOMAIN shards = 1 .. m /\ DOMAIN more = 1 .. m + 1
  BY <1>1, LenProperties
<1> HIDE DEF more, m
<1>3. {more[i] : i \in 1 .. m + 1} = {shards[i] : i \in 1 .. m} \cup {s}
  <2>1. \A i \in 1 .. m + 1 : i \in 1 .. m \/ i = m + 1
    BY <1>1
  <2>2. \A i \in 1 .. m : i \in 1 .. m + 1
    BY <1>1
  <2>3. m + 1 \in 1 .. m + 1
    BY <1>1
  <2> QED
    BY <1>1, <2>1, <2>2, <2>3
<1>4. ToSet(more) = ToSet(shards) \cup {s}
  BY <1>2, <1>3 DEF ToSet
<1> QED
  BY <1>1, <1>4 DEF more, m

LEMMA StoreBegins == StoreInit => StoreInvariant
<1> SUFFICES ASSUME StoreInit PROVE StoreInvariant
  OBVIOUS
<1>1. BindingInvariant /\ pc = "config"
  BY BindingBegins DEF StoreInit, Init
<1>2. << >> \in Seq(Shard)
  BY EmptySeq
<1>3. ~complete
  BY <1>1 DEF complete
<1> QED
  BY <1>1, <1>2, <1>3 DEF StoreInit, StoreInvariant

(* Before it is opened the store promises nothing. *)
Untouched == stage = "none" /\ mapped = << >> /\ parsed = 0 /\ served = << >>

LEMMA NothingServed == Untouched => ServesThePromise
<1> SUFFICES ASSUME Untouched PROVE ServesThePromise
  OBVIOUS
<1> USE DEF Untouched
<1>1. ToSet(mapped) = {}
  <2>1. DOMAIN << >> = {}
    OBVIOUS
  <2> QED
    BY <2>1 DEF ToSet
<1>2. ParsedNames = {}
  <2>1. 1 .. 0 = {}
    OBVIOUS
  <2> QED
    BY <2>1 DEF ParsedNames
<1>3. served = Promised(ParsedNames)
  <2>1. << >> = [name \in {} |-> [layout |-> Expected[name], shard |-> weightMap[name]]]
    OBVIOUS
  <2> QED
    BY <1>2, <2>1 DEF Promised
<1>4. parsed <= Len(mapped)
  BY EmptySeq
<1> QED
  BY <1>1, <1>3, <1>4 DEF ServesThePromise

LEMMA BindKeeps ==
  ASSUME StoreInvariant, ~NamesOnly, Bind
  PROVE  StoreInvariant'
<1>1. BindingInvariant'
  BY BindingStep DEF StoreInvariant, Bind, Next
<1>2. pc # "done"
  BY DEF Bind, Advance, ReadConfig, ReadReceipt, ReadIndex, StatShards, ReadShard, CrossCheck,
         BindCatalog, Throw
<1>3. stage = "none" /\ mapped = << >> /\ parsed = 0 /\ served = << >>
  BY <1>2 DEF StoreInvariant
<1>4. stage' = "none" /\ mapped' = << >> /\ parsed' = 0 /\ served' = << >>
  BY <1>3 DEF Bind, storeVars
<1>5. Untouched' => ServesThePromise'
  BY NothingServed, PTL
<1>6. mapped' \in Seq(Shard)
  BY <1>4, EmptySeq
<1> QED
  BY <1>1, <1>4, <1>5, <1>6 DEF StoreInvariant, Untouched

(* The store leaves what the pass has found alone. *)
LEMMA PassIsOver ==
  ASSUME BindingInvariant, UNCHANGED vars
  PROVE  /\ BindingInvariant'
         /\ complete' = complete /\ ShardsOf' = ShardsOf
         /\ UNCHANGED <<pc, index, weightMap, found, header>>
<1>1. BindingInvariant'
  BY BindingStopsKeeps
<1>2. complete' = complete
  BY DEF complete, Finish, vars
<1>3. ShardsOf' = ShardsOf
  BY DEF ShardsOf, vars
<1> QED
  BY <1>1, <1>2, <1>3 DEF vars

LEMMA OpenStoreKeeps ==
  ASSUME StoreInvariant, ~NamesOnly, OpenStore
  PROVE  StoreInvariant'
<1>1. /\ stage = "none" /\ pc = "done" /\ UNCHANGED vars /\ UNCHANGED <<mapped, parsed, served>>
      /\ stage' \in {"no index", "mapping"} /\ (index = "map" => stage' = "mapping")
  BY DEF OpenStore
<1>2. mapped = << >> /\ parsed = 0 /\ served = << >> /\ mapped \in Seq(Shard)
  BY <1>1 DEF StoreInvariant
<1>3. /\ BindingInvariant' /\ complete' = complete /\ ShardsOf' = ShardsOf
      /\ UNCHANGED <<pc, index, weightMap, found, header>>
  BY <1>1, PassIsOver DEF StoreInvariant
<1>4. ServesThePromise
  BY <1>1, <1>2, NothingServed DEF Untouched
<1>5. ParsedNames' = ParsedNames
  BY <1>1, <1>3 DEF ParsedNames
<1>6. Promised(ParsedNames)' = Promised(ParsedNames)
  BY <1>3, <1>5 DEF Promised
<1>7. index = "map" => ServesThePromise'
  BY <1>1, <1>2, <1>3, <1>4, <1>6 DEF ServesThePromise
<1> QED
  BY <1>1, <1>2, <1>3, <1>7 DEF StoreInvariant

LEMMA MapShardKeeps ==
  ASSUME StoreInvariant, ~NamesOnly, MapShard
  PROVE  StoreInvariant'
<1>1. /\ stage = "mapping" /\ UNCHANGED vars /\ UNCHANGED <<parsed, served>>
      /\ pc = "done" /\ parsed = 0 /\ served = << >> /\ mapped \in Seq(Shard)
  BY DEF MapShard, StoreInvariant
<1>2. PICK s \in ShardsOf \ ToSet(mapped) :
        IF found[s] = "read" THEN mapped' = Append(mapped, s) /\ UNCHANGED stage
        ELSE stage' = "cannot open" /\ UNCHANGED mapped
  BY DEF MapShard
<1>3. /\ BindingInvariant' /\ complete' = complete /\ ShardsOf' = ShardsOf
      /\ UNCHANGED <<pc, index, weightMap, found, header>>
  BY <1>1, PassIsOver DEF StoreInvariant
<1>4. s \in Shard
  <2>1. index = "map" => \A name \in DOMAIN weightMap : weightMap[name] \in Shard
    BY EmptyMap DEF StoreInvariant, BindingInvariant, BindingTypes
  <2> QED
    BY <1>2, <2>1, StoreAssumption DEF ShardsOf
<1>5. /\ Append(mapped, s) \in Seq(Shard)
      /\ Len(Append(mapped, s)) = Len(mapped) + 1 /\ Len(mapped) \in Nat
      /\ ToSet(Append(mapped, s)) = ToSet(mapped) \cup {s}
  BY <1>1, <1>4, OneMoreMapped
<1>6. mapped' \in Seq(Shard) /\ stage' # "none" /\ (stage' = "mapping" => parsed' = 0 /\ served' = << >>)
  BY <1>1, <1>2, <1>5
<1>7. ASSUME complete, index = "map"
      PROVE  ServesThePromise'
  <2>1. found[s] = "read"
    BY <1>2, <1>7, CompleteFacts DEF StoreInvariant
  <2>2. mapped' = Append(mapped, s) /\ stage' = "mapping"
    BY <1>1, <1>2, <2>1
  <2>3. ServesThePromise
    BY <1>7 DEF StoreInvariant
  <2>4. 1 .. 0 = {}
    OBVIOUS
  <2>5. ParsedNames = {} /\ ParsedNames' = {}
    BY <1>1, <2>4 DEF ParsedNames
  <2>6. Promised(ParsedNames)' = Promised(ParsedNames)
    BY <2>5 DEF Promised
  <2>7. ToSet(mapped)' = ToSet(mapped) \cup {s}
    BY <1>5, <2>2
  <2>8. parsed' <= Len(mapped')
    BY <1>1, <1>5, <2>2
  <2> QED
    BY <1>1, <1>2, <1>3, <2>2, <2>3, <2>6, <2>7, <2>8 DEF ServesThePromise
<1> QED
  BY <1>1, <1>3, <1>6, <1>7 DEF StoreInvariant

LEMMA MappedAllKeeps ==
  ASSUME StoreInvariant, ~NamesOnly, MappedAll
  PROVE  StoreInvariant'
<1>1. /\ stage = "mapping" /\ stage' = "reading" /\ ToSet(mapped) = ShardsOf
      /\ UNCHANGED vars /\ UNCHANGED <<mapped, parsed, served>>
  BY DEF MappedAll
<1>2. /\ BindingInvariant' /\ complete' = complete /\ ShardsOf' = ShardsOf
      /\ UNCHANGED <<pc, index, weightMap, found, header>>
  BY <1>1, PassIsOver DEF StoreInvariant
<1>3. Promised(ParsedNames)' = Promised(ParsedNames)
  BY <1>1, <1>2 DEF Promised, ParsedNames
<1>4. ToSet(mapped)' = ToSet(mapped)
  BY <1>1 DEF ToSet
<1>5. ServesThePromise => ServesThePromise'
  BY <1>1, <1>2, <1>3, <1>4 DEF ServesThePromise
<1> QED
  BY <1>1, <1>2, <1>5 DEF StoreInvariant

(* The tensors of one more header are what the index promised of them. *)
LEMMA EmplacedAsPromised ==
  ASSUME NEW names, NEW s, header[s] \in Headers,
         \A i \in 1 .. Len(header[s]) : /\ header[s][i].layout = Expected[header[s][i].name]
                                        /\ weightMap[header[s][i].name] = s
  PROVE  Emplaced(Promised(names), s) = Promised(names \cup NamesOf(header[s]))
<1>1. ASSUME NEW name \in NamesOf(header[s])
      PROVE  FirstOf(header[s], name).layout = Expected[name] /\ s = weightMap[name]
  <2>1. PICK i \in 1 .. Len(header[s]) :
          FirstOf(header[s], name) = header[s][i] /\ header[s][i].name = name
    BY FirstOfName
  <2> QED
    BY <2>1
<1>2. DOMAIN Promised(names) = names
      /\ \A name \in names : Promised(names)[name] = [layout |-> Expected[name], shard |-> weightMap[name]]
  BY DEF Promised
<1>3. Emplaced(Promised(names), s) =
        [name \in names \cup NamesOf(header[s]) |->
           IF name \in names THEN Promised(names)[name]
           ELSE [layout |-> FirstOf(header[s], name).layout, shard |-> s]]
  BY <1>2 DEF Emplaced
<1>4. \A name \in names \cup NamesOf(header[s]) :
        (IF name \in names THEN Promised(names)[name]
         ELSE [layout |-> FirstOf(header[s], name).layout, shard |-> s])
        = [layout |-> Expected[name], shard |-> weightMap[name]]
  BY <1>1, <1>2
<1>5. Promised(names \cup NamesOf(header[s])) =
        [name \in names \cup NamesOf(header[s]) |-> [layout |-> Expected[name], shard |-> weightMap[name]]]
  BY DEF Promised
<1> QED
  BY <1>3, <1>4, <1>5

LEMMA ReadHeaderKeeps ==
  ASSUME StoreInvariant, ~NamesOnly, ReadHeader
  PROVE  StoreInvariant'
<1> DEFINE s == mapped[parsed + 1]
<1>0. stage = "reading" /\ parsed < Len(mapped) /\ UNCHANGED mapped
  BY DEF ReadHeader
<1>1. /\ UNCHANGED vars
      /\ \/ /\ \E i \in DOMAIN header[s] : header[s][i].layout \in Unsupported
            /\ stage' = "unsupported dtype" /\ UNCHANGED <<parsed, served>>
         \/ parsed' = parsed + 1 /\ served' = Emplaced(served, s) /\ UNCHANGED stage
  BY DEF ReadHeader
<1> HIDE DEF s
<1>2. /\ BindingInvariant' /\ complete' = complete /\ ShardsOf' = ShardsOf
      /\ UNCHANGED <<pc, index, weightMap, found, header>>
  BY <1>1, PassIsOver DEF StoreInvariant
<1>3. /\ mapped \in Seq(Shard) /\ Len(mapped) \in Nat /\ DOMAIN mapped = 1 .. Len(mapped)
      /\ parsed \in Nat /\ pc = "done"
  BY <1>0, LenProperties DEF StoreInvariant
<1>4. parsed' \in Nat /\ stage' \notin {"none", "mapping"}
  <2>1. parsed + 1 \in Nat
    BY <1>3
  <2> QED
    BY <1>0, <1>1, <1>3, <2>1
<1>5. ASSUME complete, index = "map"
      PROVE  ServesThePromise'
  <2>1. ServesThePromise
    BY <1>5 DEF StoreInvariant
  <2>2. s \in ShardsOf
    <3>1. parsed + 1 \in DOMAIN mapped
      BY <1>0, <1>3
    <3>2. s \in ToSet(mapped)
      BY <3>1 DEF ToSet, s
    <3> QED
      BY <1>0, <2>1, <3>2 DEF ServesThePromise
  <2>3. /\ header[s] \in Headers
        /\ \A i \in 1 .. Len(header[s]) :
             /\ header[s][i].name \in DOMAIN Expected
             /\ header[s][i].layout = Expected[header[s][i].name]
             /\ weightMap[header[s][i].name] = s
    BY <1>5, <2>2, CompleteFacts DEF StoreInvariant
  <2>4. DOMAIN header[s] = 1 .. Len(header[s])
    BY <2>3, BindingAssumption, LenProperties
  <2>5. ~ \E i \in DOMAIN header[s] : header[s][i].layout \in Unsupported
    BY <2>3, <2>4, StoreAssumption
  <2>6. parsed' = parsed + 1 /\ served' = Emplaced(served, s) /\ stage' = "reading"
    BY <1>0, <1>1, <2>5
  <2>7. ParsedNames' = ParsedNames \cup NamesOf(header[s])
    <3>1. \A j \in 1 .. parsed + 1 : j \in 1 .. parsed \/ j = parsed + 1
      BY <1>3
    <3>2. \A j \in 1 .. parsed : j \in 1 .. parsed + 1
      BY <1>3
    <3>3. parsed + 1 \in 1 .. parsed + 1
      BY <1>3
    <3> DEFINE f == [j \in 1 .. parsed + 1 |-> NamesOf(header[mapped[j]])]
    <3>4. UNION {f[j] : j \in 1 .. parsed + 1} = (UNION {f[j] : j \in 1 .. parsed}) \cup f[parsed + 1]
      <4> HIDE DEF f
      <4>1. ASSUME NEW j \in 1 .. parsed + 1
            PROVE  f[j] \subseteq (UNION {f[i] : i \in 1 .. parsed}) \cup f[parsed + 1]
        <5>1. CASE j \in 1 .. parsed
          BY <5>1
        <5>2. CASE j = parsed + 1
          BY <5>2
        <5> QED
          BY <3>1, <5>1, <5>2
      <4>2. ASSUME NEW j \in 1 .. parsed
            PROVE  f[j] \subseteq UNION {f[i] : i \in 1 .. parsed + 1}
        BY <3>2
      <4>3. f[parsed + 1] \subseteq UNION {f[i] : i \in 1 .. parsed + 1}
        BY <3>3
      <4> QED
        BY <4>1, <4>2, <4>3
    <3>5. ParsedNames = UNION {f[j] : j \in 1 .. parsed}
      BY <3>2 DEF ParsedNames
    <3>6. ParsedNames' = UNION {f[j] : j \in 1 .. parsed + 1}
      <4>1. ParsedNames' = UNION {NamesOf(header[mapped[j]]) : j \in 1 .. parsed + 1}
        BY <1>0, <1>2, <2>6 DEF ParsedNames, NamesOf
      <4> QED
        BY <4>1
    <3>7. f[parsed + 1] = NamesOf(header[s])
      BY <3>3 DEF s
    <3> HIDE DEF f
    <3> QED
      BY <3>4, <3>5, <3>6, <3>7
  <2>8. served' = Promised(ParsedNames \cup NamesOf(header[s]))
    BY <2>1, <2>3, <2>6, EmplacedAsPromised DEF ServesThePromise
  <2>9. served' = Promised(ParsedNames)'
    BY <1>2, <2>7, <2>8 DEF Promised
  <2>10. parsed' <= Len(mapped')
    BY <1>0, <1>3, <2>6
  <2>11. ToSet(mapped)' = ToSet(mapped)
    BY <1>0 DEF ToSet
  <2> QED
    BY <1>0, <1>2, <2>1, <2>6, <2>9, <2>10, <2>11 DEF ServesThePromise
<1> QED
  BY <1>0, <1>2, <1>3, <1>4, <1>5 DEF StoreInvariant

LEMMA ReadAllKeeps ==
  ASSUME StoreInvariant, ~NamesOnly, ReadAll
  PROVE  StoreInvariant'
<1>1. /\ stage = "reading" /\ stage' = "open" /\ parsed = Len(mapped)
      /\ UNCHANGED vars /\ UNCHANGED <<mapped, parsed, served>>
  BY DEF ReadAll
<1>2. /\ BindingInvariant' /\ complete' = complete /\ ShardsOf' = ShardsOf
      /\ UNCHANGED <<pc, index, weightMap, found, header>>
  BY <1>1, PassIsOver DEF StoreInvariant
<1>3. Promised(ParsedNames)' = Promised(ParsedNames)
  BY <1>1, <1>2 DEF Promised, ParsedNames
<1>4. ToSet(mapped)' = ToSet(mapped)
  BY <1>1 DEF ToSet
<1>5. ServesThePromise => ServesThePromise'
  BY <1>1, <1>2, <1>3, <1>4 DEF ServesThePromise
<1> QED
  BY <1>1, <1>2, <1>5 DEF StoreInvariant

LEMMA StoreRestsKeeps ==
  ASSUME StoreInvariant, UNCHANGED <<vars, storeVars>>
  PROVE  StoreInvariant'
<1>1. UNCHANGED vars /\ UNCHANGED <<stage, mapped, parsed, served>>
  BY DEF storeVars
<1>2. /\ BindingInvariant' /\ complete' = complete /\ ShardsOf' = ShardsOf
      /\ UNCHANGED <<pc, index, weightMap, found, header>>
  BY <1>1, PassIsOver DEF StoreInvariant
<1>3. Promised(ParsedNames)' = Promised(ParsedNames)
  BY <1>1, <1>2 DEF Promised, ParsedNames
<1>4. ToSet(mapped)' = ToSet(mapped)
  BY <1>1 DEF ToSet
<1>5. ServesThePromise => ServesThePromise'
  BY <1>1, <1>2, <1>3, <1>4 DEF ServesThePromise
<1> QED
  BY <1>1, <1>2, <1>5 DEF StoreInvariant

LEMMA StoreStep ==
  ASSUME StoreInvariant, ~NamesOnly, [StoreNext]_<<vars, storeVars>>
  PROVE  StoreInvariant'
BY BindKeeps, OpenStoreKeeps, MapShardKeeps, MappedAllKeeps, ReadHeaderKeeps, ReadAllKeeps,
   StoreRestsKeeps DEF StoreNext, Rest

(* An open store has parsed the headers of all the shards the index names, *)
(* and so serves every expected tensor and nothing else.                   *)
LEMMA ServedFollows ==
  ASSUME StoreInvariant, ~NamesOnly, complete, index = "map", stage = "open"
  PROVE  served = Promised(DOMAIN Expected)
<1>1. ServesThePromise /\ BindingInvariant
  BY DEF StoreInvariant
<1>2. /\ ToSet(mapped) = ShardsOf /\ parsed = Len(mapped) /\ served = Promised(ParsedNames)
      /\ DOMAIN mapped = 1 .. Len(mapped)
  BY <1>1, LenProperties DEF ServesThePromise, StoreInvariant
<1>3. ShardsOf = {mapped[j] : j \in 1 .. parsed}
  BY <1>2 DEF ToSet
<1>4. ParsedNames = UNION {NamesOf(header[s]) : s \in ShardsOf}
  BY <1>3 DEF ParsedNames
<1>5. \A name \in DOMAIN Expected : \E s \in ShardsOf : name \in NamesOf(header[s])
  BY <1>1, CompleteFacts
<1>6. ASSUME NEW s \in ShardsOf
      PROVE  NamesOf(header[s]) \subseteq DOMAIN Expected
  <2>1. \A i \in 1 .. Len(header[s]) : header[s][i].name \in DOMAIN Expected
    BY <1>1, CompleteFacts
  <2> QED
    BY <2>1 DEF NamesOf
<1>7. ParsedNames = DOMAIN Expected
  BY <1>4, <1>5, <1>6
<1> QED
  BY <1>2, <1>7

-----------------------------------------------------------------------------
(* The verdict of a pass that opens the shards is exact, whatever names,   *)
(* layouts, shards and headers there are, and whichever files come and go  *)
(* while it runs (checkpoint_binding.cpp:620-709).                         *)
THEOREM VerdictsAreExact == Spec => []VerdictIsExact
<1> DEFINE Inv == ~NamesOnly => BindingInvariant
<1>1. Init => Inv
  BY BindingBegins
<1>2. Inv /\ [Next]_vars => Inv'
  BY BindingStep
<1>3. Inv => VerdictIsExact
  BY VerdictFollows DEF VerdictIsExact
<1> QED
  BY <1>1, <1>2, <1>3, PTL DEF Spec

(* The same with the store behind it: opening the shards again changes     *)
(* nothing of what the pass has said.                                      *)
THEOREM StoreLeavesVerdictsExact == StoreSpec => []VerdictIsExact
<1> DEFINE Inv == ~NamesOnly => StoreInvariant
<1>1. StoreInit => Inv
  BY StoreBegins
<1>2. Inv /\ [StoreNext]_<<vars, storeVars>> => Inv'
  BY StoreStep
<1>3. Inv => VerdictIsExact
  BY VerdictFollows DEF VerdictIsExact, StoreInvariant
<1> QED
  BY <1>1, <1>2, <1>3, PTL DEF StoreSpec

(* A checkpoint that was found complete is opened by the store without a   *)
(* failure, and every expected tensor is then served from the shard the    *)
(* index names, in whatever order the shards were mapped                   *)
(* (text_forward.cpp:364-452 against checkpoint_binding.cpp:620-709).      *)
THEOREM CompleteCheckpointsAreServed == StoreSpec => []CompleteIsServed
<1> DEFINE Inv == ~NamesOnly => StoreInvariant
<1>1. StoreInit => Inv
  BY StoreBegins
<1>2. Inv /\ [StoreNext]_<<vars, storeVars>> => Inv'
  BY StoreStep
<1>3. Inv => CompleteIsServed
  <2>1. ASSUME StoreInvariant, ~NamesOnly, complete, index = "map"
        PROVE  stage \in {"none", "mapping", "reading", "open"}
    BY <2>1 DEF StoreInvariant, ServesThePromise
  <2>2. ASSUME StoreInvariant, ~NamesOnly, complete, index = "map", stage = "open"
        PROVE  served = [name \in DOMAIN Expected |->
                           [layout |-> Expected[name], shard |-> weightMap[name]]]
    BY <2>2, ServedFollows DEF Promised
  <2> QED
    BY <2>1, <2>2 DEF CompleteIsServed
<1> QED
  BY <1>1, <1>2, <1>3, PTL DEF StoreSpec

-----------------------------------------------------------------------------
(* The pinned model: no error, and as many layers of each kind as promised.*)
LEMMA NothingFails ==
  ASSUME NEW checks
  PROVE  Failing(checks) = {} <=> \A c \in DOMAIN checks : checks[c]
BY DEF Failing

LEMMA LayersOfTheModel ==
  /\ Len(MakeLayers(45)) = 45 /\ DOMAIN MakeLayers(45) = 1 .. 45
  /\ \A i \in 1 .. 45 :
       /\ MakeLayers(45)[i] = MakeLayers(i)[i]
       /\ MakeLayers(45)[i].mixer = IF IsSparseMlaLayer(i - 1) THEN "sparse_mla" ELSE "kda"
       /\ MakeLayers(45)[i].ffn = IF i - 1 < 3 THEN "dense" ELSE "sparse_moe"
<1>1. DOMAIN MakeLayers(45) = 1 .. 45 /\ MakeLayers(45) = [i \in 1 .. 45 |-> MakeLayers(45)[i]]
  BY DEF MakeLayers
<1>2. Len(MakeLayers(45)) = 45
  BY <1>1
<1>3. ASSUME NEW i \in 1 .. 45 PROVE i \in 1 .. i
  OBVIOUS
<1> QED BY <1>1, <1>2, <1>3 DEF MakeLayers

LEMMA CountTheRest ==
  ASSUME NEW n \in Nat, NEW S \in SUBSET (1 .. n)
  PROVE  Cardinality((1 .. n) \ S) = n - Cardinality(S)
<1>1. (1 .. n) \cap S = S
  OBVIOUS
<1>2. Cardinality((1 .. n) \ S) = Cardinality(1 .. n) - Cardinality((1 .. n) \cap S)
  BY CountTo, FS_Difference
<1> QED
  BY <1>1, <1>2, CountTo

(* The layers of sparse attention are the multiples of four. *)
LEMMA CountEveryFourth ==
  Cardinality({i \in 1 .. 45 : IsSparseMlaLayer(i - 1)}) = 11
<1> DEFINE Mla == {i \in 1 .. 45 : IsSparseMlaLayer(i - 1)}
           f == [m \in 1 .. 11 |-> 4 * m]
<1>1. ASSUME NEW m \in 1 .. 11 PROVE f[m] \in Mla
  BY DEF IsSparseMlaLayer
<1>2. ASSUME NEW i \in Mla PROVE \E m \in 1 .. 11 : f[m] = i
  <2>1. i \in 1 .. 45 /\ i - 1 >= 3 /\ (i - 1 - 3) % 4 = 0
    BY DEF IsSparseMlaLayer
  <2>2. i \div 4 \in 1 .. 11 /\ 4 * (i \div 4) = i
    BY <2>1
  <2> QED BY <2>2
<1>3. \A m, n \in 1 .. 11 : f[m] = f[n] => m = n
  OBVIOUS
<1>4. f \in [1 .. 11 -> Mla] /\ DOMAIN f = 1 .. 11
  BY <1>1
<1>5. f \in Bijection(1 .. 11, Mla)
  <2> HIDE DEF f, Mla
  <2> QED BY <1>2, <1>3, <1>4 DEF Bijection, Injection, Surjection, IsInjective
<1>6. IsFiniteSet(1 .. 11) /\ Cardinality(1 .. 11) = 11
  BY CountTo
<1> QED
  BY <1>5, <1>6, FS_Bijection DEF ExistsBijection

LEMMA LayersAreCounted ==
  /\ CountMixer(Glm53FlashSpec, "sparse_mla") = 11
  /\ CountMixer(Glm53FlashSpec, "kda") = 34
  /\ CountFfn(Glm53FlashSpec, "dense") = 3
  /\ CountFfn(Glm53FlashSpec, "sparse_moe") = 42
<1> DEFINE All == 1 .. 45
           Mla == {i \in All : IsSparseMlaLayer(i - 1)}
           layers == MakeLayers(45)
<1>1. Glm53FlashSpec.layers = layers /\ DOMAIN layers = All
  BY LayersOfTheModel DEF Glm53FlashSpec
<1>2. {i \in All : layers[i].mixer = "sparse_mla"} = Mla
  BY LayersOfTheModel
<1>3. {i \in All : layers[i].mixer = "kda"} = All \ Mla
  BY LayersOfTheModel
<1>4. {i \in All : layers[i].ffn = "dense"} = 1 .. 3
  BY LayersOfTheModel
<1>5. {i \in All : layers[i].ffn = "sparse_moe"} = All \ (1 .. 3)
  BY LayersOfTheModel
<1>6. Cardinality(Mla) = 11 /\ Cardinality(All \ Mla) = 34
  <2>1. Cardinality(Mla) = 11
    BY CountEveryFourth
  <2>2. Mla \in SUBSET All
    OBVIOUS
  <2>3. Cardinality(All \ Mla) = 45 - Cardinality(Mla)
    BY <2>2, CountTheRest
  <2> QED BY <2>1, <2>3
<1>7. Cardinality(1 .. 3) = 3 /\ Cardinality(All \ (1 .. 3)) = 42
  <2>1. Cardinality(1 .. 3) = 3
    BY CountTo
  <2>2. 1 .. 3 \in SUBSET All
    OBVIOUS
  <2>3. Cardinality(All \ (1 .. 3)) = 45 - Cardinality(1 .. 3)
    BY <2>2, CountTheRest
  <2> QED BY <2>1, <2>3
<1> HIDE DEF All, Mla, layers
<1>8. /\ CountMixer(Glm53FlashSpec, "sparse_mla") = Cardinality(Mla)
      /\ CountMixer(Glm53FlashSpec, "kda") = Cardinality(All \ Mla)
  BY <1>1, <1>2, <1>3 DEF CountMixer
<1>9. /\ CountFfn(Glm53FlashSpec, "dense") = Cardinality(1 .. 3)
      /\ CountFfn(Glm53FlashSpec, "sparse_moe") = Cardinality(All \ (1 .. 3))
  BY <1>1, <1>4, <1>5 DEF CountFfn
<1> QED
  BY <1>6, <1>7, <1>8, <1>9

LEMMA ModelIsFlawless == ModelErrors(Model) = {}
<1>1. Model.layers = MakeLayers(45)
  BY DEF Model, Glm53FlashSpec
<1>2. {i \in DOMAIN Model.layers : Model.layers[i] # MakeLayers(i)[i]} = {}
  BY <1>1, LayersOfTheModel
<1>3. {<<"layer", i>> : i \in {j \in DOMAIN Model.layers :
                                  Model.layers[j] # MakeLayers(j)[j]}} = {}
  BY <1>2
<1>4. Len(Model.layers) = 45
  BY <1>1, LayersOfTheModel
<1> QED BY <1>3, <1>4, LayersAreCounted DEF ModelErrors, Model

-----------------------------------------------------------------------------
(* What a caller can hand to the checker: any record with a plan's fields. *)
PlanFields ==
  {"world_size", "hyper_connection_streams", "local_attention_heads", "local_kv_heads",
   "local_index_heads", "local_linear_attention_heads", "layers", "speculative",
   "max_context_tokens", "max_inflight_sequences", "max_batched_tokens"}
LayerFields ==
  {"layer", "mixer", "ffn", "persistent_state", "mixer_output_collective",
   "ffn_output_collective"}
DraftFields ==
  {"enabled", "proposal_tokens", "draft_tensor_parallel", "draft_model", "draft_revision"}

Over(S, f) == f = [x \in S |-> f[x]]

LayersShaped(s) ==
  \E n \in Nat : Over(1 .. n, s) /\ \A i \in 1 .. n : Over(LayerFields, s[i])

DraftShaped(s) == Over(DraftFields, s) /\ s.enabled \in BOOLEAN

PlanShaped(p) ==
  Over(PlanFields, p) /\ LayersShaped(p.layers) /\ DraftShaped(p.speculative)

LEMMA SameOver ==
  ASSUME NEW S, NEW f, NEW g, Over(S, f), Over(S, g), \A x \in S : f[x] = g[x]
  PROVE  f = g
BY DEF Over

LEMMA BuiltLayers ==
  ASSUME NEW d
  PROVE  /\ Over(1 .. 45, BuildPlan(Model, d).layers)
         /\ \A i \in 1 .. 45 :
              /\ BuildPlan(Model, d).layers[i] = LayerPlan(Model.layers[i])
              /\ Over(LayerFields, BuildPlan(Model, d).layers[i])
<1>1. DOMAIN Model.layers = 1 .. 45
  BY LayersOfTheModel DEF Model, Glm53FlashSpec
<1>2. BuildPlan(Model, d).layers = [i \in 1 .. 45 |-> LayerPlan(Model.layers[i])]
  BY <1>1 DEF BuildPlan
<1>3. \A layer : Over(LayerFields, LayerPlan(layer))
  BY DEF Over, LayerFields, LayerPlan
<1> QED
  BY <1>2, <1>3 DEF Over

LEMMA BuiltIsPlan ==
  ASSUME NEW d
  PROVE  PlanShaped(BuildPlan(Model, d))
<1>1. Over(PlanFields, BuildPlan(Model, d))
  BY DEF Over, PlanFields, BuildPlan
<1>2. /\ Over(DraftFields, BuildPlan(Model, d).speculative)
      /\ BuildPlan(Model, d).speculative.enabled \in BOOLEAN
  BY DEF Over, DraftFields, BuildPlan, NoDraft
<1> QED
  BY <1>1, <1>2, BuiltLayers DEF PlanShaped, LayersShaped, DraftShaped

(* What acceptable inputs have in common. *)
LEMMA AcceptableInputs ==
  ASSUME NEW d
  PROVE  InputErrors(Model, d) = {} <=>
           /\ d.TP = 2 /\ d.NNODES = 2
           /\ d.MAX_MODEL_LEN \in 1 .. Model.max_position_embeddings
           /\ d.MAX_NUM_SEQS > 0 /\ d.MAX_NUM_BATCHED_TOKENS > 0
           /\ d.SPEC_METHOD \in {Text("none"), Text("dflash")}
           /\ d.SPEC_METHOD = Text("dflash") =>
                d.DFLASH_TOKENS \in 1 .. 8 /\ d.DFLASH_DRAFT_TP = 2
           /\ d.SPEC_METHOD = Text("dflash") =>
                d.DFLASH_MODEL # Empty /\ d.DFLASH_REVISION = Text("40hex")
<1> DEFINE checks ==
  [ranks |-> d.TP = 2 /\ d.NNODES = 2,
   limits |-> /\ d.MAX_MODEL_LEN \in 1 .. Model.max_position_embeddings
              /\ d.MAX_NUM_SEQS > 0 /\ d.MAX_NUM_BATCHED_TOKENS > 0,
   method |-> d.SPEC_METHOD \in {Text("none"), Text("dflash")},
   draft |-> d.SPEC_METHOD = Text("dflash") =>
               d.DFLASH_TOKENS \in 1 .. 8 /\ d.DFLASH_DRAFT_TP = 2,
   pinned |-> d.SPEC_METHOD = Text("dflash") =>
                d.DFLASH_MODEL # Empty /\ d.DFLASH_REVISION = Text("40hex")]
<1>1. InputErrors(Model, d) = Failing(checks)
  BY ModelIsFlawless DEF InputErrors
<1>2. DOMAIN checks = {"ranks", "limits", "method", "draft", "pinned"}
  OBVIOUS
<1>3. InputErrors(Model, d) = {} <=> \A c \in DOMAIN checks : checks[c]
  <2> HIDE DEF checks
  <2> QED BY <1>1, NothingFails
<1>4. InputErrors(Model, d) = {} <=>
        checks.ranks /\ checks.limits /\ checks.method /\ checks.draft /\ checks.pinned
  <2> HIDE DEF checks
  <2> QED BY <1>2, <1>3
<1>5. checks.ranks <=> d.TP = 2 /\ d.NNODES = 2
  OBVIOUS
<1> QED
  BY <1>4

(* The checker, one conjunct per check. *)
LEMMA AcceptablePlans ==
  ASSUME NEW d, NEW p, InputErrors(Model, d) = {}
  PROVE  PlanErrors(p, Model, d) = {} <=>
           /\ Len(p.layers) = 45
           /\ p.world_size = 2
           /\ p.hyper_connection_streams = 4
           /\ p.local_attention_heads = 32 /\ p.local_kv_heads = 32
           /\ p.local_index_heads = 16 /\ p.local_linear_attention_heads = 32
           /\ \A i \in DOMAIN p.layers :
                /\ p.layers[i].layer = Model.layers[i].index
                /\ p.layers[i].mixer = Model.layers[i].mixer
                /\ p.layers[i].ffn = Model.layers[i].ffn
           /\ \A i \in DOMAIN p.layers :
                p.layers[i].persistent_state = PersistentState(Model.layers[i].mixer)
           /\ \A i \in DOMAIN p.layers :
                /\ p.layers[i].mixer_output_collective = "all_reduce"
                /\ p.layers[i].ffn_output_collective = "all_reduce"
           /\ p.max_context_tokens = d.MAX_MODEL_LEN
           /\ p.max_inflight_sequences = d.MAX_NUM_SEQS
           /\ p.max_batched_tokens = d.MAX_NUM_BATCHED_TOKENS
           /\ DraftMatches(p, d)
<1> DEFINE halves(local, global) == global > 0 /\ global % 2 = 0 /\ local = global \div 2
           counted == Len(p.layers) = Len(Model.layers)
           checks ==
  [world |-> p.world_size = 2 /\ d.TP = 2,
   streams |-> /\ p.hyper_connection_streams = 4
               /\ Model.hyper_connection_streams = 4,
   layers |-> counted,
   heads |-> counted =>
     /\ p.world_size = 2
     /\ halves(p.local_attention_heads, Model.attention_heads)
     /\ halves(p.local_kv_heads, Model.kv_heads)
     /\ halves(p.local_index_heads, Model.index_heads)
     /\ halves(p.local_linear_attention_heads, Model.linear_attention_heads),
   topology |-> counted => \A i \in DOMAIN p.layers :
     /\ p.layers[i].layer = Model.layers[i].index
     /\ p.layers[i].mixer = Model.layers[i].mixer
     /\ p.layers[i].ffn = Model.layers[i].ffn,
   state |-> counted => \A i \in DOMAIN p.layers :
     p.layers[i].persistent_state = PersistentState(Model.layers[i].mixer),
   collectives |-> counted => \A i \in DOMAIN p.layers :
     /\ p.layers[i].mixer_output_collective = "all_reduce"
     /\ p.layers[i].ffn_output_collective = "all_reduce",
   limits |-> counted =>
     /\ p.max_context_tokens = d.MAX_MODEL_LEN
     /\ p.max_inflight_sequences = d.MAX_NUM_SEQS
     /\ p.max_batched_tokens = d.MAX_NUM_BATCHED_TOKENS,
   draft |-> counted => DraftMatches(p, d)]
<1>1. PlanErrors(p, Model, d) = Failing(checks)
  BY DEF PlanErrors
<1>2. DOMAIN checks = {"world", "streams", "layers", "heads", "topology", "state",
                       "collectives", "limits", "draft"}
  OBVIOUS
<1>3. PlanErrors(p, Model, d) = {} <=> \A c \in DOMAIN checks : checks[c]
  <2> HIDE DEF checks
  <2> QED BY <1>1, NothingFails
<1>4. PlanErrors(p, Model, d) = {} <=>
        /\ checks.world /\ checks.streams /\ checks.layers /\ checks.heads /\ checks.topology
        /\ checks.state /\ checks.collectives /\ checks.limits /\ checks.draft
  <2> HIDE DEF checks
  <2> QED BY <1>2, <1>3
<1>5. d.TP = 2
  BY AcceptableInputs
<1>6. /\ Len(Model.layers) = 45 /\ Model.hyper_connection_streams = 4
      /\ Model.attention_heads = 64 /\ Model.kv_heads = 64 /\ Model.index_heads = 32
      /\ Model.linear_attention_heads = 64
  BY LayersOfTheModel DEF Model, Glm53FlashSpec
<1>7. /\ \A n : halves(n, 64) <=> n = 32
      /\ \A n : halves(n, 32) <=> n = 16
  OBVIOUS
<1>8. /\ checks.world <=> p.world_size = 2
      /\ checks.streams <=> p.hyper_connection_streams = 4
      /\ checks.layers <=> Len(p.layers) = 45
  BY <1>5, <1>6
<1>9. /\ checks.heads <=>
           (counted =>
              /\ p.world_size = 2
              /\ p.local_attention_heads = 32 /\ p.local_kv_heads = 32
              /\ p.local_index_heads = 16 /\ p.local_linear_attention_heads = 32)
  <2>1. checks.heads <=>
           (counted =>
              /\ p.world_size = 2
              /\ halves(p.local_attention_heads, Model.attention_heads)
              /\ halves(p.local_kv_heads, Model.kv_heads)
              /\ halves(p.local_index_heads, Model.index_heads)
              /\ halves(p.local_linear_attention_heads, Model.linear_attention_heads))
    OBVIOUS
  <2> HIDE DEF halves, checks, counted
  <2> QED BY <1>6, <1>7, <2>1
<1> QED
  BY <1>4, <1>6, <1>8, <1>9

LEMMA BuiltFields ==
  ASSUME NEW d, d.TP = 2
  PROVE  LET b == BuildPlan(Model, d)
         IN  /\ b.world_size = 2 /\ b.hyper_connection_streams = 4
             /\ b.local_attention_heads = 32 /\ b.local_kv_heads = 32
             /\ b.local_index_heads = 16 /\ b.local_linear_attention_heads = 32
             /\ b.max_context_tokens = d.MAX_MODEL_LEN
             /\ b.max_inflight_sequences = d.MAX_NUM_SEQS
             /\ b.max_batched_tokens = d.MAX_NUM_BATCHED_TOKENS
BY DEF BuildPlan, Model, Glm53FlashSpec

(* The checker passes the plan that was built. *)
LEMMA BuiltIsAccepted ==
  ASSUME NEW d, InputErrors(Model, d) = {}
  PROVE  PlanErrors(BuildPlan(Model, d), Model, d) = {}
<1> DEFINE p == BuildPlan(Model, d)
<1>1. Over(1 .. 45, p.layers) /\ \A i \in 1 .. 45 : p.layers[i] = LayerPlan(Model.layers[i])
  BY BuiltLayers
<1>2. Len(p.layers) = 45 /\ DOMAIN p.layers = 1 .. 45
  BY <1>1 DEF Over
<1>3. \A i \in DOMAIN p.layers :
        /\ p.layers[i].layer = Model.layers[i].index
        /\ p.layers[i].mixer = Model.layers[i].mixer
        /\ p.layers[i].ffn = Model.layers[i].ffn
        /\ p.layers[i].persistent_state = PersistentState(Model.layers[i].mixer)
        /\ p.layers[i].mixer_output_collective = "all_reduce"
        /\ p.layers[i].ffn_output_collective = "all_reduce"
  <2> HIDE DEF p
  <2>1. ASSUME NEW i \in DOMAIN p.layers
        PROVE  p.layers[i] = LayerPlan(Model.layers[i])
    BY <1>1, <1>2
  <2>2. \A layer :
          /\ LayerPlan(layer).layer = layer.index
          /\ LayerPlan(layer).mixer = layer.mixer
          /\ LayerPlan(layer).ffn = layer.ffn
          /\ LayerPlan(layer).persistent_state = PersistentState(layer.mixer)
          /\ LayerPlan(layer).mixer_output_collective = "all_reduce"
          /\ LayerPlan(layer).ffn_output_collective = "all_reduce"
    BY DEF LayerPlan
  <2> QED BY <2>1, <2>2
<1>4. DraftMatches(p, d)
  BY DEF DraftMatches, StaleDraftAllowed, BuildPlan, NoDraft
<1>5. d.TP = 2
  BY AcceptableInputs
<1> QED
  BY <1>2, <1>3, <1>4, <1>5, BuiltFields, AcceptablePlans

(* And no other record with a plan's fields. *)
LEMMA AcceptedIsTheBuilt ==
  ASSUME NEW d, NEW p, PlanShaped(p), InputErrors(Model, d) = {},
         PlanErrors(p, Model, d) = {}
  PROVE  p = BuildPlan(Model, d)
<1> DEFINE b == BuildPlan(Model, d)
<1>1. d.TP = 2
  BY AcceptableInputs
<1>2. p.layers = b.layers
  <2>1. PICK n \in Nat : /\ Over(1 .. n, p.layers)
                         /\ \A i \in 1 .. n : Over(LayerFields, p.layers[i])
    BY DEF PlanShaped, LayersShaped
  <2>2. n = 45 /\ DOMAIN p.layers = 1 .. 45
    <3>1. Len(p.layers) = 45
      BY AcceptablePlans
    <3>2. DOMAIN p.layers = 1 .. n
      BY <2>1 DEF Over
    <3>3. p.layers \in [1 .. n -> {p.layers[i] : i \in 1 .. n}]
      BY <2>1 DEF Over
    <3>4. Len(p.layers) = n
      BY <3>3
    <3> QED BY <3>1, <3>2, <3>4
  <2>3. Over(1 .. 45, b.layers) /\ \A i \in 1 .. 45 : b.layers[i] = LayerPlan(Model.layers[i])
    BY BuiltLayers
  <2>4. ASSUME NEW i \in 1 .. 45 PROVE p.layers[i] = b.layers[i]
    <3> DEFINE x == p.layers[i]
               y == LayerPlan(Model.layers[i])
    <3>1. /\ x.layer = y.layer /\ x.mixer = y.mixer /\ x.ffn = y.ffn
          /\ x.persistent_state = y.persistent_state
          /\ x.mixer_output_collective = y.mixer_output_collective
          /\ x.ffn_output_collective = y.ffn_output_collective
      BY <2>2, AcceptablePlans DEF LayerPlan
    <3>2. Over(LayerFields, x)
      BY <2>1, <2>2
    <3>3. Over(LayerFields, y)
      BY DEF Over, LayerFields, LayerPlan
    <3>4. \A f \in LayerFields : x[f] = y[f]
      <4> HIDE DEF x, y
      <4> QED BY <3>1 DEF LayerFields
    <3>5. x = y
      BY <3>2, <3>3, <3>4, SameOver
    <3> QED BY <3>5, <2>3
  <2> QED BY <2>1, <2>2, <2>3, <2>4, SameOver
<1>3. p.speculative = b.speculative
  <2> DEFINE x == p.speculative
             y == b.speculative
  <2>1. DraftMatches(p, d)
    BY AcceptablePlans
  <2>2. /\ x.enabled = y.enabled /\ x.proposal_tokens = y.proposal_tokens
        /\ x.draft_tensor_parallel = y.draft_tensor_parallel
        /\ x.draft_model = y.draft_model /\ x.draft_revision = y.draft_revision
    <3>1. CASE d.SPEC_METHOD = Text("dflash")
      BY <2>1, <3>1 DEF DraftMatches, StaleDraftAllowed, PlanShaped, DraftShaped, BuildPlan
    <3>2. CASE d.SPEC_METHOD # Text("dflash")
      BY <2>1, <3>2 DEF DraftMatches, StaleDraftAllowed, PlanShaped, DraftShaped, BuildPlan, NoDraft
    <3> QED BY <3>1, <3>2
  <2>3. Over(DraftFields, x) /\ Over(DraftFields, y)
    BY BuiltIsPlan DEF PlanShaped, DraftShaped
  <2>4. \A f \in DraftFields : x[f] = y[f]
    BY <2>2 DEF DraftFields
  <2> HIDE DEF x, y
  <2>5. x = y
    BY <2>3, <2>4, SameOver
  <2> QED BY <2>5 DEF x, y
<1>4. \A f \in PlanFields : p[f] = b[f]
  <2>1. /\ p.world_size = b.world_size
        /\ p.hyper_connection_streams = b.hyper_connection_streams
        /\ p.local_attention_heads = b.local_attention_heads
        /\ p.local_kv_heads = b.local_kv_heads
        /\ p.local_index_heads = b.local_index_heads
        /\ p.local_linear_attention_heads = b.local_linear_attention_heads
        /\ p.max_context_tokens = b.max_context_tokens
        /\ p.max_inflight_sequences = b.max_inflight_sequences
        /\ p.max_batched_tokens = b.max_batched_tokens
    BY <1>1, AcceptablePlans, BuiltFields
  <2> HIDE DEF b
  <2> QED BY <2>1, <1>2, <1>3 DEF PlanFields
<1> QED
  BY <1>4, BuiltIsPlan, SameOver DEF PlanShaped

(* validate_execution_plan measures a plan against the deployment alone:   *)
(* of all records with a plan's fields, whoever made them, it accepts the  *)
(* one that build_tp2_execution_plan would return, and no other.           *)
THEOREM PlanCheckIsExact ==
  \A d, p : InputErrors(Model, d) = {} /\ PlanShaped(p) =>
              (PlanErrors(p, Model, d) = {} <=> p = BuildPlan(Model, d))
BY BuiltIsAccepted, AcceptedIsTheBuilt

-----------------------------------------------------------------------------
(* An edit leaves a record with a plan's fields. *)
LEMMA ChangedOver ==
  ASSUME NEW S, NEW f, NEW x \in S, NEW v, Over(S, f)
  PROVE  /\ Over(S, [f EXCEPT ![x] = v])
         /\ [f EXCEPT ![x] = v][x] = v
         /\ \A y \in S \ {x} : [f EXCEPT ![x] = v][y] = f[y]
<1>1. DOMAIN f = S
  BY DEF Over
<1>2. [f EXCEPT ![x] = v] = [y \in S |-> IF y = x THEN v ELSE f[y]]
  BY <1>1
<1> QED
  BY <1>2 DEF Over

LEMMA ChangedField ==
  ASSUME NEW p, PlanShaped(p), NEW v
  PROVE  /\ \A field \in PlanFields \ {"layers", "speculative"} :
              PlanShaped([p EXCEPT ![field] = v])
         /\ LayersShaped(v) => PlanShaped([p EXCEPT !.layers = v])
         /\ DraftShaped(v) => PlanShaped([p EXCEPT !.speculative = v])
<1>1. "layers" \in PlanFields /\ "speculative" \in PlanFields
  BY DEF PlanFields
<1>2. Over(PlanFields, p) /\ LayersShaped(p.layers) /\ DraftShaped(p.speculative)
  BY DEF PlanShaped
<1>3. \A q : Over(PlanFields, q) /\ LayersShaped(q.layers) /\ DraftShaped(q.speculative)
               => PlanShaped(q)
  BY DEF PlanShaped
<1>4. ASSUME NEW field \in PlanFields \ {"layers", "speculative"}
      PROVE  PlanShaped([p EXCEPT ![field] = v])
  <2> DEFINE q == [p EXCEPT ![field] = v]
  <2>1. Over(PlanFields, q) /\ \A y \in PlanFields \ {field} : q[y] = p[y]
    BY <1>2, ChangedOver
  <2> HIDE DEF q
  <2>2. q.layers = p.layers /\ q.speculative = p.speculative
    BY <1>1, <2>1
  <2>3. PlanShaped(q)
    BY <1>2, <1>3, <2>1, <2>2
  <2> QED BY <2>3 DEF q
<1>5. ASSUME LayersShaped(v) PROVE PlanShaped([p EXCEPT !.layers = v])
  <2> DEFINE q == [p EXCEPT !["layers"] = v]
  <2>1. Over(PlanFields, q) /\ q["layers"] = v
        /\ \A y \in PlanFields \ {"layers"} : q[y] = p[y]
    BY <1>1, <1>2, ChangedOver
  <2>0. q = [p EXCEPT !.layers = v]
    OBVIOUS
  <2> HIDE DEF q
  <2>2. q.layers = v /\ q.speculative = p.speculative
    BY <1>1, <2>1
  <2>3. PlanShaped(q)
    BY <1>2, <1>3, <1>5, <2>1, <2>2
  <2> QED BY <2>0, <2>3
<1>6. ASSUME DraftShaped(v) PROVE PlanShaped([p EXCEPT !.speculative = v])
  <2> DEFINE q == [p EXCEPT !["speculative"] = v]
  <2>1. Over(PlanFields, q) /\ q["speculative"] = v
        /\ \A y \in PlanFields \ {"speculative"} : q[y] = p[y]
    BY <1>1, <1>2, ChangedOver
  <2>0. q = [p EXCEPT !.speculative = v]
    OBVIOUS
  <2> HIDE DEF q
  <2>2. q.layers = p.layers /\ q.speculative = v
    BY <1>1, <2>1
  <2>3. PlanShaped(q)
    BY <1>2, <1>3, <1>6, <2>1, <2>2
  <2> QED BY <2>0, <2>3
<1> QED
  BY <1>4, <1>5, <1>6

LEMMA ChangedLayers ==
  ASSUME NEW s, LayersShaped(s), NEW i, NEW v, Over(LayerFields, v)
  PROVE  LayersShaped([s EXCEPT ![i] = v])
<1> DEFINE q == [s EXCEPT ![i] = v]
<1>1. PICK n \in Nat : Over(1 .. n, s) /\ \A j \in 1 .. n : Over(LayerFields, s[j])
  BY DEF LayersShaped
<1>2. DOMAIN s = 1 .. n
  BY <1>1 DEF Over
<1>3. q = [j \in 1 .. n |-> IF j = i THEN v ELSE s[j]]
  BY <1>2
<1>4. Over(1 .. n, q)
  BY <1>3 DEF Over
<1>5. \A j \in 1 .. n : q[j] = v \/ q[j] = s[j]
  BY <1>3
<1> HIDE DEF q
<1>6. LayersShaped(q)
  BY <1>1, <1>4, <1>5 DEF LayersShaped
<1> QED BY <1>6 DEF q

(* Whichever field of a layer is overwritten, the layers keep their shape. *)
LEMMA ChangedLayerField ==
  ASSUME NEW s, LayersShaped(s), NEW i, NEW field \in LayerFields, NEW v
  PROVE  LayersShaped([s EXCEPT ![i][field] = v])
<1>1. PICK n \in Nat : Over(1 .. n, s) /\ \A j \in 1 .. n : Over(LayerFields, s[j])
  BY DEF LayersShaped
<1> DEFINE w == [s[i] EXCEPT ![field] = v]
           q == [s EXCEPT ![i] = w]
<1>2. q = [s EXCEPT ![i][field] = v]
  OBVIOUS
<1>3. DOMAIN s = 1 .. n
  BY <1>1 DEF Over
<1>4. CASE i \in 1 .. n
  <2>1. Over(LayerFields, w)
    BY <1>1, <1>4, ChangedOver
  <2> HIDE DEF w
  <2>2. LayersShaped(q)
    BY <2>1, ChangedLayers
  <2> QED BY <1>2, <2>2
<1>5. CASE i \notin 1 .. n
  <2> HIDE DEF w
  <2>1. q = [j \in 1 .. n |-> s[j]]
    BY <1>3, <1>5
  <2>2. q = s
    BY <1>1, <2>1 DEF Over
  <2> QED BY <1>2, <2>2
<1> QED BY <1>4, <1>5

LEMMA FewerLayers ==
  ASSUME NEW s, LayersShaped(s), DOMAIN s = 1 .. 45, NEW n \in 0 .. 45
  PROVE  LayersShaped(SubSeq(s, 1, n))
<1>1. \A j \in 1 .. 45 : Over(LayerFields, s[j])
  <2>1. PICK m \in Nat : Over(1 .. m, s) /\ \A j \in 1 .. m : Over(LayerFields, s[j])
    BY DEF LayersShaped
  <2>2. DOMAIN s = 1 .. m
    BY <2>1 DEF Over
  <2> QED BY <2>1, <2>2
<1>2. SubSeq(s, 1, n) = [j \in 1 .. n |-> s[j]]
  OBVIOUS
<1>3. Over(1 .. n, SubSeq(s, 1, n)) /\ \A j \in 1 .. n : SubSeq(s, 1, n)[j] = s[j]
  BY <1>2 DEF Over
<1>4. n \in Nat /\ \A j \in 1 .. n : Over(LayerFields, SubSeq(s, 1, n)[j])
  <2>1. ASSUME NEW j \in 1 .. n PROVE Over(LayerFields, SubSeq(s, 1, n)[j])
    <3>1. j \in 1 .. 45
      OBVIOUS
    <3>2. Over(LayerFields, s[j])
      BY <1>1, <3>1
    <3>3. SubSeq(s, 1, n)[j] = s[j]
      BY <1>3
    <3> QED BY <3>2, <3>3
  <2> QED BY <2>1
<1> QED BY <1>3, <1>4 DEF LayersShaped

LEMMA ChangedDraft ==
  ASSUME NEW s, DraftShaped(s), NEW v
  PROVE  /\ \A field \in DraftFields \ {"enabled"} : DraftShaped([s EXCEPT ![field] = v])
         /\ v \in BOOLEAN => DraftShaped([s EXCEPT !.enabled = v])
<1>1. "enabled" \in DraftFields
  BY DEF DraftFields
<1>2. ASSUME NEW field \in DraftFields \ {"enabled"}
      PROVE  DraftShaped([s EXCEPT ![field] = v])
  <2> DEFINE q == [s EXCEPT ![field] = v]
  <2>1. Over(DraftFields, q) /\ q["enabled"] = s["enabled"]
    BY <1>1, ChangedOver DEF DraftShaped
  <2> HIDE DEF q
  <2>2. DraftShaped(q)
    BY <2>1 DEF DraftShaped
  <2> QED BY <2>2 DEF q
<1>3. ASSUME v \in BOOLEAN PROVE DraftShaped([s EXCEPT !.enabled = v])
  <2> DEFINE q == [s EXCEPT !["enabled"] = v]
  <2>1. Over(DraftFields, q) /\ q["enabled"] = v
    BY <1>1, ChangedOver DEF DraftShaped
  <2>2. q = [s EXCEPT !.enabled = v]
    OBVIOUS
  <2> HIDE DEF q
  <2>3. DraftShaped(q)
    BY <1>3, <2>1 DEF DraftShaped
  <2> QED BY <2>2, <2>3
<1> QED BY <1>2, <1>3

LEMMA EditIsPlan ==
  ASSUME NEW p, PlanShaped(p), DOMAIN p.layers = 1 .. 45, NEW q \in OneEdit(p)
  PROVE  PlanShaped(q)
<1> DEFINE Numbers ==
             {"world_size", "hyper_connection_streams", "local_attention_heads",
              "local_kv_heads", "local_index_heads", "local_linear_attention_heads",
              "max_context_tokens", "max_inflight_sequences", "max_batched_tokens"}
           Words == {"mixer", "ffn", "persistent_state", "mixer_output_collective",
                     "ffn_output_collective"}
           Counts == {"proposal_tokens", "draft_tensor_parallel"}
           Names == {"draft_model", "draft_revision"}
           number(n, field) == [p EXCEPT ![field] = @ + n]
           layer(i, j) == [p EXCEPT !.layers[i] = LayerPlan(Model.layers[j])]
           word(i, field) == [p EXCEPT !.layers[i][field] = "none"]
           E1 == {number(n, field) : n \in {1, 2}, field \in Numbers}
           E2 == {layer(i, j) : i \in {1, 4, 5}, j \in {1, 4, 5}}
           E3 == {word(i, field) : i \in {1, 45}, field \in Words}
           E4 == {[p EXCEPT !.layers = SubSeq(@, 1, n)] : n \in {0, 44}}
           E5 == {[p EXCEPT !.speculative[field] = @ + 1] : field \in Counts}
           E6 == {[p EXCEPT !.speculative[field] = Text("other")] : field \in Names}
<1> USE DEF PlanShaped
<1>1. ASSUME NEW n \in {1, 2}, NEW field \in Numbers
      PROVE  PlanShaped(number(n, field))
  <2>1. field \in PlanFields \ {"layers", "speculative"}
    BY DEF PlanFields
  <2> HIDE DEF PlanShaped
  <2> QED BY <2>1, ChangedField
<1>2. ASSUME NEW i \in {1, 4, 5}, NEW j \in {1, 4, 5}
      PROVE  PlanShaped(layer(i, j))
  <2>1. Over(LayerFields, LayerPlan(Model.layers[j]))
    BY DEF Over, LayerFields, LayerPlan
  <2>2. LayersShaped([p.layers EXCEPT ![i] = LayerPlan(Model.layers[j])])
    BY <2>1, ChangedLayers
  <2> HIDE DEF PlanShaped
  <2> QED BY <2>2, ChangedField
<1>3. ASSUME NEW i \in {1, 45}, NEW field \in Words
      PROVE  PlanShaped(word(i, field))
  <2>1. field \in LayerFields
    BY DEF LayerFields
  <2>2. LayersShaped([p.layers EXCEPT ![i][field] = "none"])
    BY <2>1, ChangedLayerField
  <2> HIDE DEF PlanShaped
  <2> QED BY <2>2, ChangedField
<1>4. ASSUME NEW n \in {0, 44}, q = [p EXCEPT !.layers = SubSeq(@, 1, n)]
      PROVE  PlanShaped(q)
  <2>1. LayersShaped(SubSeq(p.layers, 1, n))
    BY FewerLayers
  <2> HIDE DEF PlanShaped
  <2> QED BY <1>4, <2>1, ChangedField
<1>5. ASSUME NEW field \in Counts,
             q = [p EXCEPT !.speculative[field] = @ + 1]
      PROVE  PlanShaped(q)
  <2>1. field \in DraftFields \ {"enabled"}
    BY DEF DraftFields
  <2>2. DraftShaped([p.speculative EXCEPT ![field] = @ + 1])
    BY <2>1, ChangedDraft
  <2> HIDE DEF PlanShaped
  <2> QED BY <1>5, <2>2, ChangedField
<1>6. ASSUME NEW field \in Names,
             q = [p EXCEPT !.speculative[field] = Text("other")]
      PROVE  PlanShaped(q)
  <2>1. field \in DraftFields \ {"enabled"}
    BY DEF DraftFields
  <2>2. DraftShaped([p.speculative EXCEPT ![field] = Text("other")])
    BY <2>1, ChangedDraft
  <2> HIDE DEF PlanShaped
  <2> QED BY <1>6, <2>2, ChangedField
<1>7. ASSUME q = [p EXCEPT !.speculative.enabled = ~@]
      PROVE  PlanShaped(q)
  <2>1. DraftShaped([p.speculative EXCEPT !.enabled = ~@])
    BY ChangedDraft
  <2> HIDE DEF PlanShaped
  <2> QED BY <1>7, <2>1, ChangedField
<1>8. ASSUME q = [p EXCEPT !.speculative = NoDraft]
      PROVE  PlanShaped(q)
  <2>1. DraftShaped(NoDraft)
    BY DEF DraftShaped, Over, DraftFields, NoDraft
  <2> HIDE DEF PlanShaped
  <2> QED BY <1>8, <2>1, ChangedField
<1>9. OneEdit(p) = E1 \cup E2 \cup E3 \cup E4 \cup E5 \cup E6
        \cup {[p EXCEPT !.speculative.enabled = ~@], [p EXCEPT !.speculative = NoDraft]}
  BY DEF OneEdit
<1> HIDE DEF PlanShaped, Numbers, Words, Counts, Names, number, layer, word
<1>10. q \in E1 => PlanShaped(q)
  BY <1>1
<1>11. q \in E2 => PlanShaped(q)
  BY <1>2
<1>12. q \in E3 => PlanShaped(q)
  BY <1>3
<1>13. q \in E4 => PlanShaped(q)
  BY <1>4, Zenon
<1>14. q \in E5 => PlanShaped(q)
  BY <1>5, Zenon
<1>15. q \in E6 => PlanShaped(q)
  BY <1>6, Zenon
<1> HIDE DEF E1, E2, E3, E4, E5, E6
<1>16. \/ q \in E1 \/ q \in E2 \/ q \in E3 \/ q \in E4 \/ q \in E5 \/ q \in E6
       \/ q = [p EXCEPT !.speculative.enabled = ~@]
       \/ q = [p EXCEPT !.speculative = NoDraft]
  BY <1>9, Zenon
<1> QED
  BY <1>7, <1>8, <1>10, <1>11, <1>12, <1>13, <1>14, <1>15, <1>16, Zenon

-----------------------------------------------------------------------------
(* What the deployment says where the contract has nothing to object to.   *)
LEMMA CleanContract ==
  ASSUME NEW d, ContractErrors(d, Model) = {}
  PROVE  /\ d.TP = 2 /\ d.NNODES = 2
         /\ d.MAX_MODEL_LEN \in 1 .. Model.max_position_embeddings
         /\ d.MAX_NUM_SEQS > 0 /\ d.MAX_NUM_BATCHED_TOKENS > 0
         /\ d.SPEC_METHOD = Text("dflash") => d.DFLASH_MODEL # Empty
<1> DEFINE hosts ==
             [tp |-> d.TP = 2, nodes |-> d.NNODES = 2,
              ips |-> Empty \notin {d.HEAD_IP, d.WORKER_IP} /\ d.HEAD_IP # d.WORKER_IP,
              interfaces |-> Empty \notin {d.HEAD_CX7_IF, d.WORKER_CX7_IF},
              rdma |-> Empty \notin {d.HEAD_CX7_IB, d.WORKER_CX7_IB},
              gids |-> /\ d.HEAD_GID = d.NCCL_IB_GID_INDEX
                       /\ d.WORKER_GID = d.NCCL_IB_GID_INDEX]
           formats ==
             [quantization |-> d.QUANTIZATION = Text("nvfp4"),
              kv_cache |-> d.KV_CACHE_DTYPE = Text("fp8"),
              model |-> {"GLM-5.3-Flash", "NVFP4"} \subseteq d.MODEL[2],
              exl3 |-> "EXL3" \notin d.MODEL[2],
              draft |-> d.SPEC_METHOD = Text("dflash") => d.DFLASH_MODEL # Empty,
              proposals |-> d.SPEC_METHOD = Text("dflash") => d.DFLASH_TOKENS > 0]
           length == d.MAX_MODEL_LEN \in 1 .. Model.max_position_embeddings
           sequences == d.MAX_NUM_SEQS > 0
           batch == d.MAX_NUM_BATCHED_TOKENS > 0
           memory == d.GPU_MEM_UTIL \in 1 .. 100
           ports == d.MASTER_PORT \in 1 .. 65535 /\ d.PORT \in 1 .. 65535
           limits == [length |-> length, sequences |-> sequences, batch |-> batch,
                      memory |-> memory, ports |-> ports]
<1>1. /\ HostErrors(d) = Failing(hosts)
      /\ FormatErrors(d) = Failing(formats)
      /\ LimitErrors(d, Model) = Failing(limits)
  <2>1. HostErrors(d) = Failing(hosts)
    BY DEF HostErrors
  <2>2. FormatErrors(d) = Failing(formats)
    BY DEF FormatErrors
  <2>3. LimitErrors(d, Model) = Failing(limits)
    BY DEF LimitErrors
  <2> HIDE DEF hosts, formats, limits
  <2> QED BY <2>1, <2>2, <2>3
<1> HIDE DEF length, sequences, batch, memory, ports
<1>2. /\ {"tp", "nodes"} \subseteq DOMAIN hosts
      /\ "draft" \in DOMAIN formats
      /\ {"length", "sequences", "batch"} \subseteq DOMAIN limits
  OBVIOUS
<1>3. (hosts.tp <=> d.TP = 2) /\ (hosts.nodes <=> d.NNODES = 2)
  OBVIOUS
<1>4. formats.draft <=> (d.SPEC_METHOD = Text("dflash") => d.DFLASH_MODEL # Empty)
  OBVIOUS
<1>5. limits.length = length /\ limits.sequences = sequences /\ limits.batch = batch
  OBVIOUS
<1> HIDE DEF hosts, formats, limits
<1>6. Failing(hosts) = {} /\ Failing(formats) = {} /\ Failing(limits) = {}
  BY <1>1 DEF ContractErrors
<1>7. /\ hosts.tp /\ hosts.nodes /\ formats.draft
      /\ limits.length /\ limits.sequences /\ limits.batch
  BY <1>2, <1>6, NothingFails
<1>8. length /\ sequences /\ batch
  BY <1>5, <1>7
<1> QED BY <1>3, <1>4, <1>7, <1>8 DEF length, sequences, batch

(* What it says where there is nothing to warn about.                      *)
LEMMA NoWarnings ==
  ASSUME NEW d, ContractWarnings(d) = {}
  PROVE  /\ d.SPEC_METHOD = Text("dflash")
         /\ d.SPEC_METHOD = Text("dflash") => d.DFLASH_TOKENS = 7
         /\ d.SPEC_METHOD = Text("dflash") => d.DFLASH_DRAFT_TP = 2
<1> DEFINE first ==
             [revision |-> d.MODEL_REVISION # Empty,
              method |-> d.SPEC_METHOD = Text("dflash"),
              draft_revision |-> d.SPEC_METHOD = Text("dflash") => d.DFLASH_REVISION # Empty,
              proposals |-> d.SPEC_METHOD = Text("dflash") => d.DFLASH_TOKENS = 7]
           draft_tp == d.SPEC_METHOD = Text("dflash") => d.DFLASH_DRAFT_TP = 2
           length == d.MAX_MODEL_LEN = 1000000
           sequences == d.MAX_NUM_SEQS = 1
           batch == d.MAX_NUM_BATCHED_TOKENS = 7168
           second == [draft_tp |-> draft_tp, length |-> length, sequences |-> sequences,
                      batch |-> batch]
<1>1. {"method", "proposals"} \subseteq DOMAIN first /\ "draft_tp" \in DOMAIN second
  OBVIOUS
<1>2. Failing(first) \cup Failing(second) \subseteq ContractWarnings(d)
  BY SMT DEF ContractWarnings, WarningsButDraftTp
<1> HIDE DEF draft_tp, length, sequences, batch
<1>3. /\ first.method <=> d.SPEC_METHOD = Text("dflash")
      /\ first.proposals <=> (d.SPEC_METHOD = Text("dflash") => d.DFLASH_TOKENS = 7)
  OBVIOUS
<1>4. second.draft_tp = draft_tp
  OBVIOUS
<1> HIDE DEF first, second
<1>5. Failing(first) = {} /\ Failing(second) = {}
  BY <1>2
<1>6. first.method /\ first.proposals /\ second.draft_tp
  BY <1>1, <1>5, NothingFails
<1>7. draft_tp
  BY <1>4, <1>6
<1> QED BY <1>3, <1>6, <1>7 DEF draft_tp

LEMMA RevisionIsKept == Deployment.DFLASH_REVISION = env["DFLASH_REVISION"]
<1> DEFINE k == "DFLASH_REVISION"
<1>1. k \in Keys
  BY DEF Keys, OptionalText
<1>2. /\ k \notin {"HEAD_GID", "WORKER_GID"}
      /\ k \notin RequiredNumber \cup {"DFLASH_TOKENS", "DFLASH_DRAFT_TP"}
      /\ k \notin Flags
  BY DEF RequiredNumber, Flags
<1> HIDE DEF k
<1>3. DeploymentFromEnv(env)[k] = env[k]
  BY <1>1, <1>2 DEF DeploymentFromEnv
<1> QED
  BY <1>3 DEF k, Deployment

-----------------------------------------------------------------------------
(* What is known of the deployment and of the plan at each point; the plan *)
(* between build and check is any record with a plan's fields.             *)
PlanInvariant ==
  /\ reached \in {"checked", "unbuildable"} => ContractErrors(Deployment, Model) = {}
  /\ reached = "unbuildable" => InputErrors(Model, Deployment) # {}
  /\ reached \in {"built", "accepted", "rejected"} =>
       InputErrors(Model, Deployment) = {} /\ PlanShaped(plan)
  /\ reached \in {"accepted", "rejected"} =>
       (reached = "accepted" <=> PlanErrors(plan, Model, Deployment) = {})

LEMMA PlanInvariantHolds == ProgramSpec => []PlanInvariant
<1>1. ProgramInit => PlanInvariant
  BY DEF ProgramInit, PlanInvariant
<1>2. PlanInvariant /\ [ProgramNext]_programVars => PlanInvariant'
  <2> SUFFICES ASSUME PlanInvariant, [ProgramNext]_programVars PROVE PlanInvariant'
    OBVIOUS
  <2>1. ASSUME UNCHANGED env PROVE Deployment' = Deployment
    BY <2>1 DEF Deployment
  <2>2. ASSUME UNCHANGED programVars PROVE PlanInvariant'
    BY <2>1, <2>2 DEF PlanInvariant, programVars
  <2>3. CASE ReadLine
    BY <2>3 DEF ReadLine, PlanInvariant
  <2>4. CASE ReadMalformed
    BY <2>4 DEF ReadMalformed, PlanInvariant
  <2>5. CASE EndOfFile
    BY <2>5 DEF EndOfFile, PlanInvariant
  <2>6. CASE CheckContract
    BY <2>1, <2>6 DEF CheckContract, PlanInvariant
  <2>7. CASE Build
    <3>1. reached = "checked" /\ Deployment' = Deployment
      BY <2>1, <2>7 DEF Build
    <3>2. CASE InputErrors(Model, Deployment) = {}
      <4>1. reached' = "built" /\ plan' = BuildPlan(Model, Deployment)
        BY <2>7, <3>2 DEF Build
      <4>2. PlanShaped(plan')
        BY <4>1, BuiltIsPlan
      <4> QED BY <3>1, <3>2, <4>1, <4>2 DEF PlanInvariant, PlanShaped
    <3>3. CASE InputErrors(Model, Deployment) # {}
      BY <2>7, <3>1, <3>3 DEF Build, PlanInvariant
    <3> QED BY <3>2, <3>3
  <2>8. CASE Edit
    <3>1. /\ reached = "built" /\ reached' = "built" /\ Deployment' = Deployment
          /\ plan = BuildPlan(Model, Deployment) /\ plan' \in OneEdit(plan)
      BY <2>1, <2>8 DEF Edit
    <3>2. DOMAIN plan.layers = 1 .. 45
      <4>1. Over(1 .. 45, plan.layers)
        BY <3>1, BuiltLayers
      <4> QED BY <4>1 DEF Over
    <3>3. PlanShaped(plan')
      BY <3>1, <3>2, EditIsPlan DEF PlanInvariant
    <3> QED BY <3>1, <3>3 DEF PlanInvariant, PlanShaped
  <2>9. CASE CheckPlan
    BY <2>1, <2>9 DEF CheckPlan, PlanInvariant
  <2>10. CASE ProgramRest
    BY <2>2, <2>10 DEF ProgramRest
  <2> QED
    BY <2>2, <2>3, <2>4, <2>5, <2>6, <2>7, <2>8, <2>9, <2>10 DEF ProgramNext
<1> QED
  BY <1>1, <1>2, PTL DEF ProgramSpec

(* Of all records with a plan's fields, the checker accepts exactly the    *)
(* one that would be built from the deployment.                            *)
THEOREM OnlyTheBuiltPlanPasses == ProgramSpec => []AcceptedIsBuilt
<1>1. PlanInvariant => AcceptedIsBuilt
  <2> SUFFICES ASSUME PlanInvariant, reached \in {"accepted", "rejected"}
               PROVE  reached = "accepted" <=> plan = BuildPlan(Model, Deployment)
    BY DEF AcceptedIsBuilt
  <2>1. InputErrors(Model, Deployment) = {} /\ PlanShaped(plan)
    BY DEF PlanInvariant
  <2>2. reached = "accepted" <=> PlanErrors(plan, Model, Deployment) = {}
    BY DEF PlanInvariant
  <2> QED
    BY <2>1, <2>2, BuiltIsAccepted, AcceptedIsTheBuilt
<1> QED
  BY <1>1, PlanInvariantHolds, PTL

(* Whoever is refused a plan by the input check was warned by the contract *)
(* check, or pinned the draft to something that is not a commit.           *)
THEOREM NoRefusalUnannounced == ProgramSpec => []RefusalWasAnnounced
<1>1. PlanInvariant => RefusalWasAnnounced
  <2> SUFFICES ASSUME PlanInvariant, reached = "unbuildable",
                      ContractWarnings(Deployment) = {},
                      env["DFLASH_REVISION"] = Text("40hex")
               PROVE  FALSE
    BY DEF RefusalWasAnnounced
  <2>1. ContractErrors(Deployment, Model) = {} /\ InputErrors(Model, Deployment) # {}
    BY DEF PlanInvariant
  <2>2. Deployment.DFLASH_REVISION = Text("40hex")
    BY RevisionIsKept
  <2> DEFINE d == Deployment
  <2>3. ContractErrors(d, Model) = {} /\ ContractWarnings(d) = {}
        /\ d.DFLASH_REVISION = Text("40hex") /\ InputErrors(Model, d) # {}
    BY <2>1, <2>2
  <2> HIDE DEF d
  <2>4. /\ d.TP = 2 /\ d.NNODES = 2
        /\ d.MAX_MODEL_LEN \in 1 .. Model.max_position_embeddings
        /\ d.MAX_NUM_SEQS > 0 /\ d.MAX_NUM_BATCHED_TOKENS > 0
        /\ d.SPEC_METHOD = Text("dflash") => d.DFLASH_MODEL # Empty
    BY <2>3, CleanContract
  <2>5. /\ d.SPEC_METHOD = Text("dflash")
        /\ d.DFLASH_TOKENS = 7 /\ d.DFLASH_DRAFT_TP = 2
    BY <2>3, NoWarnings
  <2>6. InputErrors(Model, d) = {}
    BY <2>3, <2>4, <2>5, AcceptableInputs
  <2> QED
    BY <2>3, <2>6
<1> QED
  BY <1>1, PlanInvariantHolds, PTL
================================================================================
