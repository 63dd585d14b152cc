---------------------------- MODULE SequenceLemmas ----------------------------
(***************************************************************************)
(* Facts about prefixes, concatenation and least elements that the proofs  *)
(* about the decoders rest on.                                             *)
(***************************************************************************)
EXTENDS Integers, Sequences, SequenceTheorems, WellFoundedInduction, TLAPS

(* A non-empty set of naturals has a least element. *)
LEMMA LeastNat ==
  ASSUME NEW T \in SUBSET Nat, T # {}
  PROVE  \E m \in T : \A k \in T : m <= k
<1>1. PICK x \in T : \A y \in T : ~(<<y, x>> \in OpToRel(<, Nat))
  BY NatLessThanWellFounded, WFMin
<1>2. \A y \in T : ~(y < x)
  BY <1>1 DEF OpToRel
<1> QED BY <1>2

(* Induction over the naturals, for sets. *)
LEMMA EveryNat ==
  ASSUME NEW T \in SUBSET Nat, 0 \in T, \A n \in T : n + 1 \in T
  PROVE  T = Nat
<1> SUFFICES ASSUME Nat \ T # {} PROVE FALSE
  OBVIOUS
<1>1. PICK m \in Nat \ T : \A k \in Nat \ T : m <= k
  BY LeastNat
<1>2. m - 1 \in T
  BY <1>1
<1> QED BY <1>2, <1>1

(* The values of a recursion that takes n steps from `start': a step is a  *)
(* function from value to value.                                           *)
StepFunctions(V, n) == [1 .. n -> [V -> V]]
IsRun(F, V, n, start, step) ==
  /\ F \in [0 .. n -> V] /\ F[0] = start
  /\ \A i \in 1 .. n : F[i] = step[i][F[i - 1]]

(* It has a value after every step, ...                                    *)
LEMMA RunExists ==
  ASSUME NEW V, NEW n \in Nat, NEW start \in V, NEW step \in StepFunctions(V, n)
  PROVE  \E F : IsRun(F, V, n, start, step)
<1> DEFINE Stages(m, f) ==
             /\ f \in [0 .. n -> V] /\ f[0] = start
             /\ \A i \in 1 .. n : i <= m => f[i] = step[i][f[i - 1]]
           Built == {m \in Nat : \E f : Stages(m, f)}
<1>1. 0 \in Built
  <2>1. Stages(0, [i \in 0 .. n |-> start])
    OBVIOUS
  <2> QED BY <2>1
<1>2. ASSUME NEW m \in Nat, m \in Built PROVE m + 1 \in Built
  <2>1. PICK F : Stages(m, F)
    BY <1>2
  <2> DEFINE G == [i \in 0 .. n |-> IF i = m + 1 THEN step[m + 1][F[m]] ELSE F[i]]
  <2>2. CASE m + 1 \in 1 .. n
    <3>1. step[m + 1][F[m]] \in V
      BY <2>1, <2>2 DEF StepFunctions
    <3>2. G \in [0 .. n -> V] /\ G[0] = start
      BY <2>1, <2>2, <3>1
    <3>3. ASSUME NEW i \in 1 .. n, i <= m + 1 PROVE G[i] = step[i][G[i - 1]]
      <4>1. i - 1 \in 0 .. n /\ i - 1 # m + 1 /\ G[i - 1] = F[i - 1]
        BY <3>3
      <4>2. CASE i = m + 1
        BY <4>1, <4>2
      <4>3. CASE i # m + 1
        BY <2>1, <3>3, <4>1, <4>3
      <4> QED BY <4>2, <4>3
    <3>4. Stages(m + 1, G)
      BY <3>2, <3>3
    <3>5. m + 1 \in Nat
      OBVIOUS
    <3> HIDE DEF Stages, G
    <3> QED BY <3>4, <3>5, Zenon
  <2>3. CASE ~(m + 1 \in 1 .. n)
    <3>1. Stages(m + 1, F)
      BY <2>1, <2>3
    <3> QED BY <3>1
  <2> QED BY <2>2, <2>3
<1>3. n \in Built
  <2> HIDE DEF Built
  <2>1. Built \in SUBSET Nat
    BY DEF Built
  <2> QED BY <1>1, <1>2, <2>1, EveryNat
<1> QED BY <1>3 DEF IsRun

(* ... and only one.                                                       *)
LEMMA RunIsUnique ==
  ASSUME NEW n \in Nat, NEW step, NEW F, NEW G, F[0] = G[0],
         \A i \in 1 .. n : F[i] = step[i][F[i - 1]] /\ G[i] = step[i][G[i - 1]]
  PROVE  \A i \in 0 .. n : F[i] = G[i]
<1> DEFINE Same == {i \in Nat : i \in 0 .. n => F[i] = G[i]}
<1>1. 0 \in Same
  OBVIOUS
<1>2. ASSUME NEW i \in Nat, i \in Same PROVE i + 1 \in Same
  <2> SUFFICES ASSUME i + 1 \in 1 .. n PROVE F[i + 1] = G[i + 1]
    OBVIOUS
  <2>1. F[i + 1] = step[i + 1][F[i]] /\ G[i + 1] = step[i + 1][G[i]]
    OBVIOUS
  <2>2. F[i] = G[i]
    BY <1>2
  <2> QED BY <2>1, <2>2
<1>3. Same = Nat
  <2> HIDE DEF Same
  <2>1. Same \in SUBSET Nat
    BY DEF Same
  <2> QED BY <1>1, <1>2, <2>1, EveryNat
<1> QED BY <1>3

(* The first n elements. *)
LEMMA TakeProperties ==
  ASSUME NEW S, NEW s \in Seq(S), NEW n \in 0..Len(s)
  PROVE  /\ SubSeq(s, 1, n) \in Seq(S)
         /\ Len(SubSeq(s, 1, n)) = n
         /\ \A i \in 1..n : SubSeq(s, 1, n)[i] = s[i]
<1>1. \A i \in 1..n : s[i] \in S
  BY ElementOfSeq
<1>2. /\ SubSeq(s, 1, n) \in Seq(S)
      /\ Len(SubSeq(s, 1, n)) = IF 1 <= n THEN n - 1 + 1 ELSE 0
      /\ \A i \in 1..(n - 1 + 1) : SubSeq(s, 1, n)[i] = s[1 + i - 1]
  BY <1>1, SubSeqProperties
<1> QED BY <1>2

(* A prefix of a concatenation that stays in the left part. *)
LEMMA TakeLeft ==
  ASSUME NEW S, NEW s \in Seq(S), NEW t \in Seq(S), NEW n \in 0..Len(s)
  PROVE  SubSeq(s \o t, 1, n) = SubSeq(s, 1, n)
<1>1. s \o t \in Seq(S) /\ Len(s \o t) = Len(s) + Len(t)
  BY ConcatProperties
<1>2. n \in 0..Len(s \o t)
  BY <1>1, LenProperties
<1>3. \A i \in 1..n : (s \o t)[i] = s[i]
  BY ConcatProperties, LenProperties
<1>4. /\ SubSeq(s \o t, 1, n) \in Seq(S) /\ Len(SubSeq(s \o t, 1, n)) = n
      /\ \A i \in 1..n : SubSeq(s \o t, 1, n)[i] = (s \o t)[i]
  BY <1>1, <1>2, TakeProperties
<1>5. /\ SubSeq(s, 1, n) \in Seq(S) /\ Len(SubSeq(s, 1, n)) = n
      /\ \A i \in 1..n : SubSeq(s, 1, n)[i] = s[i]
  BY TakeProperties
<1> QED BY <1>3, <1>4, <1>5, SeqEqual

(* A prefix of a concatenation that reaches into the right part. *)
LEMMA TakeRight ==
  ASSUME NEW S, NEW s \in Seq(S), NEW t \in Seq(S), NEW n \in 0..Len(t)
  PROVE  SubSeq(s \o t, 1, Len(s) + n) = s \o SubSeq(t, 1, n)
<1> DEFINE left == SubSeq(s \o t, 1, Len(s) + n)
           right == s \o SubSeq(t, 1, n)
<1>1. /\ s \o t \in Seq(S) /\ Len(s \o t) = Len(s) + Len(t)
      /\ Len(s) \in Nat /\ Len(t) \in Nat
  BY ConcatProperties, LenProperties
<1>2. Len(s) + n \in 0..Len(s \o t)
  BY <1>1
<1>3. left \in Seq(S) /\ Len(left) = Len(s) + n /\ \A i \in 1..(Len(s) + n) : left[i] = (s \o t)[i]
  BY <1>1, <1>2, TakeProperties
<1>4. /\ SubSeq(t, 1, n) \in Seq(S) /\ Len(SubSeq(t, 1, n)) = n
      /\ \A i \in 1..n : SubSeq(t, 1, n)[i] = t[i]
  BY TakeProperties
<1>5. /\ right \in Seq(S) /\ Len(right) = Len(s) + n
      /\ \A i \in 1..(Len(s) + n) : right[i] = IF i <= Len(s) THEN s[i] ELSE SubSeq(t, 1, n)[i - Len(s)]
  BY <1>4, ConcatProperties
<1>6. \A i \in 1..(Len(s) + n) : left[i] = right[i]
  <2> SUFFICES ASSUME NEW i \in 1..(Len(s) + n) PROVE left[i] = right[i]
    OBVIOUS
  <2>1. left[i] = IF i <= Len(s) THEN s[i] ELSE t[i - Len(s)]
    BY <1>1, <1>3, ConcatProperties
  <2>2. i > Len(s) => i - Len(s) \in 1..n
    BY <1>1
  <2> QED BY <1>1, <1>4, <1>5, <2>1, <2>2
<1> HIDE DEF left, right
<1>7. left = right
  BY <1>3, <1>5, <1>6, SeqEqual
<1> QED BY <1>7 DEF left, right

(* One more element of a prefix. *)
LEMMA TakeOneMore ==
  ASSUME NEW S, NEW s \in Seq(S), NEW n \in 0..(Len(s) - 1)
  PROVE  SubSeq(s, 1, n + 1) = Append(SubSeq(s, 1, n), s[n + 1])
<1>1. n \in 0..Len(s) /\ n + 1 \in 0..Len(s) /\ n + 1 \in 1..Len(s)
  BY LenProperties
<1>2. s[n + 1] \in S
  BY <1>1, ElementOfSeq
<1>3. /\ SubSeq(s, 1, n) \in Seq(S) /\ Len(SubSeq(s, 1, n)) = n
      /\ \A i \in 1..n : SubSeq(s, 1, n)[i] = s[i]
  BY <1>1, TakeProperties
<1>4. /\ SubSeq(s, 1, n + 1) \in Seq(S) /\ Len(SubSeq(s, 1, n + 1)) = n + 1
      /\ \A i \in 1..(n + 1) : SubSeq(s, 1, n + 1)[i] = s[i]
  BY <1>1, TakeProperties
<1>5. /\ Append(SubSeq(s, 1, n), s[n + 1]) \in Seq(S)
      /\ Len(Append(SubSeq(s, 1, n), s[n + 1])) = n + 1
      /\ \A i \in 1..n : Append(SubSeq(s, 1, n), s[n + 1])[i] = SubSeq(s, 1, n)[i]
      /\ Append(SubSeq(s, 1, n), s[n + 1])[n + 1] = s[n + 1]
  BY <1>2, <1>3, AppendProperties
<1>6. \A i \in 1..(n + 1) : SubSeq(s, 1, n + 1)[i] = Append(SubSeq(s, 1, n), s[n + 1])[i]
  BY <1>3, <1>4, <1>5
<1> QED BY <1>4, <1>5, <1>6, SeqEqual

(* Appending on the right of a concatenation. *)
LEMMA ConcatAppend ==
  ASSUME NEW S, NEW s \in Seq(S), NEW t \in Seq(S), NEW e \in S
  PROVE  s \o Append(t, e) = Append(s \o t, e)
<1>1. <<e>> \in Seq(S) /\ s \o t \in Seq(S)
  BY ConcatProperties
<1>2. s \o Append(t, e) = s \o (t \o <<e>>) /\ Append(s \o t, e) = (s \o t) \o <<e>>
  BY <1>1, AppendIsConcat
<1> QED BY <1>1, <1>2, ConcatAssociative

(* The head moves from the right part of a concatenation to the left. *)
LEMMA MoveHead ==
  ASSUME NEW S, NEW s \in Seq(S), NEW t \in Seq(S), t # << >>
  PROVE  /\ Append(s, Head(t)) \o Tail(t) = s \o t
         /\ Head(t) \in S /\ Tail(t) \in Seq(S)
<1>1. Head(t) \in S /\ Tail(t) \in Seq(S) /\ <<Head(t)>> \in Seq(S)
  BY HeadTailProperties
<1>2. t = <<Head(t)>> \o Tail(t)
  <2>1. /\ <<Head(t)>> \o Tail(t) \in Seq(S)
        /\ Len(<<Head(t)>> \o Tail(t)) = 1 + Len(Tail(t))
        /\ \A i \in 1..(1 + Len(Tail(t))) :
             (<<Head(t)>> \o Tail(t))[i] = IF i <= 1 THEN <<Head(t)>>[i] ELSE Tail(t)[i - 1]
    BY <1>1, ConcatProperties
  <2>2. Len(Tail(t)) = Len(t) - 1 /\ \A i \in 1..Len(Tail(t)) : Tail(t)[i] = t[i + 1]
    BY HeadTailProperties
  <2>3. Len(t) \in Nat \ {0} /\ Head(t) = t[1]
    BY EmptySeq
  <2>4. \A i \in 1..Len(t) : t[i] = (<<Head(t)>> \o Tail(t))[i]
    BY <2>1, <2>2, <2>3
  <2> QED BY <2>1, <2>2, <2>3, <2>4, SeqEqual
<1>3. Append(s, Head(t)) \o Tail(t) = s \o (<<Head(t)>> \o Tail(t))
  BY <1>1, AppendIsConcat, ConcatAssociative
<1> QED BY <1>1, <1>2, <1>3

(* A prefix of a prefix, and the whole. *)
LEMMA TakeTake ==
  ASSUME NEW S, NEW s \in Seq(S), NEW k \in 0..Len(s), NEW n \in 0..k
  PROVE  SubSeq(SubSeq(s, 1, k), 1, n) = SubSeq(s, 1, n)
<1> DEFINE u == SubSeq(s, 1, k)
<1>1. u \in Seq(S) /\ Len(u) = k /\ \A i \in 1..k : u[i] = s[i]
  BY TakeProperties
<1> HIDE DEF u
<1>2. n \in 0..Len(u) /\ n \in 0..Len(s)
  BY <1>1, LenProperties
<1>3. SubSeq(u, 1, n) \in Seq(S) /\ Len(SubSeq(u, 1, n)) = n /\ \A i \in 1..n : SubSeq(u, 1, n)[i] = u[i]
  BY <1>1, <1>2, TakeProperties
<1>4. SubSeq(s, 1, n) \in Seq(S) /\ Len(SubSeq(s, 1, n)) = n /\ \A i \in 1..n : SubSeq(s, 1, n)[i] = s[i]
  BY <1>2, TakeProperties
<1>5. \A i \in 1..n : u[i] = s[i]
  BY <1>1
<1>6. SubSeq(u, 1, n) = SubSeq(s, 1, n)
  BY <1>3, <1>4, <1>5, SeqEqual
<1> QED BY <1>6 DEF u

LEMMA TakeAll ==
  ASSUME NEW S, NEW s \in Seq(S)
  PROVE  SubSeq(s, 1, Len(s)) = s
<1>1. Len(s) \in 0..Len(s)
  BY LenProperties
<1> QED BY <1>1, TakeProperties, SeqEqual

(* A function on 1..n is a sequence of length n. *)
LEMMA FunctionIsSeq ==
  ASSUME NEW S, NEW n \in Nat, NEW d \in [1..n -> S]
  PROVE  d \in Seq(S) /\ Len(d) = n
<1>1. d \in Seq(S)
  BY SeqDef
<1>2. Len(d) \in Nat /\ 1..Len(d) = 1..n
  BY <1>1, LenProperties
<1>3. ~(Len(d) < n)
  <2>1. Len(d) < n => n \in 1..n /\ n \notin 1..Len(d)
    BY <1>2
  <2> QED BY <2>1, <1>2
<1>4. ~(n < Len(d))
  <2>1. n < Len(d) => Len(d) \in 1..Len(d) /\ Len(d) \notin 1..n
    BY <1>2
  <2> QED BY <2>1, <1>2
<1> QED BY <1>1, <1>2, <1>3, <1>4

(* Two sequences have a longest common prefix. *)
LEMMA LongestPrefixExists ==
  ASSUME NEW S, NEW s \in Seq(S), NEW t \in Seq(S)
  PROVE  \E m \in 0..Len(s) :
         /\ m <= Len(t)
         /\ \A i \in 1..m : s[i] = t[i]
         /\ m < Len(s) /\ m < Len(t) => s[m + 1] # t[m + 1]
<1> DEFINE T == {m \in 0..Len(s) : m = Len(s) \/ m = Len(t) \/ s[m + 1] # t[m + 1]}
<1>1. T \subseteq Nat /\ Len(s) \in T
  BY LenProperties
<1>2. PICK m \in T : \A k \in T : m <= k
  BY <1>1, LeastNat
<1>3. m \in 0..Len(s) /\ m <= Len(t)
  <2>1. CASE Len(t) \in 0..Len(s)
    BY <2>1, <1>2
  <2>2. CASE Len(t) > Len(s)
    BY <2>2, <1>2
  <2> QED BY <2>1, <2>2
<1>4. \A i \in 1..m : s[i] = t[i]
  <2> SUFFICES ASSUME NEW i \in 1..m, s[i] # t[i] PROVE FALSE
    OBVIOUS
  <2>1. i - 1 \in 0..Len(s) /\ (i - 1) + 1 = i /\ i - 1 < m
    BY <1>3
  <2>2. i - 1 \in T
    BY <2>1
  <2>3. m <= i - 1
    BY <2>2, <1>2
  <2> QED BY <2>1, <2>3, <1>3
<1>5. m < Len(s) /\ m < Len(t) => s[m + 1] # t[m + 1]
  BY <1>2
<1> QED BY <1>3, <1>4, <1>5
=============================================================================
