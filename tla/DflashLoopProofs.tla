--------------------------- MODULE DflashLoopProofs ---------------------------
(***************************************************************************)
(* Proofs that DFlash generation matches target-only generation, for every *)
(* checkpoint, draft, prompt, budget and proposal count, and that the loop *)
(* keeps the contract of both decoders.                                    *)
(***************************************************************************)
EXTENDS DflashInductive, TextModelLemmas, RankCommit

(* A draft is a list of K ids. *)
LEMMA DraftIsSeq ==
  ASSUME NEW d \in Drafts
  PROVE  d \in Seq(Token) /\ Len(d) = K
BY DflashAssumption, CommitAssumption, FunctionIsSeq DEF Drafts

(* What the longest common prefix is. *)
LEMMA CommonPrefixSpec ==
  ASSUME NEW s \in Seq(Token), NEW t \in Seq(Token)
  PROVE  LET m == CommonPrefix(s, t) IN
         /\ m \in 0..Len(s) /\ m <= Len(t)
         /\ \A i \in 1..m : s[i] = t[i]
         /\ m < Len(s) /\ m < Len(t) => s[m + 1] # t[m + 1]
BY LongestPrefixExists DEF CommonPrefix

(* The committed tokens are the target's, and all but the last of them     *)
(* were proposed.                                                          *)
LEMMA AcceptedSpec ==
  ASSUME NEW d \in Drafts, NEW t \in Seq(Token), Len(t) = K + 1
  PROVE  /\ Accepted(d, t) \in Seq(Token)
         /\ Len(Accepted(d, t)) \in 1..(K + 1)
         /\ \A i \in 1..Len(Accepted(d, t)) : Accepted(d, t)[i] = t[i]
         /\ \A i \in 1..(Len(Accepted(d, t)) - 1) : d[i] = Accepted(d, t)[i]
         /\ CommonPrefix(Accepted(d, t), d) = Len(Accepted(d, t)) - 1
<1> DEFINE m == CommonPrefix(d, t)
           c == Accepted(d, t)
<1>1. K \in Nat /\ d \in Seq(Token) /\ Len(d) = K
  BY DraftIsSeq, DflashAssumption, CommitAssumption
<1>2. /\ m \in 0..Len(d) /\ m <= Len(t)
      /\ \A i \in 1..m : d[i] = t[i]
      /\ m < Len(d) /\ m < Len(t) => d[m + 1] # t[m + 1]
  BY <1>1, CommonPrefixSpec
<1> HIDE DEF m
<1>3. m \in 0..K /\ m \in Nat /\ m <= K /\ m + 1 \in 1..Len(t)
  BY <1>1, <1>2
<1>3a. m < K => d[m + 1] # t[m + 1]
  BY <1>1, <1>2, <1>3
<1>4. t[m + 1] \in Token
  BY <1>3, ElementOfSeq
<1>5. /\ SubSeq(d, 1, m) \in Seq(Token) /\ Len(SubSeq(d, 1, m)) = m
      /\ \A i \in 1..m : SubSeq(d, 1, m)[i] = d[i]
  BY <1>1, <1>2, TakeProperties
<1>6. c = Append(SubSeq(d, 1, m), t[m + 1])
  BY DEF Accepted, m
<1> HIDE DEF c
<1>7. /\ c \in Seq(Token) /\ Len(c) = m + 1
      /\ \A i \in 1..m : c[i] = d[i]
      /\ c[m + 1] = t[m + 1]
  BY <1>4, <1>5, <1>6, AppendProperties
<1>8. \A i \in 1..(m + 1) : c[i] = t[i]
  BY <1>2, <1>3, <1>7
<1>9. CommonPrefix(c, d) = m
  <2> DEFINE n == CommonPrefix(c, d)
  <2>0. /\ n \in 0..Len(c) /\ n <= Len(d)
        /\ \A i \in 1..n : c[i] = d[i]
        /\ n < Len(c) /\ n < Len(d) => c[n + 1] # d[n + 1]
    BY <1>1, <1>7, CommonPrefixSpec
  <2> HIDE DEF n
  <2>1. n \in Nat /\ n <= m + 1 /\ n <= K
    BY <2>0, <1>1, <1>3, <1>7
  <2>2. ~(n < m)
    <3> SUFFICES ASSUME n < m PROVE FALSE
      OBVIOUS
    <3>1. n + 1 \in 1..m /\ n < Len(c) /\ n < Len(d)
      BY <1>1, <1>3, <1>7, <2>1
    <3> QED BY <3>1, <1>7, <2>0
  <2>3. n # m + 1
    <3> SUFFICES ASSUME n = m + 1 PROVE FALSE
      OBVIOUS
    <3>1. m < K /\ m + 1 \in 1..n
      BY <1>1, <1>3, <2>1
    <3>2. c[m + 1] = d[m + 1]
      BY <3>1, <2>0
    <3> QED BY <3>1, <3>2, <1>3a, <1>7
  <2>4. n = m
    BY <1>3, <2>1, <2>2, <2>3
  <2> QED BY <2>4 DEF n
<1>10. Len(c) \in 1..(K + 1) /\ Len(c) - 1 = m
  BY <1>1, <1>3, <1>7
<1>11. \A i \in 1..m : d[i] = c[i]
  BY <1>7
<1> QED
  BY <1>7, <1>8, <1>9, <1>10, <1>11 DEF c

-----------------------------------------------------------------------------
(* What a round keeps of the anchor and the accepted tokens: a prefix that *)
(* fits the budget, holds at least two tokens, and holds no stop token     *)
(* before its last one.                                                    *)
LEMMA CutSpec ==
  ASSUME NEW full \in Seq(Token), Len(full) >= 2, full[1] \notin Eos,
         NEW remaining \in Nat, remaining >= 2
  PROVE  \E n \in 2..Len(full) :
           /\ n <= remaining
           /\ CutAfterEos(Truncate(full, remaining)) = SubSeq(full, 1, n)
           /\ \A i \in 1..(n - 1) : full[i] \notin Eos
<1>1. Len(full) \in Nat
  BY LenProperties
<1>2. PICK k \in 2..Len(full) : k <= remaining /\ Truncate(full, remaining) = SubSeq(full, 1, k)
  <2>1. CASE Len(full) > remaining
    BY <1>1, <2>1 DEF Truncate
  <2>2. CASE ~(Len(full) > remaining)
    BY <1>1, <2>2, TakeAll DEF Truncate
  <2> QED BY <2>1, <2>2
<1> DEFINE cut == Truncate(full, remaining)
           Stops == {i \in 1..Len(cut) : cut[i] \in Eos}
<1>3. /\ cut \in Seq(Token) /\ Len(cut) = k
      /\ \A i \in 1..k : cut[i] = full[i]
      /\ k \in 0..Len(full)
  BY <1>1, <1>2, TakeProperties
<1>4. cut = SubSeq(full, 1, k)
  BY <1>2
<1> HIDE DEF cut
<1>5. CASE Stops = {}
  <2>1. CutAfterEos(cut) = cut
    BY <1>5 DEF CutAfterEos
  <2>2. \A i \in 1..(k - 1) : full[i] \notin Eos
    BY <1>3, <1>5
  <2> QED BY <1>2, <1>4, <2>1, <2>2 DEF cut
<1>6. CASE Stops # {}
  <2> DEFINE First(i) == cut[i] \in Eos /\ \A j \in 1..(i - 1) : cut[j] \notin Eos
             n == CHOOSE i \in 1..Len(cut) : First(i)
  <2>0. Stops \in SUBSET Nat
    BY <1>3
  <2>1. PICK x \in Stops : \A y \in Stops : x <= y
    <3> HIDE DEF Stops
    <3> QED BY <2>0, <1>6, LeastNat
  <2>2. x \in 1..k /\ x \in 1..Len(cut) /\ cut[x] \in Eos
    BY <1>3, <2>1
  <2>3. \A j \in 1..(x - 1) : cut[j] \notin Eos
    <3> SUFFICES ASSUME NEW j \in 1..(x - 1), cut[j] \in Eos PROVE FALSE
      OBVIOUS
    <3>1. j \in 1..Len(cut) /\ j < x
      BY <1>3, <2>2
    <3> QED BY <3>1, <2>1, <2>2
  <2>4. \E i \in 1..Len(cut) : First(i)
    BY <2>2, <2>3
  <2>5. n \in 1..Len(cut) /\ First(n)
    <3> HIDE DEF First
    <3> QED BY <2>4
  <2>6. CutAfterEos(cut) = SubSeq(cut, 1, n)
    BY <2>2 DEF CutAfterEos
  <2> HIDE DEF n
  <2>7. n \in 2..k
    <3>1. n # 1
      BY <1>2, <1>3, <2>5
    <3> QED BY <3>1, <1>3, <2>5
  <2>8. SubSeq(cut, 1, n) = SubSeq(full, 1, n)
    BY <1>3, <1>4, <2>7, TakeTake
  <2>9. \A i \in 1..(n - 1) : full[i] \notin Eos
    BY <1>3, <2>5, <2>7
  <2>10. n \in 2..Len(full) /\ n <= remaining
    BY <1>1, <1>2, <2>7
  <2> QED BY <2>6, <2>8, <2>9, <2>10 DEF cut
<1> QED BY <1>5, <1>6

(* The tokens of a round, as the code commits them, continue target-only   *)
(* generation: the accepted drafts are what the verify phase stepped, so   *)
(* its argmaxes are the target's predictions after exactly those tokens.   *)
LEMMA RoundSpec ==
  ASSUME TypeOK, MatchesTargetOnly, InVerify, pc = "verify", Len(posterior) = K + 1
  PROVE  LET round == Round(Accepted(proposals, posterior)) IN
         /\ round \in Seq(Token) /\ Len(round) >= 2
         /\ Len(tokens) + Len(round) <= budget
         /\ IsContinuation(weights, budget, tokens \o round)
<1> DEFINE c == Accepted(proposals, posterior)
           full == <<anchor>> \o c
           remaining == budget - Len(tokens)
           round == Round(c)
<1>1. /\ proposals \in Drafts /\ posterior \in Seq(Token) /\ tokens \in Seq(Token)
      /\ anchor \in Token /\ anchor \notin Eos /\ anchor = Greedy(weights, tokens)
      /\ budget \in Nat /\ Len(tokens) + 2 <= budget /\ Len(tokens) \in Nat
      /\ ~EndsEos(tokens)
      /\ \A i \in 1..Len(posterior) :
           posterior[i] = Greedy(weights, tokens \o SubSeq(VerifyPath, 1, i))
  BY DflashAssumption, LenProperties DEF TypeOK, InVerify
<1>2. /\ c \in Seq(Token) /\ Len(c) \in 1..(K + 1)
      /\ \A i \in 1..Len(c) : c[i] = posterior[i]
      /\ \A i \in 1..(Len(c) - 1) : proposals[i] = c[i]
  BY <1>1, AcceptedSpec
<1>3. K \in Nat /\ proposals \in Seq(Token) /\ Len(proposals) = K
  BY <1>1, DraftIsSeq, DflashAssumption, CommitAssumption
<1> HIDE DEF c
<1>4. /\ full \in Seq(Token) /\ Len(full) = Len(c) + 1 /\ full[1] = anchor
      /\ \A i \in 1..Len(c) : full[i + 1] = c[i]
  <2>1. <<anchor>> \in Seq(Token) /\ Len(<<anchor>>) = 1 /\ <<anchor>>[1] = anchor
    BY <1>1
  <2>2. /\ full \in Seq(Token) /\ Len(full) = 1 + Len(c)
        /\ \A i \in 1..(1 + Len(c)) : full[i] = IF i <= 1 THEN <<anchor>>[i] ELSE c[i - 1]
    BY <1>2, <2>1, ConcatProperties
  <2> QED BY <1>2, <1>3, <2>1, <2>2
<1>5. /\ VerifyPath \in Seq(Token) /\ Len(VerifyPath) = K + 1 /\ VerifyPath[1] = anchor
      /\ \A i \in 1..K : VerifyPath[i + 1] = proposals[i]
  <2>1. <<anchor>> \in Seq(Token) /\ Len(<<anchor>>) = 1 /\ <<anchor>>[1] = anchor
    BY <1>1
  <2>2. /\ VerifyPath \in Seq(Token) /\ Len(VerifyPath) = 1 + K
        /\ \A i \in 1..(1 + K) : VerifyPath[i] = IF i <= 1 THEN <<anchor>>[i] ELSE proposals[i - 1]
    BY <1>3, <2>1, ConcatProperties DEF VerifyPath
  <2> QED BY <1>3, <2>1, <2>2
<1> HIDE DEF full
<1>6. ASSUME NEW i \in 1..Len(c) PROVE SubSeq(VerifyPath, 1, i) = SubSeq(full, 1, i)
  <2>1. i \in 0..Len(VerifyPath) /\ i \in 0..Len(full)
    BY <1>2, <1>3, <1>4, <1>5, <1>6
  <2>2. \A j \in 1..i : VerifyPath[j] = full[j]
    <3> SUFFICES ASSUME NEW j \in 1..i PROVE VerifyPath[j] = full[j]
      OBVIOUS
    <3>1. CASE j = 1
      BY <3>1, <1>4, <1>5
    <3>2. CASE j # 1
      <4>1. j - 1 \in 1..(Len(c) - 1) /\ j - 1 \in 1..K /\ j - 1 \in 1..Len(c) /\ (j - 1) + 1 = j
        BY <3>2, <1>2, <1>3, <1>6
      <4>2. VerifyPath[(j - 1) + 1] = proposals[j - 1] /\ full[(j - 1) + 1] = c[j - 1]
        BY <4>1, <1>4, <1>5
      <4>3. proposals[j - 1] = c[j - 1]
        BY <4>1, <1>2
      <4> QED BY <4>1, <4>2, <4>3
    <3> QED BY <3>1, <3>2
  <2>3. /\ SubSeq(VerifyPath, 1, i) \in Seq(Token) /\ Len(SubSeq(VerifyPath, 1, i)) = i
        /\ \A j \in 1..i : SubSeq(VerifyPath, 1, i)[j] = VerifyPath[j]
    BY <1>5, <2>1, TakeProperties
  <2>4. /\ SubSeq(full, 1, i) \in Seq(Token) /\ Len(SubSeq(full, 1, i)) = i
        /\ \A j \in 1..i : SubSeq(full, 1, i)[j] = full[j]
    BY <1>4, <2>1, TakeProperties
  <2> QED BY <2>2, <2>3, <2>4, SeqEqual
<1>7. ASSUME NEW i \in 1..Len(full)
      PROVE  full[i] = Greedy(weights, tokens \o SubSeq(full, 1, i - 1))
  <2>1. CASE i = 1
    <3>1. 0 \in 0..Len(full) /\ i - 1 = 0
      BY <2>1, <1>2, <1>3, <1>4
    <3>2. SubSeq(full, 1, 0) \in Seq(Token) /\ Len(SubSeq(full, 1, 0)) = 0
      BY <3>1, <1>4, TakeProperties
    <3>3. SubSeq(full, 1, i - 1) = << >>
      BY <3>1, <3>2, EmptySeq
    <3>4. tokens \o SubSeq(full, 1, i - 1) = tokens
      BY <3>3, <1>1, ConcatEmptySeq
    <3> QED BY <2>1, <3>4, <1>1, <1>4
  <2>2. CASE i # 1
    <3> DEFINE j == i - 1
    <3>1. j \in 1..Len(c) /\ j \in 1..Len(posterior) /\ j + 1 = i
      BY <2>2, <1>2, <1>3, <1>4, <1>7
    <3> HIDE DEF j
    <3>2. full[i] = c[j] /\ c[j] = posterior[j]
      BY <3>1, <1>2, <1>4
    <3>3. posterior[j] = Greedy(weights, tokens \o SubSeq(VerifyPath, 1, j))
      BY <3>1, <1>1
    <3>4. SubSeq(VerifyPath, 1, j) = SubSeq(full, 1, j)
      BY <3>1, <1>6
    <3> QED BY <3>2, <3>3, <3>4 DEF j
  <2> QED BY <2>1, <2>2
<1>8. remaining \in Nat /\ remaining >= 2 /\ Len(full) >= 2 /\ Len(full) \in Nat /\ full[1] \notin Eos
  BY <1>1, <1>2, <1>3, <1>4
<1> HIDE DEF remaining
<1>9. PICK n \in 2..Len(full) :
        /\ n <= remaining
        /\ CutAfterEos(Truncate(full, remaining)) = SubSeq(full, 1, n)
        /\ \A i \in 1..(n - 1) : full[i] \notin Eos
  BY <1>4, <1>8, CutSpec
<1>10. round = SubSeq(full, 1, n)
  BY <1>9 DEF Round, full, remaining
<1> HIDE DEF round
<1>11. n \in 0..Len(full)
  BY <1>8, <1>9
<1>12. round \in Seq(Token) /\ Len(round) = n /\ \A i \in 1..n : round[i] = full[i]
  BY <1>4, <1>10, <1>11, TakeProperties
<1>13. Len(tokens) + Len(round) <= budget /\ Len(round) >= 2
  BY <1>1, <1>8, <1>9, <1>12 DEF remaining
<1>14. ASSUME NEW i \in 1..Len(round)
       PROVE  round[i] = Greedy(weights, tokens \o SubSeq(round, 1, i - 1))
  <2>1. i \in 1..Len(full) /\ i - 1 \in 0..n /\ i \in 1..n
    BY <1>8, <1>9, <1>12, <1>14
  <2>2. SubSeq(round, 1, i - 1) = SubSeq(full, 1, i - 1)
    BY <2>1, <1>4, <1>10, <1>11, TakeTake
  <2> QED BY <2>1, <2>2, <1>7, <1>12
<1>15. \A i \in 1..(Len(round) - 1) : round[i] \notin Eos
  BY <1>9, <1>12
<1>16. IsContinuation(weights, budget, tokens)
  BY DEF MatchesTargetOnly
<1>17. IsContinuation(weights, budget, tokens \o round)
  BY <1>1, <1>12, <1>13, <1>14, <1>15, <1>16, ContinuationExtends
<1> QED BY <1>12, <1>13, <1>17 DEF round, c

-----------------------------------------------------------------------------
(* The inductive invariant holds at the start ...                          *)
LEMMA InductiveInit == Init => Inductive
<1> SUFFICES ASSUME Init PROVE Inductive
  OBVIOUS
<1>1. << >> \in Seq(Token) /\ Len(<< >>) = 0
  BY EmptySeq
<1>2. NoSnapshot \in [kda : Seq(Token), mla : Seq(Token), seen : Nat]
  BY <1>1 DEF NoSnapshot, Save, Fresh
<1>3. TypeOK
  BY <1>1, <1>2, FreshType, TextModelAssumption DEF Init, TypeOK
<1>4. MatchesTargetOnly
  <2>1. budget \in Nat
    BY DflashAssumption DEF Init
  <2> QED BY <1>1, <2>1 DEF Init, MatchesTargetOnly, IsContinuation
<1>5. InPrime
  BY DEF Init, InPrime
<1> QED
  BY <1>3, <1>4, <1>5
  DEF Init, Inductive, CachesFollowOutput, ArgmaxReadsLiveState, FinishIsTruthful,
      InPrompt, AtTop, InVerify, InMaterialize

(* ... and is preserved by every step, one lemma for each kind of call.    *)
LEMMA PrimeStep ==
  ASSUME Inductive, PrimeCaptureKda PROVE Inductive'
<1>1. pc = "prime" /\ pc' = "prompt" /\ model = Fresh /\ model' = Prime(model)
  BY DEF Inductive, InPrime, PrimeCaptureKda
<1>2. UNCHANGED <<input, output, scratch>>
  BY DEF PrimeCaptureKda
<1>6. /\ model' \in TextModels /\ Lockstep(model')
      /\ model'.mla = << >> /\ model'.taps = << >>
  BY <1>1, PrimeFresh
<1>7. TypeOK'
  BY <1>1, <1>2, <1>6 DEF Inductive, TypeOK, input, output, scratch
<1>8. MatchesTargetOnly'
  BY <1>2 DEF Inductive, MatchesTargetOnly, input, output
<1>9. InPrompt'
  <2>1. Lockstep(model)' /\ Len(<< >>) = 0
    BY <1>6, EmptySeq DEF Lockstep
  <2>2. Len(Prompt) \in Nat /\ Len(Prompt) > 0
    BY TextModelAssumption, EmptySeq, LenProperties
  <2>3. SubSeq(Prompt, 1, 0) = << >>
    BY TextModelAssumption, <2>2, TakeProperties, EmptySeq
  <2> QED BY <1>1, <1>2, <1>6, <2>1, <2>2, <2>3 DEF InPrompt, Inductive, InPrime, output
<1> QED
  BY <1>1, <1>7, <1>8, <1>9
  DEF Inductive, CachesFollowOutput, ArgmaxReadsLiveState, FinishIsTruthful,
      InPrime, AtTop, InVerify, InMaterialize

LEMMA PromptStep ==
  ASSUME Inductive, StepPrompt PROVE Inductive'
<1> DEFINE at == Len(model.mla) + 1
           n == Len(model.mla)
<1>1. /\ pc = "prompt" /\ model' = Step(model, Prompt[at], TRUE)
      /\ pc' = IF at = Len(Prompt) THEN "top" ELSE "prompt"
      /\ UNCHANGED <<input, output, scratch>>
  BY DEF StepPrompt
<1>2. /\ model \in TextModels /\ Lockstep(model)
      /\ n < Len(Prompt) /\ model.mla = SubSeq(Prompt, 1, n) /\ model.taps = model.mla
      /\ tokens = << >> /\ materialized = << >>
  BY <1>1 DEF Inductive, TypeOK, InPrompt
<1>3. Prompt \in Seq(Token) /\ Len(Prompt) \in Nat /\ n \in Nat /\ model.mla \in Seq(Token)
  BY <1>2, TextModelAssumption, LenProperties DEF TextModels
<1>4. n \in 0..(Len(Prompt) - 1) /\ at \in 1..Len(Prompt)
  BY <1>2, <1>3
<1>5. Prompt[at] \in Token
  BY <1>3, <1>4, ElementOfSeq
<1>6. /\ model' \in TextModels /\ Lockstep(model') /\ model'.final = CachesOf(model')
      /\ model'.mla = Append(model.mla, Prompt[at])
      /\ model'.taps = Append(model.taps, Prompt[at])
  BY <1>1, <1>2, <1>5, StepType, StepLockstep
<1>7. model'.mla = SubSeq(Prompt, 1, at) /\ model'.taps = model'.mla /\ Len(model'.mla) = at
  <2>1. SubSeq(Prompt, 1, n + 1) = Append(SubSeq(Prompt, 1, n), Prompt[n + 1])
    BY <1>3, <1>4, TakeOneMore
  <2>2. Len(SubSeq(Prompt, 1, at)) = at
    BY <1>3, <1>4, TakeProperties
  <2> QED BY <1>2, <1>6, <2>1, <2>2
<1> HIDE DEF at
<1>8. TypeOK'
  BY <1>1, <1>6 DEF Inductive, TypeOK, input, output, scratch
<1>9. MatchesTargetOnly'
  BY <1>1 DEF Inductive, MatchesTargetOnly, input, output
<1>10. tokens' = << >> /\ materialized' = << >> /\ budget' = budget /\ budget \in Nat
  BY <1>1, <1>2, DflashAssumption DEF input, output, Inductive, TypeOK
<1>11. CASE at = Len(Prompt)
  <2>1. pc' = "top" /\ model'.mla = Prompt
    BY <1>1, <1>3, <1>7, <1>11, TakeAll
  <2>2. AtTop'
    BY <1>10, EmptySeq DEF AtTop, EndsEos
  <2>3. CachesFollowOutput' /\ ArgmaxReadsLiveState'
    <3>1. Prompt \o << >> = Prompt
      BY <1>3, ConcatEmptySeq
    <3> QED BY <1>6, <1>7, <1>10, <2>1, <3>1
        DEF CachesFollowOutput, ArgmaxReadsLiveState, HoldsExactly, Lockstep
  <2> QED
    BY <1>8, <1>9, <2>1, <2>2, <2>3
    DEF Inductive, FinishIsTruthful, InPrime, InPrompt, InVerify, InMaterialize
<1>12. CASE at # Len(Prompt)
  <2>1. pc' = "prompt"
    BY <1>1, <1>12
  <2>2. InPrompt'
    BY <1>3, <1>4, <1>6, <1>7, <1>10, <1>12 DEF InPrompt, Lockstep
  <2> QED
    BY <1>8, <1>9, <2>1, <2>2
    DEF Inductive, CachesFollowOutput, ArgmaxReadsLiveState, FinishIsTruthful,
        InPrime, AtTop, InVerify, InMaterialize
<1> QED BY <1>11, <1>12

(* At the top of the loop argmax() is target-only generation's next token. *)
LEMMA TopArgmax ==
  ASSUME Inductive, pc = "top"
  PROVE  /\ Argmax(weights, model) = Greedy(weights, tokens)
         /\ Argmax(weights, model) \in Token
<1>1. Lockstep(model) /\ model.final = CachesOf(model) /\ model.mla = Prompt \o tokens
  BY DEF Inductive, CachesFollowOutput, ArgmaxReadsLiveState, HoldsExactly, Lockstep
<1> QED BY <1>1, ArgmaxIsGreedy, ArgmaxType

LEMMA ExitStep ==
  ASSUME Inductive, ExitLoop PROVE Inductive'
<1>1. /\ pc = "top" /\ pc' = "done" /\ Len(tokens) >= budget
      /\ UNCHANGED <<input, model, output, scratch>>
  BY DEF ExitLoop
<1>2. tokens \in Seq(Token) /\ Len(tokens) \in Nat /\ budget \in Nat
  BY DflashAssumption, LenProperties DEF Inductive, TypeOK
<1>3. budget = 0 /\ tokens = << >> /\ materialized = tokens
  BY <1>1, <1>2 DEF Inductive, AtTop
<1>4. AllButLast(tokens) = tokens
  BY <1>3, AllButLastEmpty
<1>5. TypeOK' /\ MatchesTargetOnly' /\ FinishIsTruthful'
  BY <1>1, <1>3 DEF Inductive, TypeOK, MatchesTargetOnly, FinishIsTruthful, input, output, scratch
<1>6. CachesFollowOutput'
  <2>1. HoldsExactly(tokens) /\ model.taps = Prompt
    BY <1>1 DEF Inductive, CachesFollowOutput
  <2>2. HoldsExactly(tokens)' /\ AllButLast(tokens)' = tokens'
    BY <1>1, <1>4, <2>1 DEF HoldsExactly, AllButLast, output
  <2>3. HoldsExactly(AllButLast(tokens))'
    BY <2>2 DEF HoldsExactly
  <2>4. (model.taps = Prompt)' /\ (materialized = tokens)'
    BY <1>1, <1>3, <2>1 DEF output
  <2> QED BY <1>1, <2>2, <2>3, <2>4 DEF CachesFollowOutput, HoldsExactly
<1> QED
  BY <1>1, <1>5, <1>6
  DEF Inductive, ArgmaxReadsLiveState, InPrime, InPrompt, AtTop, InVerify, InMaterialize

LEMMA EmitAnchorStep ==
  ASSUME Inductive, StopAtEos \/ StopAtBudget PROVE Inductive'
<1>1. /\ pc = "top" /\ Len(tokens) < budget /\ pc' = "done"
      /\ anchor' = Argmax(weights, model)
      /\ tokens' = Append(tokens, anchor')
      /\ UNCHANGED <<input, model, proposals, snapshot, posterior, pending,
                     materialized, accepted, rounds>>
      /\ \/ finish' = "eos" /\ anchor' \in Eos
         \/ finish' = "budget" /\ anchor' \notin Eos /\ Len(tokens) + 1 = budget
  BY DEF StopAtEos, StopAtBudget, EmitAnchor
<1>2. tokens \in Seq(Token) /\ Len(tokens) \in Nat /\ budget \in Nat
  BY DflashAssumption, LenProperties DEF Inductive, TypeOK
<1>3. anchor' = Greedy(weights, tokens) /\ anchor' \in Token
  BY <1>1, TopArgmax
<1>4. ~EndsEos(tokens) /\ IsContinuation(weights, budget, tokens) /\ materialized = tokens
  BY <1>1 DEF Inductive, AtTop, MatchesTargetOnly
<1>5. /\ tokens' \in Seq(Token) /\ Len(tokens') = Len(tokens) + 1
      /\ tokens'[Len(tokens')] = anchor' /\ AllButLast(tokens') = tokens
  BY <1>1, <1>2, <1>3, AllButLastAppend
<1>6. TypeOK'
  BY <1>1, <1>3, <1>5 DEF Inductive, TypeOK, input
<1>7. MatchesTargetOnly'
  <2>1. IsContinuation(weights, budget, Append(tokens, anchor'))
    BY <1>1, <1>2, <1>3, <1>4, AppendContinues
  <2> QED BY <1>1, <2>1 DEF MatchesTargetOnly, input
<1>8. FinishIsTruthful'
  <2>1. tokens' # << >>
    BY <1>2, <1>5, EmptySeq
  <2>2. EndsEos(tokens') <=> anchor' \in Eos
    BY <1>5, <2>1 DEF EndsEos
  <2> QED BY <1>1, <1>5, <2>2 DEF FinishIsTruthful, input, EndsEos
<1>9. CachesFollowOutput'
  <2>1. HoldsExactly(tokens) /\ model.taps = Prompt
    BY <1>1 DEF Inductive, CachesFollowOutput
  <2>2. AllButLast(tokens)' = tokens
    BY <1>5 DEF AllButLast
  <2>3. HoldsExactly(AllButLast(tokens))'
    BY <1>1, <2>1, <2>2 DEF HoldsExactly
  <2>4. (model.taps = Prompt)' /\ (materialized = AllButLast(tokens))'
    BY <1>1, <1>4, <2>1, <2>2
  <2> QED BY <1>1, <2>3, <2>4 DEF CachesFollowOutput, HoldsExactly
<1> QED
  BY <1>1, <1>6, <1>7, <1>8, <1>9
  DEF Inductive, ArgmaxReadsLiveState, InPrime, InPrompt, AtTop, InVerify, InMaterialize

(* Opening a round: the saved caches cover exactly the emitted tokens.     *)
LEMMA ProposeStep ==
  ASSUME Inductive, Propose PROVE Inductive'
<1>1. /\ pc = "top" /\ Len(tokens) < budget /\ pc' = "verify"
      /\ anchor' = Argmax(weights, model) /\ anchor' \notin Eos
      /\ Len(tokens) + 1 # budget
      /\ proposals' \in Drafts /\ snapshot' = Save(model) /\ posterior' = << >>
      /\ UNCHANGED <<input, model, output, pending>>
  BY DEF Propose
<1>2. /\ tokens \in Seq(Token) /\ Len(tokens) \in Nat /\ budget \in Nat
      /\ model \in TextModels /\ Prompt \in Seq(Token)
  BY DflashAssumption, TextModelAssumption, LenProperties DEF Inductive, TypeOK
<1>3. anchor' = Greedy(weights, tokens) /\ anchor' \in Token
  BY <1>1, TopArgmax
<1>4. ~EndsEos(tokens) /\ HoldsExactly(tokens) /\ model.taps = Prompt /\ materialized = tokens
  BY <1>1 DEF Inductive, AtTop, CachesFollowOutput
<1>5. TypeOK'
  <2>1. << >> \in Seq(Token)
    BY EmptySeq
  <2>2. Save(model) \in [kda : Seq(Token), mla : Seq(Token), seen : Nat]
    BY <1>2 DEF Save, TextModels
  <2> QED BY <1>1, <1>3, <2>1, <2>2 DEF Inductive, TypeOK, input, output
<1>6. MatchesTargetOnly'
  BY <1>1 DEF Inductive, MatchesTargetOnly, input, output
<1>7. CachesFollowOutput'
  BY <1>1, <1>4 DEF CachesFollowOutput, HoldsExactly, output
<1>8. InVerify'
  <2>1. snapshot'.mla = Prompt \o tokens /\ Lockstep(snapshot)'
    BY <1>1, <1>4 DEF Save, HoldsExactly, Lockstep
  <2>2. Len(posterior') = 0 /\ K \in Nat
    BY <1>1, EmptySeq, DflashAssumption, CommitAssumption
  <2>3. SubSeq(VerifyPath, 1, Len(posterior))' = << >>
    <3>1. proposals' \in Seq(Token) /\ <<anchor'>> \in Seq(Token)
      BY <1>1, <1>3, DraftIsSeq
    <3>2. VerifyPath' \in Seq(Token)
      BY <3>1, ConcatProperties DEF VerifyPath
    <3>3. 0 \in 0..Len(VerifyPath')
      BY <3>2, LenProperties
    <3>4. SubSeq(VerifyPath', 1, 0) = << >>
      BY <3>2, <3>3, TakeProperties, EmptySeq
    <3> QED BY <2>2, <3>4
  <2>4. (model.mla = Prompt \o (tokens \o SubSeq(VerifyPath, 1, Len(posterior))))'
    <3>1. tokens \o << >> = tokens
      BY <1>2, ConcatEmptySeq
    <3> QED BY <1>1, <1>4, <2>3, <3>1 DEF HoldsExactly, output
  <2>5. Len(tokens) + 2 <= budget
    BY <1>1, <1>2
  <2>6. (~EndsEos(tokens) /\ Len(tokens) + 2 <= budget /\ materialized = tokens)'
    BY <1>1, <1>4, <2>5 DEF output, input, EndsEos
  <2>7. anchor' = Greedy(weights, tokens)' /\ anchor' \notin Eos
    BY <1>1, <1>3 DEF input, output, Greedy
  <2>8. \A i \in 1..Len(posterior') : FALSE
    BY <2>2
  <2>9. Len(posterior') <= K + 1
    BY <2>2
  <2>10. snapshot'.mla = Prompt \o tokens'
    BY <1>1, <2>1 DEF output
  <2> QED BY <1>1, <2>1, <2>4, <2>6, <2>7, <2>8, <2>9, <2>10 DEF InVerify
<1> QED
  BY <1>1, <1>5, <1>6, <1>7, <1>8
  DEF Inductive, ArgmaxReadsLiveState, FinishIsTruthful, InPrime, InPrompt, AtTop, InMaterialize

(* A verify step: the caches follow the speculative path and its argmax is *)
(* the target's prediction along it.                                       *)
LEMMA VerifyStepStep ==
  ASSUME Inductive, VerifyStep PROVE Inductive'
<1> DEFINE n == Len(posterior)
           next == VerifyPath[n + 1]
<1>1. /\ pc = "verify" /\ n <= K
      /\ model' = Step(model, next, FALSE)
      /\ posterior' = Append(posterior, Argmax(weights, model'))
      /\ UNCHANGED <<input, pc, output, anchor, proposals, snapshot, pending>>
  BY DEF VerifyStep
<1>2. InVerify /\ pc = "verify"
  BY <1>1 DEF Inductive
<1>3. /\ model \in TextModels /\ posterior \in Seq(Token) /\ tokens \in Seq(Token)
      /\ anchor \in Token /\ Prompt \in Seq(Token) /\ n \in Nat
      /\ K \in Nat /\ proposals \in Seq(Token) /\ Len(proposals) = K
  BY <1>2, DraftIsSeq, DflashAssumption, CommitAssumption, TextModelAssumption, LenProperties
  DEF Inductive, TypeOK, InVerify
<1>4. VerifyPath \in Seq(Token) /\ Len(VerifyPath) = K + 1
  <2>1. <<anchor>> \in Seq(Token) /\ Len(<<anchor>>) = 1
    BY <1>3
  <2>2. VerifyPath \in Seq(Token) /\ Len(VerifyPath) = 1 + K
    BY <1>3, <2>1, ConcatProperties DEF VerifyPath
  <2> QED BY <1>3, <2>2
<1>5. n \in 0..(Len(VerifyPath) - 1) /\ n + 1 \in 1..Len(VerifyPath)
  BY <1>1, <1>3, <1>4
<1>6. next \in Token
  BY <1>4, <1>5, ElementOfSeq
<1>7. Lockstep(model) /\ model.taps = Prompt
  BY <1>1 DEF Inductive, CachesFollowOutput, Lockstep
<1>8. /\ model' \in TextModels /\ Lockstep(model') /\ model'.final = CachesOf(model')
      /\ model'.mla = Append(model.mla, next) /\ model'.taps = Prompt
  BY <1>1, <1>3, <1>6, <1>7, StepType, StepLockstep
<1>9. Argmax(weights, model') \in Token
  BY ArgmaxType
<1>10. /\ posterior' \in Seq(Token) /\ Len(posterior') = n + 1
       /\ \A i \in 1..n : posterior'[i] = posterior[i]
       /\ posterior'[n + 1] = Argmax(weights, model')
  <2> DEFINE e == Argmax(weights, model')
  <2>1. e \in Token /\ posterior' = Append(posterior, e)
    BY <1>1, <1>9
  <2> HIDE DEF e
  <2>2. /\ Append(posterior, e) \in Seq(Token) /\ Len(Append(posterior, e)) = n + 1
        /\ \A i \in 1..n : Append(posterior, e)[i] = posterior[i]
        /\ Append(posterior, e)[n + 1] = e
    BY <1>3, <2>1, AppendProperties
  <2> QED BY <2>1, <2>2 DEF e
<1>11. model'.mla = Prompt \o (tokens \o SubSeq(VerifyPath, 1, n + 1))
  <2> DEFINE path == SubSeq(VerifyPath, 1, n)
  <2>1. path \in Seq(Token) /\ n \in 0..Len(VerifyPath)
    BY <1>3, <1>4, <1>5, TakeProperties
  <2>2. SubSeq(VerifyPath, 1, n + 1) = Append(path, next)
    BY <1>4, <1>5, TakeOneMore
  <2>3. model.mla = Prompt \o (tokens \o path)
    BY <1>2 DEF InVerify
  <2> HIDE DEF path, next
  <2>4. tokens \o Append(path, next) = Append(tokens \o path, next)
    BY <1>3, <1>6, <2>1, ConcatAppend
  <2>5. tokens \o path \in Seq(Token)
    BY <1>3, <2>1, ConcatProperties
  <2>6. Prompt \o Append(tokens \o path, next) = Append(Prompt \o (tokens \o path), next)
    BY <1>3, <1>6, <2>5, ConcatAppend
  <2> QED BY <1>8, <2>2, <2>3, <2>4, <2>6
<1> HIDE DEF next
<1>12. posterior'[n + 1] = Greedy(weights, tokens \o SubSeq(VerifyPath, 1, n + 1))
  BY <1>8, <1>10, <1>11, ArgmaxIsGreedy
<1>13. InVerify'
  <2>1. VerifyPath' = VerifyPath /\ tokens' = tokens /\ weights' = weights /\ budget' = budget
    BY <1>1 DEF VerifyPath, output, input
  <2>2. \A i \in 1..(n + 1) : posterior'[i] = Greedy(weights, tokens \o SubSeq(VerifyPath, 1, i))
    <3> SUFFICES ASSUME NEW i \in 1..(n + 1)
                 PROVE  posterior'[i] = Greedy(weights, tokens \o SubSeq(VerifyPath, 1, i))
      OBVIOUS
    <3>1. CASE i = n + 1
      BY <3>1, <1>12
    <3>2. CASE i # n + 1
      <4>1. i \in 1..n
        BY <3>2, <1>3
      <4> QED BY <4>1, <1>2, <1>10 DEF InVerify
    <3> QED BY <3>1, <3>2
  <2>3. (\A i \in 1..Len(posterior) :
           posterior[i] = Greedy(weights, tokens \o SubSeq(VerifyPath, 1, i)))'
    BY <2>1, <2>2, <1>10 DEF Greedy
  <2>4. (model.mla = Prompt \o (tokens \o SubSeq(VerifyPath, 1, Len(posterior))))'
    BY <2>1, <1>10, <1>11
  <2>5. Len(posterior') <= K + 1
    BY <1>1, <1>3, <1>10
  <2>6. (/\ proposals \in Drafts
         /\ ~EndsEos(tokens) /\ Len(tokens) + 2 <= budget /\ materialized = tokens
         /\ anchor \notin Eos /\ anchor = Greedy(weights, tokens)
         /\ snapshot.mla = Prompt \o tokens /\ Lockstep(snapshot))'
    BY <1>1, <1>2, <2>1 DEF InVerify, output, EndsEos, Greedy, Lockstep
  <2> QED BY <2>3, <2>4, <2>5, <2>6 DEF InVerify
<1>14. TypeOK'
  BY <1>1, <1>8, <1>10 DEF Inductive, TypeOK, input, output
<1>15. MatchesTargetOnly'
  BY <1>1 DEF Inductive, MatchesTargetOnly, input, output
<1>16. CachesFollowOutput'
  BY <1>1, <1>8 DEF CachesFollowOutput, Lockstep
<1> QED
  BY <1>1, <1>13, <1>14, <1>15, <1>16
  DEF Inductive, ArgmaxReadsLiveState, FinishIsTruthful, InPrime, InPrompt, AtTop, InMaterialize

(* Committing a round: the restored caches plus the tokens still to be     *)
(* stepped are exactly what the extended output calls for.                 *)
LEMMA CommitStep ==
  ASSUME Inductive, CommitRound PROVE Inductive'
<1> DEFINE c == Accepted(proposals, posterior)
           round == Round(c)
           terminal == EndsEos(round) \/ Len(tokens) + Len(round) >= budget
<1>1. /\ pc = "verify" /\ Len(posterior) = K + 1 /\ pc' = "materialize"
      /\ tokens' = tokens \o round
      /\ accepted' = accepted + CommonPrefix(c, proposals)
      /\ pending' = Materialize(round, terminal)
      /\ rounds' = rounds + 1
      /\ model' = Restore(model, snapshot)
      /\ UNCHANGED <<input, finish, materialized, anchor, proposals, snapshot, posterior>>
  BY DEF CommitRound
<1>2. /\ TypeOK /\ MatchesTargetOnly /\ InVerify
      /\ model.taps = Prompt
  BY <1>1 DEF Inductive, CachesFollowOutput
<1>3. /\ tokens \in Seq(Token) /\ Len(tokens) \in Nat /\ budget \in Nat /\ Prompt \in Seq(Token)
      /\ Len(tokens) + 2 <= budget /\ materialized = tokens
      /\ snapshot.mla = Prompt \o tokens /\ Lockstep(snapshot)
      /\ proposals \in Drafts /\ posterior \in Seq(Token)
  BY <1>1, <1>2, DflashAssumption, TextModelAssumption, LenProperties DEF TypeOK, InVerify
<1>4. CommonPrefix(c, proposals) \in Nat
  <2>1. Len(c) \in 1..(K + 1) /\ CommonPrefix(c, proposals) = Len(c) - 1
    BY <1>1, <1>3, AcceptedSpec
  <2>2. K \in Nat
    BY DflashAssumption, CommitAssumption
  <2> HIDE DEF c
  <2> QED BY <2>1, <2>2
<1>5. /\ round \in Seq(Token) /\ Len(round) >= 2 /\ Len(round) \in Nat
      /\ Len(tokens) + Len(round) <= budget
      /\ IsContinuation(weights, budget, tokens \o round)
  BY <1>1, <1>2, RoundSpec, LenProperties
<1> HIDE DEF c, round
<1> DEFINE all == tokens \o round
<1>6. /\ all \in Seq(Token) /\ Len(all) = Len(tokens) + Len(round)
      /\ all[Len(tokens) + Len(round)] = round[Len(round)]
  <2>1. /\ all \in Seq(Token) /\ Len(all) = Len(tokens) + Len(round)
        /\ \A i \in 1..(Len(tokens) + Len(round)) :
             all[i] = IF i <= Len(tokens) THEN tokens[i] ELSE round[i - Len(tokens)]
    BY <1>3, <1>5, ConcatProperties
  <2>2. /\ Len(tokens) + Len(round) \in 1..(Len(tokens) + Len(round))
        /\ ~(Len(tokens) + Len(round) <= Len(tokens))
        /\ (Len(tokens) + Len(round)) - Len(tokens) = Len(round)
    BY <1>3, <1>5
  <2> QED BY <2>1, <2>2
<1>7. all # << >> /\ round # << >>
  BY <1>3, <1>5, <1>6, EmptySeq
<1>8. Complete(budget, all) <=> terminal
  BY <1>6, <1>7 DEF Complete, EndsEos
<1> HIDE DEF all
<1>9. /\ pending' \in Seq(Token) /\ pending' # << >>
      /\ tokens \o pending' = IF Complete(budget, all) THEN AllButLast(all) ELSE all
  <2>1. CASE terminal
    <3> DEFINE k == Len(round) - 1
    <3>1. k \in 0..Len(round) /\ k > 0 /\ Len(tokens) + k = Len(all) - 1
      BY <1>3, <1>5, <1>6
    <3>2. pending' = SubSeq(round, 1, k)
      BY <1>1, <2>1 DEF Materialize
    <3> HIDE DEF k
    <3>3. pending' \in Seq(Token) /\ Len(pending') = k
      BY <1>5, <3>1, <3>2, TakeProperties
    <3>4. SubSeq(tokens \o round, 1, Len(tokens) + k) = tokens \o pending'
      BY <1>3, <1>5, <3>1, <3>2, TakeRight
    <3>5. AllButLast(all) = tokens \o pending'
      <4>1. AllButLast(all) = SubSeq(all, 1, Len(tokens) + k)
        BY <3>1 DEF AllButLast
      <4> QED BY <3>4, <4>1 DEF all
    <3>6. pending' # << >>
      BY <3>1, <3>3, EmptySeq
    <3> QED BY <2>1, <1>8, <3>3, <3>5, <3>6
  <2>2. CASE ~terminal
    <3>1. pending' = round
      BY <1>1, <2>2 DEF Materialize
    <3> QED BY <2>2, <3>1, <1>5, <1>7, <1>8 DEF all
  <2> QED BY <2>1, <2>2
<1> HIDE DEF terminal
<1>10. tokens' = all
  BY <1>1 DEF all
<1>11. TypeOK'
  <2>1. model' \in TextModels
    BY <1>1, <1>2, RestoreType DEF TypeOK
  <2>2. accepted' \in Nat /\ rounds' \in Nat
    BY <1>1, <1>2, <1>4 DEF TypeOK
  <2> QED BY <1>1, <1>2, <1>6, <1>9, <1>10, <2>1, <2>2 DEF TypeOK, input
<1>12. MatchesTargetOnly'
  BY <1>1, <1>5 DEF MatchesTargetOnly, input
<1>13. /\ model'.mla = Prompt \o tokens /\ Lockstep(model') /\ model'.taps = Prompt
  <2>1. model.taps = Prompt /\ model \in TextModels
    BY <1>2 DEF TypeOK
  <2>2. /\ model'.mla = snapshot.mla /\ model'.kda = snapshot.kda
        /\ model'.seen = snapshot.seen /\ model'.taps = model.taps
    BY <1>1, <2>1 DEF Restore, TextModels
  <2> QED BY <1>3, <2>1, <2>2 DEF Lockstep
<1>14. CachesFollowOutput'
  BY <1>1, <1>13 DEF CachesFollowOutput, Lockstep
<1>15. InMaterialize'
  <2>1. Due' = IF Complete(budget, all) THEN AllButLast(all) ELSE all
    BY <1>1, <1>10 DEF Due, input, Complete, EndsEos, AllButLast
  <2>2. model'.mla \o pending' = Prompt \o Due'
    <3>1. (Prompt \o tokens) \o pending' = Prompt \o (tokens \o pending')
      <4>1. \A s, t, u \in Seq(Token) : (s \o t) \o u = s \o (t \o u)
        BY ConcatAssociative
      <4>2. tokens \in Seq(Token) /\ Prompt \in Seq(Token) /\ pending' \in Seq(Token)
        BY <1>3, <1>9
      <4> QED BY <4>1, <4>2
    <3> QED BY <1>9, <1>13, <2>1, <3>1
  <2>3. materialized' \o pending' = Due'
    BY <1>1, <1>3, <1>9, <2>1
  <2>4. budget' > 0 /\ tokens' # << >>
    BY <1>1, <1>3, <1>7, <1>10 DEF input
  <2> QED BY <1>9, <2>2, <2>3, <2>4 DEF InMaterialize
<1> QED
  BY <1>1, <1>11, <1>12, <1>14, <1>15
  DEF Inductive, ArgmaxReadsLiveState, FinishIsTruthful, InPrime, InPrompt, AtTop, InVerify

(* Stepping a kept token moves it from what is due into the caches.        *)
LEMMA MaterializeStepStep ==
  ASSUME Inductive, MaterializeStep PROVE Inductive'
<1> DEFINE token == Head(pending)
<1>1. /\ pc = "materialize"
      /\ model' = Step(model, token, FALSE)
      /\ materialized' = Append(materialized, token)
      /\ pending' = Tail(pending)
      /\ IF pending' = << >> THEN LastStep ELSE UNCHANGED <<pc, finish>>
      /\ UNCHANGED <<input, tokens, accepted, rounds, anchor, proposals, snapshot, posterior>>
  BY DEF MaterializeStep
<1>2. /\ TypeOK /\ MatchesTargetOnly /\ InMaterialize
      /\ model.taps = Prompt /\ Lockstep(model)
  BY <1>1 DEF Inductive, CachesFollowOutput, Lockstep
<1>3. /\ model \in TextModels /\ model.mla \in Seq(Token) /\ pending \in Seq(Token)
      /\ materialized \in Seq(Token) /\ pending # << >>
      /\ budget \in Nat /\ budget > 0 /\ tokens # << >> /\ tokens \in Seq(Token)
  BY <1>1, <1>2, DflashAssumption DEF TypeOK, InMaterialize, TextModels
<1>4. /\ token \in Token /\ pending' \in Seq(Token)
      /\ Append(model.mla, token) \o pending' = model.mla \o pending
      /\ Append(materialized, token) \o pending' = materialized \o pending
  BY <1>1, <1>3, MoveHead
<1> HIDE DEF token
<1>5. /\ model' \in TextModels /\ Lockstep(model') /\ model'.final = CachesOf(model')
      /\ model'.mla = Append(model.mla, token) /\ model'.taps = Prompt
  BY <1>1, <1>2, <1>3, <1>4, StepType, StepLockstep
<1>6. Append(materialized, token) \in Seq(Token) /\ Append(model.mla, token) \in Seq(Token)
  BY <1>3, <1>4, AppendProperties
<1>7. model'.mla \o pending' = Prompt \o Due /\ materialized' \o pending' = Due
  BY <1>1, <1>2, <1>4, <1>5 DEF InMaterialize
<1>8. finish' \in {"none", "eos", "budget"} /\ pc' \in {"materialize", "top", "done"}
  BY <1>1, <1>2 DEF LastStep, TypeOK
<1>9. TypeOK'
  BY <1>1, <1>2, <1>4, <1>5, <1>6, <1>8 DEF TypeOK, input
<1>10. MatchesTargetOnly'
  BY <1>1, <1>2 DEF MatchesTargetOnly, input
<1>11. Due' = Due /\ tokens' = tokens /\ budget' = budget
  BY <1>1 DEF Due, input, Complete, EndsEos, AllButLast
<1>12. CASE pending' # << >>
  <2>1. pc' = "materialize"
    BY <1>1, <1>12
  <2>2. InMaterialize'
    BY <1>3, <1>7, <1>11, <1>12 DEF InMaterialize
  <2>3. CachesFollowOutput'
    BY <1>5, <2>1 DEF CachesFollowOutput, Lockstep
  <2> QED
    BY <1>9, <1>10, <2>1, <2>2, <2>3
    DEF Inductive, ArgmaxReadsLiveState, FinishIsTruthful, InPrime, InPrompt, AtTop, InVerify
<1>13. CASE pending' = << >>
  <2>1. model'.mla = Prompt \o Due /\ materialized' = Due
    BY <1>1, <1>5, <1>6, <1>7, <1>13, ConcatEmptySeq
  <2>2. CASE Complete(budget, tokens)
    <3>1. pc' = "done" /\ finish' = IF EndsEos(tokens) THEN "eos" ELSE "budget"
      BY <1>1, <1>13, <2>2 DEF LastStep
    <3>2. Due = AllButLast(tokens)
      BY <2>2 DEF Due
    <3>3. CachesFollowOutput'
      <4>1. AllButLast(tokens)' = AllButLast(tokens)
        BY <1>11 DEF AllButLast
      <4> QED BY <1>5, <2>1, <3>1, <3>2, <4>1 DEF CachesFollowOutput, HoldsExactly, Lockstep
    <3>4. FinishIsTruthful'
      <4>1. Len(tokens) <= budget /\ Len(tokens) \in Nat
        BY <1>2, <1>3, LenProperties DEF MatchesTargetOnly, IsContinuation
      <4>2. ~EndsEos(tokens) => Len(tokens) = budget
        BY <1>3, <2>2, <4>1 DEF Complete
      <4> QED BY <1>11, <3>1, <4>2 DEF FinishIsTruthful, EndsEos
    <3> QED
      BY <1>9, <1>10, <3>1, <3>3, <3>4
      DEF Inductive, ArgmaxReadsLiveState, InPrime, InPrompt, AtTop, InVerify, InMaterialize
  <2>3. CASE ~Complete(budget, tokens)
    <3>1. pc' = "top"
      BY <1>1, <1>13, <2>3 DEF LastStep
    <3>2. Due = tokens
      BY <2>3 DEF Due
    <3>3. CachesFollowOutput' /\ ArgmaxReadsLiveState'
      BY <1>5, <1>11, <2>1, <3>1, <3>2
      DEF CachesFollowOutput, ArgmaxReadsLiveState, HoldsExactly, Lockstep
    <3>4. AtTop'
      <4>1. ~EndsEos(tokens) /\ Len(tokens) < budget
        BY <1>3, <2>3, LenProperties DEF Complete
      <4> QED BY <1>11, <2>1, <3>2, <4>1 DEF AtTop, EndsEos
    <3> QED
      BY <1>9, <1>10, <3>1, <3>3, <3>4
      DEF Inductive, FinishIsTruthful, InPrime, InPrompt, InVerify, InMaterialize
  <2> QED BY <2>2, <2>3
<1> QED BY <1>12, <1>13

(* After an exception only the output and the types are promised.          *)
LEMMA ThrownKeeps ==
  ASSUME Inductive, pc' = "thrown", model' \in TextModels,
         UNCHANGED <<input, output, scratch>>
  PROVE  Inductive'
<1>1. TypeOK'
  BY DEF Inductive, TypeOK, input, output, scratch
<1>2. MatchesTargetOnly'
  BY DEF Inductive, MatchesTargetOnly, input, output
<1> QED
  BY <1>1, <1>2
  DEF Inductive, CachesFollowOutput, ArgmaxReadsLiveState, FinishIsTruthful,
      InPrime, InPrompt, AtTop, InVerify, InMaterialize

LEMMA ThrowStep ==
  ASSUME Inductive, Throw PROVE Inductive'
<1>1. /\ pc \in {"prime", "prompt", "top", "materialize"} /\ pc' = "thrown"
      /\ model' \in IF pc = "top" THEN {model} ELSE Torn(model, StepToken)
      /\ UNCHANGED <<input, output, scratch>>
  BY DEF Throw
<1>2. model \in TextModels
  BY DEF Inductive, TypeOK
<1>3. CASE pc = "prompt"
  <2>1. Prompt \in Seq(Token) /\ Len(Prompt) \in Nat /\ model.mla \in Seq(Token)
    BY <1>2, TextModelAssumption, LenProperties DEF TextModels
  <2>2. Len(model.mla) + 1 \in 1..Len(Prompt)
    BY <1>3, <2>1, LenProperties DEF Inductive, InPrompt
  <2>3. Prompt[Len(model.mla) + 1] \in Token
    BY <2>1, <2>2, ElementOfSeq
  <2>4. model' \in Torn(model, Prompt[Len(model.mla) + 1])
    BY <1>1, <1>3 DEF StepToken
  <2> QED BY <1>1, <1>2, <2>3, <2>4, TornType, ThrownKeeps
<1>4. CASE pc = "materialize"
  <2>1. pending \in Seq(Token) /\ pending # << >>
    BY <1>4 DEF Inductive, TypeOK, InMaterialize
  <2>2. Head(pending) \in Token
    BY <2>1, HeadTailProperties
  <2>3. model' \in Torn(model, Head(pending))
    BY <1>1, <1>4 DEF StepToken
  <2> QED BY <1>1, <1>2, <2>2, <2>3, TornType, ThrownKeeps
<1>5. CASE pc = "prime"
  <2>1. model' \in Torn(model, RowZero) /\ RowZero \in Token
    BY <1>1, <1>5, TextModelAssumption DEF StepToken
  <2> QED BY <1>1, <1>2, <2>1, TornType, ThrownKeeps
<1>6. CASE pc = "top"
  BY <1>1, <1>2, <1>6, ThrownKeeps
<1> QED BY <1>1, <1>3, <1>4, <1>5, <1>6

(* What the handler of the verify phase hands back.                        *)
LEMMA RolledBack ==
  ASSUME Inductive, VerifyThrows
  PROVE  model' \in TextModels /\ HoldsExactly(tokens)'
<1>1. /\ pc = "verify" /\ UNCHANGED <<input, output, scratch>>
      /\ \E torn \in Interrupted : model' = Restore(torn, snapshot)
  BY DEF VerifyThrows
<1>2. /\ model \in TextModels /\ anchor \in Token /\ proposals \in Drafts /\ posterior \in Seq(Token)
      /\ snapshot \in [kda : Seq(Token), mla : Seq(Token), seen : Nat]
      /\ snapshot.mla = Prompt \o tokens /\ Lockstep(snapshot)
  BY <1>1 DEF Inductive, TypeOK, InVerify
<1>3. Len(posterior) <= K => VerifyPath[Len(posterior) + 1] \in Token
  <2>1. <<anchor>> \in Seq(Token) /\ Len(<<anchor>>) = 1
    BY <1>2
  <2>2. proposals \in Seq(Token) /\ Len(proposals) = K /\ K \in Nat /\ Len(posterior) \in Nat
    BY <1>2, DraftIsSeq, DflashAssumption, CommitAssumption, LenProperties
  <2>3. VerifyPath \in Seq(Token) /\ Len(VerifyPath) = 1 + K
    BY <2>1, <2>2, ConcatProperties DEF VerifyPath
  <2>4. Len(posterior) <= K => Len(posterior) + 1 \in 1..Len(VerifyPath)
    BY <2>2, <2>3
  <2> QED BY <2>3, <2>4, ElementOfSeq
<1>4. Interrupted \subseteq TextModels
  <2>1. CASE Len(posterior) <= K
    <3>1. VerifyPath[Len(posterior) + 1] \in Token
      BY <1>3, <2>1
    <3>2. Step(model, VerifyPath[Len(posterior) + 1], FALSE) \in TextModels
      BY <1>2, <3>1, StepType
    <3>3. Torn(model, VerifyPath[Len(posterior) + 1]) \subseteq TextModels
      BY <1>2, <3>1, TornType
    <3> QED BY <2>1, <3>2, <3>3 DEF Interrupted
  <2>2. CASE ~(Len(posterior) <= K)
    BY <1>2, <2>2 DEF Interrupted
  <2> QED BY <2>1, <2>2
<1>5. PICK torn \in TextModels : model' = Restore(torn, snapshot)
  BY <1>1, <1>4
<1>6. model' \in TextModels
  BY <1>2, <1>5, RestoreType
<1>7. model'.mla = snapshot.mla /\ model'.kda = snapshot.kda /\ model'.seen = snapshot.seen
  BY <1>5 DEF Restore, TextModels
<1>8. tokens' = tokens
  BY <1>1 DEF output
<1> QED BY <1>2, <1>6, <1>7, <1>8 DEF HoldsExactly, Lockstep

LEMMA InductiveStep ==
  Inductive /\ [Next]_vars => Inductive'
<1> SUFFICES ASSUME Inductive, [Next]_vars PROVE Inductive'
  OBVIOUS
<1>1. CASE PrimeCaptureKda
  BY <1>1, PrimeStep
<1>2. CASE StepPrompt
  BY <1>2, PromptStep
<1>3. CASE ExitLoop
  BY <1>3, ExitStep
<1>4. CASE StopAtEos \/ StopAtBudget
  BY <1>4, EmitAnchorStep
<1>5. CASE Propose
  BY <1>5, ProposeStep
<1>6. CASE VerifyStep
  BY <1>6, VerifyStepStep
<1>7. CASE CommitRound
  BY <1>7, CommitStep
<1>8. CASE MaterializeStep
  BY <1>8, MaterializeStepStep
<1>9. CASE Throw
  BY <1>9, ThrowStep
<1>10. CASE VerifyThrows
  <2>1. pc' = "thrown" /\ UNCHANGED <<input, output, scratch>>
    BY <1>10 DEF VerifyThrows
  <2> QED BY <1>10, <2>1, RolledBack, ThrownKeeps
<1>11. CASE UNCHANGED vars
  <2> USE <1>11 DEF vars, Inductive
  <2>1. TypeOK' /\ MatchesTargetOnly'
    BY DEF TypeOK, MatchesTargetOnly
  <2>2. CachesFollowOutput' /\ ArgmaxReadsLiveState'
    BY DEF CachesFollowOutput, HoldsExactly, Lockstep, AllButLast, ArgmaxReadsLiveState, CachesOf
  <2>3. FinishIsTruthful' /\ InPrime' /\ InPrompt' /\ AtTop'
    BY DEF FinishIsTruthful, EndsEos, InPrime, InPrompt, Lockstep, AtTop
  <2>4. InVerify'
    BY DEF InVerify, VerifyPath, Greedy, EndsEos, Lockstep
  <2>5. InMaterialize'
    BY DEF InMaterialize, Due, Complete, EndsEos, AllButLast
  <2> QED
    BY <2>1, <2>2, <2>3, <2>4, <2>5
<1> QED
  BY <1>1, <1>2, <1>3, <1>4, <1>5, <1>6, <1>7, <1>8, <1>9, <1>10, <1>11 DEF Next, Stopped

-----------------------------------------------------------------------------
(* The inductive invariant, hence the type invariant, holds of every run.  *)
THEOREM InductiveHolds == Spec => []Inductive
BY InductiveInit, InductiveStep, PTL DEF Spec

(* Every variable keeps its type, whatever throws and wherever.            *)
THEOREM TypeInvariant == Spec => []TypeOK
<1>1. Inductive => TypeOK
  BY DEF Inductive
<1> QED BY <1>1, InductiveHolds, PTL

(* Gate 3 of README.md:51 for every checkpoint, draft, prompt, budget and  *)
(* proposal count: DFlash emits target-only generation's tokens            *)
(* (dflash_loop.hpp:75-98).                                                *)
THEOREM DflashMatchesTarget == Spec => []MatchesTargetOnly
<1>1. Inductive => MatchesTargetOnly
  BY DEF Inductive
<1> QED BY <1>1, InductiveHolds, PTL

(* No rejected or unstepped token stays in a cache (dflash_loop.hpp:73,    *)
(* 102-107).                                                               *)
THEOREM CachesFollow == Spec => []CachesFollowOutput
<1>1. Inductive => CachesFollowOutput
  BY DEF Inductive
<1> QED BY <1>1, InductiveHolds, PTL

(* The stale hidden vector restore() leaves behind is never read           *)
(* (text_forward.cpp:747-751).                                             *)
THEOREM ArgmaxIsLive == Spec => []ArgmaxReadsLiveState
<1>1. Inductive => ArgmaxReadsLiveState
  BY DEF Inductive
<1> QED BY <1>1, InductiveHolds, PTL

(* A run that returns says truthfully why (dflash_loop.hpp:39-48, 95-111). *)
THEOREM FinishTruthful == Spec => []FinishIsTruthful
<1>1. Inductive => FinishIsTruthful
  BY DEF Inductive
<1> QED BY <1>1, InductiveHolds, PTL

(* A verify step that throws leaves the caches as the round found them     *)
(* (dflash_loop.hpp:69-72).                                                *)
THEOREM VerifyRollsBack == Spec => VerifyThrowRollsBack
<1>1. ASSUME Inductive, [Next]_vars, pc = "verify", pc' = "thrown"
      PROVE  HoldsExactly(tokens)'
  <2>1. VerifyThrows
    BY <1>1 DEF Next, vars, PrimeCaptureKda, StepPrompt, ExitLoop, StopAtEos, StopAtBudget,
                Propose, VerifyStep, CommitRound, MaterializeStep, Throw, Stopped
  <2> QED BY <1>1, <2>1, RolledBack
<1>2. Inductive /\ [Next]_vars => [pc = "verify" /\ pc' = "thrown" => HoldsExactly(tokens)']_vars
  BY <1>1
<1> QED BY <1>2, InductiveHolds, PTL DEF Spec, VerifyThrowRollsBack

(* How many latents a step can find, whichever phase calls it.             *)
LEMMA StepsFit ==
  ASSUME Inductive, StepDue PROVE Len(model.mla) < Lookahead(budget)
<1>1. /\ model.mla \in Seq(Token) /\ tokens \in Seq(Token) /\ posterior \in Seq(Token)
      /\ pending \in Seq(Token) /\ materialized \in Seq(Token)
      /\ anchor \in Token /\ Prompt \in Seq(Token) /\ Prompt # << >>
      /\ budget \in Nat /\ K \in Nat /\ K >= 1
  BY DflashAssumption, CommitAssumption, TextModelAssumption DEF Inductive, TypeOK, TextModels
<1>2. /\ Len(model.mla) \in Nat /\ Len(tokens) \in Nat /\ Len(posterior) \in Nat
      /\ Len(pending) \in Nat /\ Len(Prompt) \in Nat /\ Len(Prompt) > 0
  BY <1>1, EmptySeq, LenProperties
<1>3. \A s, t \in Seq(Token) : s \o t \in Seq(Token) /\ Len(s \o t) = Len(s) + Len(t)
  BY ConcatProperties
<1>4. CASE pc = "prime"
  <2>1. Len(model.mla) = 0
    BY <1>4, EmptySeq DEF Inductive, InPrime, Fresh
  <2> QED BY <2>1, <1>1, <1>2 DEF Lookahead
<1>5. CASE pc = "prompt"
  <2>1. Len(model.mla) < Len(Prompt)
    BY <1>5 DEF Inductive, InPrompt
  <2> QED BY <2>1, <1>1, <1>2 DEF Lookahead
<1>6. CASE pc = "materialize"
  <2>1. /\ pending # << >> /\ model.mla \o pending = Prompt \o Due
        /\ budget > 0 /\ tokens # << >> /\ Len(tokens) <= budget
    BY <1>6 DEF Inductive, InMaterialize, MatchesTargetOnly, IsContinuation
  <2>2. Due \in Seq(Token) /\ Len(Due) <= budget - 1
    <3>1. CASE Complete(budget, tokens)
      <4>1. Len(tokens) > 0 /\ Len(tokens) - 1 \in 0..Len(tokens)
        BY <1>1, <1>2, <2>1, EmptySeq
      <4>2. Due = SubSeq(tokens, 1, Len(tokens) - 1)
        BY <3>1 DEF Due, AllButLast
      <4>3. Due \in Seq(Token) /\ Len(Due) = Len(tokens) - 1
        BY <1>1, <4>1, <4>2, TakeProperties
      <4> QED BY <1>1, <1>2, <2>1, <4>3
    <3>2. CASE ~Complete(budget, tokens)
      <4>1. Due = tokens /\ Len(tokens) < budget
        BY <1>1, <1>2, <3>2 DEF Due, Complete
      <4> QED BY <1>1, <1>2, <4>1
    <3> QED BY <3>1, <3>2
  <2>3. Len(model.mla) + Len(pending) = Len(Prompt) + Len(Due)
    BY <1>1, <1>3, <2>1, <2>2
  <2>4. Len(pending) > 0 /\ Len(Due) \in Nat
    BY <1>1, <1>2, <2>1, <2>2, EmptySeq, LenProperties
  <2>5. Len(model.mla) <= Len(Prompt) + budget - 2
    BY <1>1, <1>2, <2>2, <2>3, <2>4
  <2>6. CASE budget >= 2
    <3>1. Lookahead(budget) = Len(Prompt) + budget + K - 1
      BY <1>1, <1>2, <2>6 DEF Lookahead
    <3> QED BY <1>1, <1>2, <2>5, <3>1
  <2>7. CASE budget = 1
    <3>1. Lookahead(budget) = Len(Prompt)
      BY <1>2, <2>7 DEF Lookahead
    <3> QED BY <1>2, <2>5, <2>7, <3>1
  <2> QED BY <1>1, <2>1, <2>6, <2>7
<1>7. CASE pc = "verify"
  <2>1. /\ Len(posterior) <= K /\ proposals \in Drafts /\ Len(tokens) + 2 <= budget
        /\ model.mla = Prompt \o (tokens \o SubSeq(VerifyPath, 1, Len(posterior)))
    BY <1>7 DEF Inductive, InVerify, StepDue
  <2>2. VerifyPath \in Seq(Token) /\ Len(VerifyPath) = K + 1
    <3>1. <<anchor>> \in Seq(Token) /\ Len(<<anchor>>) = 1
      BY <1>1
    <3>2. proposals \in Seq(Token) /\ Len(proposals) = K
      BY <2>1, DraftIsSeq
    <3>3. VerifyPath \in Seq(Token) /\ Len(VerifyPath) = 1 + K
      BY <3>1, <3>2, ConcatProperties DEF VerifyPath
    <3> QED BY <1>1, <3>3
  <2> DEFINE path == SubSeq(VerifyPath, 1, Len(posterior))
  <2>3. path \in Seq(Token) /\ Len(path) = Len(posterior)
    <3>1. Len(posterior) \in 0..Len(VerifyPath)
      BY <1>1, <1>2, <2>1, <2>2
    <3> QED BY <2>2, <3>1, TakeProperties
  <2>4. Len(model.mla) = Len(Prompt) + (Len(tokens) + Len(posterior))
    <3> HIDE DEF path
    <3>0. tokens \in Seq(Token) /\ Prompt \in Seq(Token) /\ path \in Seq(Token)
      BY <1>1, <2>3
    <3>1. tokens \o path \in Seq(Token) /\ Len(tokens \o path) = Len(tokens) + Len(path)
      BY <1>3, <3>0, Zenon
    <3>2. Len(Prompt \o (tokens \o path)) = Len(Prompt) + (Len(tokens) + Len(posterior))
      <4>1. Len(Prompt \o (tokens \o path)) = Len(Prompt) + Len(tokens \o path)
        BY <1>3, <3>0, <3>1, Zenon
      <4> QED BY <4>1, <3>1, <2>3, Zenon
    <3> QED BY <2>1, <3>2 DEF path
  <2>5. Len(model.mla) <= Len(Prompt) + budget - 2 + K
    BY <1>1, <1>2, <2>1, <2>4
  <2>6. Lookahead(budget) = Len(Prompt) + budget + K - 1
    BY <1>1, <1>2, <2>1 DEF Lookahead
  <2> QED BY <1>1, <1>2, <2>5, <2>6
<1> QED BY <1>4, <1>5, <1>6, <1>7 DEF StepDue

(* As long as the lookahead of the last round fits under the indexer       *)
(* bound, mla() refuses no step of the loop (text_forward.cpp:1077).       *)
THEOREM LookaheadFits == Spec => []NeverRefused
<1>1. Inductive => NeverRefused
  <2> SUFFICES ASSUME Inductive, Lookahead(budget) <= IndexTopk, StepDue PROVE ~Refuses(model)
    BY DEF NeverRefused
  <2>1. Len(model.mla) < Lookahead(budget)
    BY StepsFit
  <2>2. budget \in Nat /\ Len(Prompt) \in Nat /\ K \in Nat /\ model.mla \in Seq(Token)
    BY DflashAssumption, CommitAssumption, TextModelAssumption, LenProperties
    DEF Inductive, TypeOK, TextModels
  <2>3. Lookahead(budget) \in Int /\ Len(model.mla) \in Nat /\ IndexTopk \in Nat
    BY <2>2, TextModelAssumption, LenProperties DEF Lookahead
  <2> QED BY <2>1, <2>3 DEF Refuses
<1> QED BY <1>1, InductiveHolds, PTL

(* A round emits the anchor, the accepted drafts and at most one more.     *)
LEMMA RoundCounts ==
  ASSUME TypeOK, InVerify, pc = "verify", Len(posterior) = K + 1
  PROVE  LET commit == Accepted(proposals, posterior) IN
         /\ CommonPrefix(commit, proposals) \in 0..K
         /\ Len(Round(commit)) <= CommonPrefix(commit, proposals) + 2
<1> DEFINE commit == Accepted(proposals, posterior)
           full == <<anchor>> \o commit
           remaining == budget - Len(tokens)
<1>1. /\ proposals \in Drafts /\ posterior \in Seq(Token) /\ anchor \in Token
      /\ anchor \notin Eos /\ Len(tokens) + 2 <= budget /\ tokens \in Seq(Token)
      /\ budget \in Nat /\ K \in Nat
  BY DflashAssumption, CommitAssumption DEF TypeOK, InVerify
<1>2. /\ commit \in Seq(Token) /\ Len(commit) \in 1..(K + 1)
      /\ CommonPrefix(commit, proposals) = Len(commit) - 1
  BY <1>1, AcceptedSpec
<1> HIDE DEF commit
<1>3. full \in Seq(Token) /\ Len(full) = 1 + Len(commit) /\ full[1] = anchor
  <2>1. <<anchor>> \in Seq(Token) /\ Len(<<anchor>>) = 1 /\ <<anchor>>[1] = anchor
    BY <1>1
  <2> QED
    BY <1>2, <2>1, ConcatProperties
<1>4. remaining \in Nat /\ remaining >= 2
  BY <1>1, LenProperties
<1> HIDE DEF full, remaining
<1>5. PICK n \in 2..Len(full) : CutAfterEos(Truncate(full, remaining)) = SubSeq(full, 1, n)
  <2>1. full \in Seq(Token) /\ Len(full) >= 2 /\ full[1] \notin Eos
    BY <1>1, <1>2, <1>3
  <2>2. \E n \in 2..Len(full) :
          /\ n <= remaining
          /\ CutAfterEos(Truncate(full, remaining)) = SubSeq(full, 1, n)
          /\ \A i \in 1..(n - 1) : full[i] \notin Eos
    BY <1>4, <2>1, CutSpec, Zenon
  <2> QED
    BY <2>2
<1>6. Len(Round(commit)) = n
  <2>1. n \in 0..Len(full)
    BY <1>2, <1>3, <1>5
  <2>2. Len(SubSeq(full, 1, n)) = n
    BY <1>3, <2>1, TakeProperties
  <2> QED
    BY <1>5, <2>2 DEF Round, full, remaining
<1> QED
  BY <1>1, <1>2, <1>3, <1>5, <1>6 DEF commit

(* What dflash_accept is computed from adds up (text_forward.cpp:2012-     *)
(* 2015), for every number of rounds.                                      *)
THEOREM AcceptanceAddsUp == Spec => []RoundAccounting
<1>1. Init => RoundAccounting
  <2> SUFFICES ASSUME Init PROVE RoundAccounting
    OBVIOUS
  <2>1. accepted = 0 /\ rounds = 0 /\ Len(tokens) = 0 /\ K \in Nat
    BY EmptySeq, DflashAssumption, CommitAssumption DEF Init
  <2> QED
    BY <2>1 DEF RoundAccounting
<1>2. Inductive /\ RoundAccounting /\ [Next]_vars => RoundAccounting'
  <2> SUFFICES ASSUME Inductive, RoundAccounting, [Next]_vars PROVE RoundAccounting'
    OBVIOUS
  <2>1. /\ accepted \in Nat /\ rounds \in Nat /\ K \in Nat
        /\ tokens \in Seq(Token) /\ Len(tokens) \in Nat
    BY DflashAssumption, CommitAssumption, LenProperties DEF Inductive, TypeOK
  <2>2. CASE StopAtEos \/ StopAtBudget
    <3>1. /\ pc = "top" /\ pc' = "done" /\ UNCHANGED <<accepted, rounds>>
          /\ anchor' = Argmax(weights, model) /\ tokens' = Append(tokens, anchor')
      BY <2>2 DEF StopAtEos, StopAtBudget, EmitAnchor
    <3>2. Len(tokens') = Len(tokens) + 1
      BY <2>1, <3>1, ArgmaxType, AppendProperties
    <3> QED
      BY <2>1, <3>1, <3>2 DEF RoundAccounting
  <2>3. CASE CommitRound
    <3> DEFINE commit == Accepted(proposals, posterior)
               round == Round(commit)
               drafts == CommonPrefix(commit, proposals)
    <3>1. /\ pc = "verify" /\ pc' = "materialize" /\ Len(posterior) = K + 1
          /\ tokens' = tokens \o round /\ accepted' = accepted + drafts
          /\ rounds' = rounds + 1
      BY <2>3 DEF CommitRound
    <3>2. /\ round \in Seq(Token) /\ Len(round) >= 2
          /\ drafts \in 0..K /\ Len(round) <= drafts + 2
      BY <3>1, RoundSpec, RoundCounts DEF Inductive
    <3> HIDE DEF round, drafts
    <3>3. Len(tokens') = Len(tokens) + Len(round) /\ Len(round) \in Nat
      BY <2>1, <3>1, <3>2, ConcatProperties, LenProperties
    <3>4. K * (rounds + 1) = K * rounds + K
      BY <2>1
    <3>5. K * rounds \in Nat
      BY <2>1
    <3>6. accepted' <= K * rounds'
      <4> DEFINE most == K * rounds
      <4>1. accepted <= most /\ most \in Nat /\ K * (rounds + 1) = most + K
        BY <3>4, <3>5 DEF RoundAccounting
      <4> HIDE DEF most
      <4> QED
        BY <2>1, <3>1, <3>2, <4>1
    <3>7. 2 * rounds' <= Len(tokens') /\ Len(tokens') <= accepted' + 2 * rounds'
      BY <2>1, <3>1, <3>2, <3>3 DEF RoundAccounting
    <3> QED
      BY <3>1, <3>6, <3>7 DEF RoundAccounting
  <2>4. CASE ~(StopAtEos \/ StopAtBudget \/ CommitRound)
    <3>1. UNCHANGED <<tokens, accepted, rounds>> /\ (pc = "done" => pc' = "done")
      BY <2>4 DEF Next, vars, output, PrimeCaptureKda, StepPrompt, ExitLoop, Propose, VerifyStep,
             MaterializeStep, Throw, VerifyThrows, Stopped
    <3> QED
      BY <2>1, <3>1 DEF RoundAccounting
  <2> QED
    BY <2>2, <2>3, <2>4
<1> QED
  BY <1>1, <1>2, InductiveHolds, PTL DEF Spec
-----------------------------------------------------------------------------
(* generate_dflash_continuation implements TargetContinuation, the promise *)
(* both decoders make.  A committed round is one Emit however many tokens  *)
(* it brings; the steps that verify, restore and materialize are           *)
(* invisible; the run finishes with the step that brings the caches up to  *)
(* date.                                                                   *)


(* The reason is given by the step that ends the run and by no other, and  *)
(* a budget of zero ends without one.                                      *)
FinishOpen == pc \notin {"done", "thrown"} \/ budget = 0 => finish = "none"

LEMMA FinishOpenHolds == Spec => []FinishOpen
<1>1. Init => FinishOpen
  BY DEF Init, FinishOpen
<1>2. Inductive /\ FinishOpen /\ [Next]_vars => FinishOpen'
  <2> SUFFICES ASSUME Inductive, FinishOpen, [Next]_vars
               PROVE  FinishOpen'
    OBVIOUS
  <2>1. CASE StopAtEos \/ StopAtBudget
    <3>1. budget \in Nat /\ Len(tokens) \in Nat
      BY DflashAssumption, LenProperties DEF Inductive, TypeOK
    <3>2. budget' = budget /\ pc' = "done" /\ Len(tokens) < budget
      BY <2>1 DEF StopAtEos, StopAtBudget, EmitAnchor, input
    <3> QED
      BY <3>1, <3>2 DEF FinishOpen
  <2>2. CASE MaterializeStep
    <3>1. budget' = budget /\ pc = "materialize" /\ budget # 0
      BY <2>2, DflashAssumption DEF MaterializeStep, input, Inductive, TypeOK, InMaterialize
    <3> QED
      BY <2>2, <3>1 DEF FinishOpen, MaterializeStep, LastStep
  <2>3. CASE ~(StopAtEos \/ StopAtBudget \/ MaterializeStep)
    <3>1. UNCHANGED <<budget, finish>> /\ (pc \in {"done", "thrown"} => pc' \in {"done", "thrown"})
      BY <2>3 DEF Next, vars, input, output, PrimeCaptureKda, StepPrompt, ExitLoop, Propose,
             VerifyStep, CommitRound, Throw, VerifyThrows, Stopped
    <3> QED
      BY <3>1 DEF FinishOpen
  <2> QED
    BY <2>1, <2>2, <2>3
<1> QED
  BY <1>1, <1>2, InductiveHolds, PTL DEF Spec

(* The specification's own copy of TextModel is the loop's. *)
LEMMA SameModel ==
  ASSUME NEW w, NEW n, NEW toks
  PROVE  /\ Contract!IsContinuation(w, n, toks) <=> IsContinuation(w, n, toks)
         /\ Contract!Complete(n, toks) <=> Complete(n, toks)
         /\ Contract!Verdict(n, toks) = Verdict(n, toks)
         /\ Contract!AllButLast(toks) = AllButLast(toks)
<1>1. ASSUME NEW s PROVE Contract!Greedy(w, s) = Greedy(w, s)
  BY DEF Contract!Greedy, Greedy, Contract!BestRow, BestRow
<1>2. Contract!EndsEos(toks) <=> EndsEos(toks)
  BY DEF Contract!EndsEos, EndsEos
<1> QED
  BY <1>1, <1>2 DEF Contract!IsContinuation, IsContinuation, Contract!Complete, Complete,
                    Contract!Verdict, Verdict, Contract!AllButLast, AllButLast

-----------------------------------------------------------------------------
(* A step that emits nothing and does not end the run is invisible. *)
LEMMA Invisible ==
  ASSUME pc \notin {"done", "thrown"}, pc' \notin {"done", "thrown"},
         UNCHANGED <<weights, budget, tokens>>
  PROVE  UNCHANGED Contract!tvars
BY DEF Contract!tvars

(* Emitted tokens that extend the old ones along the continuation. *)
LEMMA Extends ==
  ASSUME MatchesTargetOnly', UNCHANGED <<weights, budget>>,
         NEW ext \in Seq(Token), tokens \in Seq(Token), Len(ext) > 0, tokens' = tokens \o ext
  PROVE  Contract!Grows
<1>1. /\ Len(tokens') = Len(tokens) + Len(ext)
      /\ Len(tokens) \in 0..Len(tokens) /\ Len(ext) \in Nat
  BY ConcatProperties, LenProperties
<1>2. SubSeq(tokens', 1, Len(tokens)) = tokens
  BY <1>1, TakeLeft, TakeAll
<1>3. Contract!IsContinuation(weights, budget, tokens')
  BY SameModel DEF MatchesTargetOnly
<1> QED
  BY <1>1, <1>2, <1>3 DEF Contract!Grows

(* A round is emitted all at once. *)
LEMMA CommitEmits ==
  ASSUME Inductive, Inductive', CommitRound
  PROVE  Contract!Emit
<1> DEFINE round == Round(Accepted(proposals, posterior))
<1>1. /\ pc = "verify" /\ pc' = "materialize" /\ Len(posterior) = K + 1
      /\ tokens' = tokens \o round /\ UNCHANGED <<weights, budget>>
  BY DEF CommitRound, input
<1>2. round \in Seq(Token) /\ Len(round) >= 2
  BY <1>1, RoundSpec DEF Inductive
<1>3. tokens \in Seq(Token) /\ budget \in Nat /\ Len(tokens) \in Nat
  BY DflashAssumption, LenProperties DEF Inductive, TypeOK
<1>4. Contract!Grows
  <2> HIDE DEF round
  <2>1. Len(round) > 0
    BY <1>2, LenProperties
  <2> QED
    BY <1>1, <1>2, <1>3, <2>1, Extends DEF Inductive
<1>5. ~Contract!Complete(budget, tokens)
  <2>1. ~EndsEos(tokens) /\ Len(tokens) + 2 <= budget
    BY <1>1 DEF Inductive, InVerify
  <2>2. ~Complete(budget, tokens)
    BY <1>3, <2>1 DEF Complete
  <2> QED
    BY <2>2, SameModel
<1> QED
  BY <1>1, <1>4, <1>5 DEF Contract!Emit

(* Whatever ended the run did so where target-only generation ends, with   *)
(* the caches due.                                                         *)
EndIsDue ==
  pc = "done" =>
    /\ Complete(budget, tokens)
    /\ finish = Verdict(budget, tokens)
    /\ model.mla = Prompt \o AllButLast(tokens)

LEMMA EndDue ==
  ASSUME Inductive, FinishOpen, pc = "done"
  PROVE  /\ Complete(budget, tokens)
         /\ finish = Verdict(budget, tokens)
         /\ model.mla = Prompt \o AllButLast(tokens)
<1>1. /\ budget \in Nat /\ tokens \in Seq(Token) /\ Len(tokens) \in Nat
      /\ Len(tokens) <= budget
  BY DflashAssumption, LenProperties DEF Inductive, TypeOK, MatchesTargetOnly, IsContinuation
<1>2. CASE budget = 0
  <2>1. Len(tokens) = 0 /\ finish = "none"
    BY <1>1, <1>2 DEF FinishOpen
  <2>2. tokens = << >>
    BY <1>1, <2>1, EmptySeq
  <2>3. ~EndsEos(tokens)
    BY <2>2 DEF EndsEos
  <2> QED
    BY <1>2, <2>1, <2>3 DEF Complete, Verdict, Inductive, CachesFollowOutput, HoldsExactly
<1>3. CASE budget > 0
  <2>1. \/ finish = "eos" /\ EndsEos(tokens)
        \/ finish = "budget" /\ Len(tokens) = budget /\ ~EndsEos(tokens)
    BY <1>3 DEF Inductive, FinishIsTruthful
  <2>2. Complete(budget, tokens)
    BY <1>1, <2>1 DEF Complete
  <2>3. finish = Verdict(budget, tokens)
    BY <1>1, <1>3, <2>1 DEF Verdict
  <2> QED
    BY <2>2, <2>3 DEF Inductive, CachesFollowOutput, HoldsExactly
<1> QED
  BY <1>1, <1>2, <1>3

LEMMA EndIsDueHolds == Spec => []EndIsDue
<1>1. Inductive /\ FinishOpen => EndIsDue
  BY EndDue DEF EndIsDue
<1> QED
  BY <1>1, InductiveHolds, FinishOpenHolds, PTL

(* A step that ends a running run is the abstract end. *)
LEMMA EndFinishes ==
  ASSUME EndIsDue',
         pc \notin {"done", "thrown"}, pc' = "done", UNCHANGED <<weights, budget>>,
         \/ Contract!Grows /\ ~Contract!Complete(budget, tokens)
         \/ UNCHANGED tokens
  PROVE  Contract!Finish
<1>1. /\ Complete(budget', tokens')
      /\ finish' = Verdict(budget', tokens')
      /\ model'.mla = Prompt \o AllButLast(tokens')
  BY DEF EndIsDue
<1>2. /\ Contract!Complete(budget, tokens')
      /\ finish' = Contract!Verdict(budget, tokens')
      /\ model'.mla = Prompt \o Contract!AllButLast(tokens')
  BY <1>1, SameModel
<1> QED
  BY <1>2 DEF Contract!Finish

(* An anchor that opens no round is the last token of the run. *)
LEMMA AnchorFinishes ==
  ASSUME Inductive, Inductive', EndIsDue', StopAtEos \/ StopAtBudget
  PROVE  Contract!Finish
<1>1. /\ pc = "top" /\ pc' = "done" /\ Len(tokens) < budget
      /\ anchor' = Argmax(weights, model) /\ tokens' = Append(tokens, anchor')
      /\ UNCHANGED <<weights, budget>>
  BY DEF StopAtEos, StopAtBudget, EmitAnchor, input
<1>2. tokens \in Seq(Token) /\ anchor' \in Token /\ budget \in Nat /\ Len(tokens) \in Nat
  BY DflashAssumption, LenProperties DEF Inductive, TypeOK
<1>3. Contract!Grows
  <2> DEFINE ext == <<anchor'>>
  <2>1. ext \in Seq(Token) /\ Len(ext) > 0 /\ tokens' = tokens \o ext
    BY <1>1, <1>2, AppendIsConcat
  <2> HIDE DEF ext
  <2> QED
    BY <1>1, <1>2, <2>1, Extends DEF Inductive
<1>4. ~Complete(budget, tokens)
  BY <1>1, <1>2 DEF Inductive, AtTop, Complete
<1>5. ~Contract!Complete(budget, tokens)
  BY <1>4, SameModel
<1> QED
  BY <1>1, <1>3, <1>5, EndFinishes

(* Every call of the loop is an abstract step or invisible. *)
LEMMA StepRefines ==
  Inductive /\ Inductive' /\ EndIsDue' /\ [Next]_vars => [Contract!Next]_Contract!tvars
<1> SUFFICES ASSUME Inductive, Inductive', EndIsDue', [Next]_vars
             PROVE  Contract!Next \/ UNCHANGED Contract!tvars
  OBVIOUS
<1>1. CASE PrimeCaptureKda \/ StepPrompt \/ Propose \/ VerifyStep
  <2>1. /\ pc \notin {"done", "thrown"} /\ pc' \notin {"done", "thrown"}
        /\ UNCHANGED <<weights, budget, tokens>>
    BY <1>1 DEF PrimeCaptureKda, StepPrompt, Propose, VerifyStep, input, output
  <2> QED
    BY <2>1, Invisible
<1>2. CASE StopAtEos \/ StopAtBudget
  BY <1>2, AnchorFinishes DEF Contract!Next
<1>3. CASE CommitRound
  BY <1>3, CommitEmits DEF Contract!Next
<1>4. CASE ExitLoop
  <2>1. pc = "top" /\ pc' = "done" /\ UNCHANGED <<weights, budget, tokens>>
    BY <1>4 DEF ExitLoop, input, output
  <2> QED
    BY <2>1, EndFinishes DEF Contract!Next
<1>5. CASE MaterializeStep
  <2>1. pc = "materialize" /\ UNCHANGED <<weights, budget, tokens>>
    BY <1>5 DEF MaterializeStep, input
  <2>2. pc' \in {"materialize", "top", "done"}
    BY <1>5, <2>1 DEF MaterializeStep, LastStep
  <2>3. CASE pc' = "done"
    BY <2>1, <2>3, EndFinishes DEF Contract!Next
  <2>4. CASE pc' # "done"
    BY <2>1, <2>2, <2>4, Invisible
  <2> QED
    BY <2>3, <2>4
<1>6. CASE Throw \/ VerifyThrows
  <2>1. /\ pc \notin {"done", "thrown"} /\ pc' = "thrown"
        /\ UNCHANGED <<weights, budget, tokens>>
    BY <1>6 DEF Throw, VerifyThrows, input, output
  <2>2. Contract!Abort
    BY <2>1 DEF Contract!Abort
  <2> QED
    BY <2>2 DEF Contract!Next
<1>7. CASE UNCHANGED vars
  BY <1>7 DEF vars, Contract!tvars
<1> QED
  BY <1>1, <1>2, <1>3, <1>4, <1>5, <1>6, <1>7 DEF Next, Stopped

(* The loop implements the promise both decoders make: its output grows    *)
(* along target-only generation, it ends where that ends and hands over    *)
(* caches that cover all tokens but the last, or it throws                 *)
(* (dflash_loop.hpp:30-114).                                               *)
THEOREM DflashKeepsContract == Spec => KeepsContract
<1>1. Init => Contract!Init
  BY DEF Init, Contract!Init
<1> QED
  BY <1>1, StepRefines, InductiveHolds, EndIsDueHolds, PTL DEF Spec, KeepsContract, Contract!Spec

-----------------------------------------------------------------------------
(* The commit rule by itself: the two rank records never part, for every   *)
(* token set, record size and draft length, and what a commit of a draft   *)
(* reports is the target's.                                                *)

LEMMA ListIsSeq ==
  ASSUME NEW n \in Nat, NEW list \in Lists(n)
  PROVE  list \in Seq(TokenId) /\ Len(list) \in Nat /\ Len(list) <= n
<1>1. PICK len \in 0..n : list \in [1..len -> TokenId]
  BY DEF Lists
<1> QED
  BY <1>1, FunctionIsSeq

(* The accepted tokens: the target's own, all but the last of them         *)
(* drafted, and short of the whole only where the draft disagrees.         *)
LEMMA AcceptedFollowsTarget ==
  ASSUME NEW draft \in Lists(MaxDraft + 1), NEW target \in [1..(Len(draft) + 1) -> TokenId]
  PROVE  LET view == Accepted(draft, target)
             n == Len(view)
         IN /\ view \in Seq(TokenId)
            /\ n \in 1..Len(target) /\ Len(target) = Len(draft) + 1
            /\ view = SubSeq(target, 1, n)
            /\ \A i \in 1..(n - 1) : draft[i] = target[i]
            /\ n < Len(target) => draft[n] # target[n]
<1> DEFINE m == CommonPrefix(draft, target)
           view == Accepted(draft, target)
<1>1. /\ draft \in Seq(TokenId) /\ Len(draft) \in Nat
      /\ target \in Seq(TokenId) /\ Len(target) = Len(draft) + 1
  <2>1. draft \in Seq(TokenId) /\ Len(draft) \in Nat
    BY CommitAssumption, ListIsSeq
  <2> QED
    BY <2>1, FunctionIsSeq
<1>2. /\ m \in 0..Len(draft)
      /\ \A i \in 1..m : draft[i] = target[i]
      /\ m < Len(draft) => draft[m + 1] # target[m + 1]
  <2>1. /\ m \in 0..Len(draft) /\ m <= Len(target)
        /\ \A i \in 1..m : draft[i] = target[i]
        /\ m < Len(draft) /\ m < Len(target) => draft[m + 1] # target[m + 1]
    BY <1>1, LongestPrefixExists DEF CommonPrefix
  <2> HIDE DEF m
  <2> QED
    BY <1>1, <2>1
<1>3. view = Append(SubSeq(draft, 1, m), target[m + 1])
  BY DEF Accepted
<1> HIDE DEF m, view
<1>4. m + 1 \in 1..Len(target) /\ target[m + 1] \in TokenId
  BY <1>1, <1>2, ElementOfSeq
<1>5. /\ SubSeq(draft, 1, m) \in Seq(TokenId) /\ Len(SubSeq(draft, 1, m)) = m
      /\ \A i \in 1..m : SubSeq(draft, 1, m)[i] = draft[i]
  BY <1>1, <1>2, TakeProperties
<1>6. /\ view \in Seq(TokenId) /\ Len(view) = m + 1
      /\ \A i \in 1..m : view[i] = draft[i]
      /\ view[m + 1] = target[m + 1]
  BY <1>3, <1>4, <1>5, AppendProperties
<1>7. \A i \in 1..(m + 1) : view[i] = target[i]
  BY <1>2, <1>6
<1>8. view = SubSeq(target, 1, m + 1)
  <2>1. m + 1 \in 0..Len(target)
    BY <1>4
  <2>2. /\ SubSeq(target, 1, m + 1) \in Seq(TokenId) /\ Len(SubSeq(target, 1, m + 1)) = m + 1
        /\ \A i \in 1..(m + 1) : SubSeq(target, 1, m + 1)[i] = target[i]
    BY <1>1, <2>1, TakeProperties
  <2> QED
    BY <1>6, <1>7, <2>2, SeqEqual
<1>9. Len(view) - 1 = m /\ (Len(view) < Len(target) => m < Len(draft))
  BY <1>1, <1>2, <1>6
<1> QED
  BY <1>1, <1>2, <1>4, <1>6, <1>8, <1>9 DEF view

-----------------------------------------------------------------------------
(* Between any two calls the records are equal. *)
SameRecords == rank0 = rank1

(* Equal views are written to both records, whatever the slots held. *)
LEMMA CommitKeepsSame ==
  ASSUME SameRecords, NEW view0, NEW view1, CommitViews(view0, view1)
  PROVE  /\ rank0' = rank1'
         /\ ~SameTokens(view0, view1) => UNCHANGED <<rank0, rank1>>
         /\ SameTokens(view0, view1) => rank0' = Write(rank0, view0)
<1>1. CASE SameTokens(view0, view1)
  BY <1>1 DEF CommitViews, SameRecords, SameTokens
<1>2. CASE ~SameTokens(view0, view1)
  BY <1>2 DEF CommitViews, SameRecords
<1> QED
  BY <1>1, <1>2

(* One call, of either kind. *)
LEMMA CallKeepsSame ==
  ASSUME SameRecords, CommitNext
  PROVE  /\ rank0' = rank1'
         /\ ~result'.agree => UNCHANGED <<rank0, rank1>>
         /\ result'.agree => \A i \in 1..Len(result'.tokens) :
              rank0'.tokens[i] = result'.tokens[i] /\ rank1'.tokens[i] = result'.tokens[i]
<1>1. CASE \E view0, view1 \in Lists(MaxCommit + 1) : CommitSameTokens(view0, view1)
  <2>1. PICK view0 \in Lists(MaxCommit + 1), view1 \in Lists(MaxCommit + 1) :
          CommitSameTokens(view0, view1)
    BY <1>1
  <2>2. /\ CommitViews(view0, view1)
        /\ result'.agree = SameTokens(view0, view1) /\ result'.tokens = << >>
    BY <2>1 DEF CommitSameTokens
  <2>3. 1..Len(result'.tokens) = {}
    BY <2>2
  <2> QED
    BY <2>2, <2>3, CommitKeepsSame
<1>2. CASE \E draft \in Lists(MaxDraft + 1) : \E target \in [1..(Len(draft) + 1) -> TokenId] :
             CommitDflash2(draft, target)
  <2>0. PICK draft \in Lists(MaxDraft + 1) :
          \E target \in [1..(Len(draft) + 1) -> TokenId] : CommitDflash2(draft, target)
    BY <1>2
  <2>1. PICK target \in [1..(Len(draft) + 1) -> TokenId] : CommitDflash2(draft, target)
    BY <2>0
  <2>2. CASE ~DraftOk(draft)
    BY <2>1, <2>2 DEF CommitDflash2, SameRecords
  <2>3. CASE DraftOk(draft)
    <3> DEFINE view == Accepted(draft, target)
    <3>1. CommitViews(view, view) /\ result'.agree = SameTokens(view, view) /\ result'.tokens = view
      BY <2>1, <2>3 DEF CommitDflash2
    <3>2. Len(view) \in Nat
      BY AcceptedFollowsTarget, LenProperties
    <3> HIDE DEF view
    <3>3. /\ rank0' = rank1'
          /\ ~SameTokens(view, view) => UNCHANGED <<rank0, rank1>>
          /\ SameTokens(view, view) => rank0' = Write(rank0, view)
      BY <3>1, CommitKeepsSame
    <3>4. ASSUME SameTokens(view, view), NEW i \in 1..Len(view)
          PROVE  rank0'.tokens[i] = view[i]
      <4>1. i \in 1..MaxCommit /\ i <= Len(view)
        BY <3>2, <3>4, CommitAssumption DEF SameTokens
      <4>2. Write(rank0, view).tokens[i] = view[i]
        BY <4>1 DEF Write
      <4> QED
        BY <3>3, <3>4, <4>2
    <3> QED
      BY <3>1, <3>3, <3>4
  <2> QED
    BY <2>2, <2>3
<1> QED
  BY <1>1, <1>2 DEF CommitNext

(* Whatever mixture of calls came before, a call leaves the same record on *)
(* both ranks, writes nothing when it reports disagreement and its tokens  *)
(* on both when it agrees (speculative.cpp:8-38).                          *)
THEOREM CommitIsAllOrNothing == CommitSpec => CommitsAreAllOrNothing
<1> DEFINE Whole ==
      /\ rank0' = rank1'
      /\ ~result'.agree => UNCHANGED <<rank0, rank1>>
      /\ result'.agree => \A i \in 1..Len(result'.tokens) :
           rank0'.tokens[i] = result'.tokens[i] /\ rank1'.tokens[i] = result'.tokens[i]
<1>1. CommitInit => SameRecords
  BY DEF CommitInit, SameRecords
<1>2. SameRecords /\ [CommitNext]_cvars => SameRecords'
  BY CallKeepsSame DEF SameRecords, cvars
<1>3. SameRecords /\ [CommitNext]_cvars => [Whole]_cvars
  BY CallKeepsSame
<1> HIDE DEF Whole
<1>4. CommitSpec => [][Whole]_cvars
  BY <1>1, <1>2, <1>3, PTL DEF CommitSpec
<1> QED
  BY <1>4 DEF Whole, CommitsAreAllOrNothing

(* What a commit of a draft reports is what target-only generation would   *)
(* emit, as far as the draft agrees and one token further                  *)
(* (speculative.cpp:27-38).                                                *)
THEOREM CommittedDraftsFollowTarget == CommitSpec => DraftsFollowTarget
<1> DEFINE Follows ==
      \A draft \in Lists(MaxDraft) : \A target \in [1..(Len(draft) + 1) -> TokenId] :
        CommitDflash2(draft, target) /\ result'.agree =>
          LET n == Len(result'.tokens) IN
          /\ n \in 1..Len(target)
          /\ result'.tokens = SubSeq(target, 1, n)
          /\ \A i \in 1..(n - 1) : draft[i] = target[i]
          /\ n < Len(target) => draft[n] # target[n]
<1>1. Follows
  <2> SUFFICES ASSUME NEW draft \in Lists(MaxDraft),
                      NEW target \in [1..(Len(draft) + 1) -> TokenId],
                      CommitDflash2(draft, target), result'.agree
               PROVE  LET n == Len(result'.tokens) IN
                      /\ n \in 1..Len(target)
                      /\ result'.tokens = SubSeq(target, 1, n)
                      /\ \A i \in 1..(n - 1) : draft[i] = target[i]
                      /\ n < Len(target) => draft[n] # target[n]
    OBVIOUS
  <2>1. result'.tokens = Accepted(draft, target)
    BY DEF CommitDflash2
  <2>2. draft \in Lists(MaxDraft + 1)
    <3>1. PICK len \in 0..MaxDraft : draft \in [1..len -> TokenId]
      BY DEF Lists
    <3>2. len \in 0..(MaxDraft + 1)
      BY CommitAssumption
    <3> QED
      BY <3>1, <3>2 DEF Lists
  <2> QED
    BY <2>1, <2>2, AcceptedFollowsTarget
<1> HIDE DEF Follows
<1>2. CommitSpec => [][Follows]_cvars
  BY <1>1, PTL DEF CommitSpec
<1> QED
  BY <1>2 DEF Follows, DraftsFollowTarget
=============================================================================
