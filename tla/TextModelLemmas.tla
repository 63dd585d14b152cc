--------------------------- MODULE TextModelLemmas ---------------------------
(***************************************************************************)
(* Facts about the sequence state and about target-only generation that    *)
(* the proofs of both decoders rest on.                                    *)
(***************************************************************************)
EXTENDS TextModel, SequenceLemmas

(* Every row argmax() returns is a token id. *)
LEMMA BestRowType ==
  ASSUME NEW w, NEW kda, NEW mla PROVE BestRow(w, kda, mla) \in Token
BY TextModelAssumption DEF BestRow

LEMMA ArgmaxType == ASSUME NEW w, NEW m PROVE Argmax(w, m) \in Token
BY BestRowType DEF Argmax

LEMMA FreshType == Fresh \in TextModels
<1>1. << >> \in Seq(Token)
  BY EmptySeq
<1> QED BY <1>1 DEF Fresh, TextModels, Caches

(* What the model's operations return. *)
LEMMA StepType ==
  ASSUME NEW m \in TextModels, NEW t \in Token, NEW capture \in BOOLEAN
  PROVE  Step(m, t, capture) \in TextModels
<1>1. Append(m.kda, t) \in Seq(Token) /\ Append(m.mla, t) \in Seq(Token) /\ Append(m.taps, t) \in Seq(Token)
  BY AppendProperties DEF TextModels
<1>2. m.seen + 1 \in Nat /\ m.taps \in Seq(Token)
  BY DEF TextModels
<1> QED BY <1>1, <1>2 DEF Step, TextModels, Caches

LEMMA TornType ==
  ASSUME NEW m \in TextModels, NEW t \in Token, NEW torn \in Torn(m, t)
  PROVE  torn \in TextModels
<1>1. Append(m.kda, t) \in Seq(Token) /\ Append(m.mla, t) \in Seq(Token)
  BY AppendProperties DEF TextModels
<1> QED BY <1>1 DEF Torn, TextModels

LEMMA RestoreType ==
  ASSUME NEW m \in TextModels, NEW s \in [kda : Seq(Token), mla : Seq(Token), seen : Nat]
  PROVE  Restore(m, s) \in TextModels
BY DEF Restore, TextModels

(* A step keeps the two caches in lockstep and leaves final_ on them. *)
LEMMA StepLockstep ==
  ASSUME NEW m \in TextModels, NEW t \in Token, NEW capture \in BOOLEAN, Lockstep(m)
  PROVE  /\ Lockstep(Step(m, t, capture))
         /\ Step(m, t, capture).final = CachesOf(Step(m, t, capture))
         /\ Step(m, t, capture).mla = Append(m.mla, t)
         /\ Step(m, t, capture).taps = IF capture THEN Append(m.taps, t) ELSE m.taps
<1>1. m.mla \in Seq(Token) /\ m.kda \in Seq(Token) /\ <<RowZero>> \in Seq(Token)
  BY TextModelAssumption DEF TextModels
<1>2. <<RowZero>> \o Append(m.mla, t) = Append(<<RowZero>> \o m.mla, t)
  BY <1>1, ConcatAppend
<1>3. Len(Append(m.kda, t)) = Len(m.kda) + 1
  BY <1>1, AppendProperties
<1>4. Step(m, t, capture).kda = Append(m.kda, t) /\ Step(m, t, capture).seen = m.seen + 1
  BY DEF Step
<1>5. Step(m, t, capture).mla = Append(m.mla, t)
  BY DEF Step
<1>6. Step(m, t, capture).final = CachesOf(Step(m, t, capture))
  BY DEF Step, CachesOf
<1>7. Step(m, t, capture).taps = IF capture THEN Append(m.taps, t) ELSE m.taps
  BY DEF Step
<1>8. Lockstep(Step(m, t, capture))
  BY <1>2, <1>3, <1>4, <1>5 DEF Lockstep
<1> QED BY <1>5, <1>6, <1>7, <1>8

(* The prime step of a new model: one token in the KDA state, no latents.  *)
LEMMA PrimeFresh ==
  /\ Prime(Fresh) \in TextModels /\ Lockstep(Prime(Fresh))
  /\ Prime(Fresh).mla = << >> /\ Prime(Fresh).taps = << >>
<1>1. << >> \in Seq(Token) /\ Len(<< >>) = 0 /\ <<RowZero>> \in Seq(Token) /\ Len(<<RowZero>>) = 1
  BY EmptySeq, TextModelAssumption
<1>2. Append(<< >>, RowZero) = <<RowZero>> /\ <<RowZero>> \o << >> = <<RowZero>>
  BY <1>1, ConcatEmptySeq
<1>3. Step(Fresh, RowZero, FALSE) \in TextModels
  BY TextModelAssumption, FreshType, StepType
<1>4. Prime(Fresh) \in TextModels
  BY <1>1, <1>3 DEF Prime, TextModels
<1>5. /\ Prime(Fresh).kda = <<RowZero>> /\ Prime(Fresh).mla = << >>
      /\ Prime(Fresh).taps = << >> /\ Prime(Fresh).seen = 1
  BY <1>2 DEF Prime, Step, Fresh
<1>6. Lockstep(Prime(Fresh))
  BY <1>1, <1>2, <1>5 DEF Lockstep
<1> QED
  BY <1>4, <1>5, <1>6

(* argmax() over a model whose caches hold the prompt and toks, when       *)
(* final_ belongs to those caches, is what target-only generation emits.   *)
LEMMA ArgmaxIsGreedy ==
  ASSUME NEW m, NEW w, NEW toks, Lockstep(m), m.final = CachesOf(m), m.mla = Prompt \o toks
  PROVE  Argmax(w, m) = Greedy(w, toks)
BY DEF Argmax, Greedy, Lockstep, CachesOf

-----------------------------------------------------------------------------
(* A continuation that has not met a stop token, extended by tokens that   *)
(* target-only generation would emit next, is a longer continuation.       *)
LEMMA ContinuationExtends ==
  ASSUME NEW w, NEW n \in Nat, NEW toks \in Seq(Token), NEW ext \in Seq(Token),
         IsContinuation(w, n, toks), ~EndsEos(toks),
         Len(toks) + Len(ext) <= n,
         \A i \in 1..Len(ext) : ext[i] = Greedy(w, toks \o SubSeq(ext, 1, i - 1)),
         \A i \in 1..(Len(ext) - 1) : ext[i] \notin Eos
  PROVE  IsContinuation(w, n, toks \o ext)
<1> DEFINE all == toks \o ext
<1>1. /\ all \in Seq(Token) /\ Len(all) = Len(toks) + Len(ext)
      /\ \A i \in 1..(Len(toks) + Len(ext)) :
           all[i] = IF i <= Len(toks) THEN toks[i] ELSE ext[i - Len(toks)]
      /\ Len(toks) \in Nat /\ Len(ext) \in Nat
  BY ConcatProperties, LenProperties
<1>2. \A i \in 1..Len(toks) : SubSeq(all, 1, i - 1) = SubSeq(toks, 1, i - 1)
  <2> SUFFICES ASSUME NEW i \in 1..Len(toks) PROVE SubSeq(all, 1, i - 1) = SubSeq(toks, 1, i - 1)
    OBVIOUS
  <2>1. i - 1 \in 0..Len(toks)
    BY <1>1
  <2> QED BY <2>1, TakeLeft
<1>3. \A i \in 1..Len(ext) :
        SubSeq(all, 1, Len(toks) + (i - 1)) = toks \o SubSeq(ext, 1, i - 1)
  <2> SUFFICES ASSUME NEW i \in 1..Len(ext)
               PROVE  SubSeq(all, 1, Len(toks) + (i - 1)) = toks \o SubSeq(ext, 1, i - 1)
    OBVIOUS
  <2>1. i - 1 \in 0..Len(ext)
    BY <1>1
  <2> QED BY <2>1, TakeRight
<1> HIDE DEF all
<1>4. ASSUME NEW i \in 1..Len(all) PROVE all[i] = Greedy(w, SubSeq(all, 1, i - 1))
  <2>1. CASE i <= Len(toks)
    <3>1. i \in 1..Len(toks) /\ all[i] = toks[i]
      BY <1>1, <1>4, <2>1
    <3>2. toks[i] = Greedy(w, SubSeq(toks, 1, i - 1))
      BY <3>1 DEF IsContinuation
    <3> QED BY <3>1, <3>2, <1>2
  <2>2. CASE i > Len(toks)
    <3> DEFINE j == i - Len(toks)
    <3>1. j \in 1..Len(ext) /\ all[i] = ext[j] /\ Len(toks) + (j - 1) = i - 1
      BY <1>1, <1>4, <2>2
    <3> HIDE DEF j
    <3>2. SubSeq(all, 1, i - 1) = toks \o SubSeq(ext, 1, j - 1)
      BY <3>1, <1>3
    <3> QED BY <3>1, <3>2
  <2> QED BY <1>1, <1>4, <2>1, <2>2
<1>5. ASSUME NEW i \in 1..(Len(all) - 1) PROVE all[i] \notin Eos
  <2>1. CASE i < Len(toks)
    <3>1. i \in 1..(Len(toks) - 1) /\ all[i] = toks[i]
      BY <1>1, <1>5, <2>1
    <3> QED BY <3>1 DEF IsContinuation
  <2>2. CASE i = Len(toks)
    <3>1. toks # << >>
      BY <1>1, <1>5, <2>2, EmptySeq
    <3> QED BY <3>1, <1>1, <1>5, <2>2 DEF EndsEos
  <2>3. CASE i > Len(toks)
    <3>1. i - Len(toks) \in 1..(Len(ext) - 1) /\ all[i] = ext[i - Len(toks)]
      BY <1>1, <1>5, <2>3
    <3> QED BY <3>1
  <2> QED BY <1>1, <1>5, <2>1, <2>2, <2>3
<1>6. IsContinuation(w, n, all)
  BY <1>1, <1>4, <1>5 DEF IsContinuation
<1> QED BY <1>6 DEF all

(* One more predicted token. *)
LEMMA AppendContinues ==
  ASSUME NEW w, NEW n \in Nat, NEW toks \in Seq(Token), NEW e \in Token,
         IsContinuation(w, n, toks), ~EndsEos(toks), Len(toks) < n, e = Greedy(w, toks)
  PROVE  IsContinuation(w, n, Append(toks, e))
<1> DEFINE ext == <<e>>
<1>1. /\ ext \in Seq(Token) /\ Len(ext) = 1 /\ ext[1] = e
      /\ Append(toks, e) = toks \o ext /\ Len(toks) \in Nat
  BY AppendIsConcat, LenProperties
<1> HIDE DEF ext
<1>2. ASSUME NEW i \in 1..Len(ext) PROVE ext[i] = Greedy(w, toks \o SubSeq(ext, 1, i - 1))
  <2>1. i = 1 /\ i - 1 = 0 /\ 0 \in 0..Len(ext)
    BY <1>1, <1>2
  <2>2. SubSeq(ext, 1, i - 1) = << >>
    BY <1>1, <2>1, TakeProperties, EmptySeq
  <2>3. toks \o SubSeq(ext, 1, i - 1) = toks
    BY <2>2, ConcatEmptySeq
  <2> QED BY <1>1, <2>1, <2>3
<1>3. \A i \in 1..(Len(ext) - 1) : ext[i] \notin Eos
  BY <1>1
<1>4. Len(toks) + Len(ext) <= n
  BY <1>1
<1> QED BY <1>1, <1>2, <1>3, <1>4, ContinuationExtends

LEMMA AllButLastAppend ==
  ASSUME NEW s \in Seq(Token), NEW e \in Token
  PROVE  /\ Append(s, e) \in Seq(Token) /\ Len(Append(s, e)) = Len(s) + 1
         /\ Append(s, e)[Len(s) + 1] = e
         /\ AllButLast(Append(s, e)) = s
<1>1. /\ Append(s, e) \in Seq(Token) /\ Len(Append(s, e)) = Len(s) + 1
      /\ Append(s, e)[Len(s) + 1] = e /\ Append(s, e) = s \o <<e>>
      /\ <<e>> \in Seq(Token) /\ Len(s) \in Nat /\ Len(s) \in 0..Len(s)
  BY AppendProperties, AppendIsConcat, LenProperties
<1>2. SubSeq(s \o <<e>>, 1, Len(s)) = s
  BY <1>1, TakeLeft, TakeAll
<1>3. (Len(s) + 1) - 1 = Len(s)
  BY <1>1
<1>4. AllButLast(Append(s, e)) = SubSeq(Append(s, e), 1, Len(s))
  BY <1>1, <1>3 DEF AllButLast
<1> QED BY <1>1, <1>2, <1>4

LEMMA AllButLastEmpty == AllButLast(<< >>) = << >>
<1>1. << >> \in Seq(Token) /\ Len(<< >>) = 0
  BY EmptySeq
<1> DEFINE none == SubSeq(<< >>, 1, -1)
<1>2. none \in Seq(Token) /\ Len(none) = 0
  <2>1. \A i \in 1..-1 : << >>[i] \in Token
    OBVIOUS
  <2> QED BY <2>1, SubSeqProperties
<1> HIDE DEF none
<1>3. none = << >>
  BY <1>2, EmptySeq
<1> QED BY <1>1, <1>3 DEF AllButLast, none
=============================================================================
