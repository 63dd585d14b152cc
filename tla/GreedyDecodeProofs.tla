-------------------------- MODULE GreedyDecodeProofs --------------------------
(***************************************************************************)
(* greedy_tokens implements TargetContinuation, for every checkpoint,      *)
(* prompt and positive budget: every token it pushes is the next one of    *)
(* target-only generation, and its caches stay one token behind.           *)
(***************************************************************************)
EXTENDS GreedyDecode, TextModelLemmas

(* What the caches hold, by the point the decoder has reached. *)
InPrime == pc = "prime" => model = Fresh /\ tokens = << >>

InPrompt ==
  pc = "prompt" =>
    /\ tokens = << >>
    /\ Len(model.mla) < Len(Prompt)
    /\ model.mla = SubSeq(Prompt, 1, Len(model.mla))

AtArgmax ==
  pc = "argmax" =>
    /\ model.mla = Prompt \o tokens
    /\ model.final = CachesOf(model)
    /\ ~EndsEos(tokens) /\ Len(tokens) < budget

OneBehind == tokens # << >> /\ model.mla = Prompt \o AllButLast(tokens)

AtStep == pc = "step" => OneBehind /\ ~EndsEos(tokens) /\ Len(tokens) < budget

AtEnd == pc = "done" => OneBehind /\ Complete(budget, tokens)

GreedyInvariant ==
  /\ TypeOK /\ PrimedCachesInStep
  /\ IsContinuation(weights, budget, tokens)
  /\ InPrime /\ InPrompt /\ AtArgmax /\ AtStep /\ AtEnd

-----------------------------------------------------------------------------
LEMMA GreedyInit == Init => GreedyInvariant
<1> SUFFICES ASSUME Init PROVE GreedyInvariant
  OBVIOUS
<1>1. << >> \in Seq(Token) /\ Len(<< >>) = 0
  BY EmptySeq
<1>2. TypeOK
  BY <1>1, FreshType DEF Init, TypeOK
<1>3. IsContinuation(weights, budget, tokens)
  BY <1>1, GreedyAssumption DEF Init, IsContinuation
<1> QED
  BY <1>2, <1>3 DEF Init, GreedyInvariant, PrimedCachesInStep, InPrime, InPrompt, AtArgmax,
                    AtStep, AtEnd

LEMMA GreedyPrime ==
  ASSUME GreedyInvariant, PrimeCaptureKda PROVE GreedyInvariant'
<1>1. /\ pc = "prime" /\ pc' = "prompt" /\ model' = Prime(Fresh) /\ tokens = << >>
      /\ UNCHANGED <<weights, budget, tokens>>
  BY DEF PrimeCaptureKda, GreedyInvariant, InPrime, input
<1>2. model' \in TextModels /\ Lockstep(model') /\ model'.mla = << >>
  BY <1>1, PrimeFresh
<1>3. TypeOK' /\ PrimedCachesInStep'
  BY <1>1, <1>2 DEF GreedyInvariant, TypeOK, PrimedCachesInStep, Lockstep
<1>4. IsContinuation(weights, budget, tokens)'
  BY <1>1 DEF GreedyInvariant, IsContinuation
<1>5. InPrompt'
  <2>1. Len(<< >>) = 0 /\ Len(Prompt) \in Nat /\ Len(Prompt) > 0
    BY TextModelAssumption, EmptySeq, LenProperties
  <2>2. SubSeq(Prompt, 1, 0) = << >>
    BY TextModelAssumption, <2>1, TakeProperties, EmptySeq
  <2> QED
    BY <1>1, <1>2, <2>1, <2>2 DEF InPrompt
<1> QED
  BY <1>1, <1>3, <1>4, <1>5 DEF GreedyInvariant, InPrime, AtArgmax, AtStep, AtEnd

LEMMA GreedyPrompt ==
  ASSUME GreedyInvariant, StepPrompt PROVE GreedyInvariant'
<1> DEFINE n == Len(model.mla)
           at == n + 1
<1>1. /\ pc = "prompt" /\ model' = Step(model, Prompt[at], TRUE)
      /\ pc' = IF at = Len(Prompt) THEN "argmax" ELSE "prompt"
      /\ UNCHANGED <<weights, budget, tokens>>
  BY DEF StepPrompt, input
<1>2. /\ model \in TextModels /\ Lockstep(model) /\ tokens = << >>
      /\ n < Len(Prompt) /\ model.mla = SubSeq(Prompt, 1, n)
  BY <1>1 DEF GreedyInvariant, TypeOK, InPrompt, PrimedCachesInStep
<1>3. Prompt \in Seq(Token) /\ Len(Prompt) \in Nat /\ n \in Nat
  BY <1>2, TextModelAssumption, LenProperties DEF TextModels
<1>4. n \in 0..(Len(Prompt) - 1) /\ at \in 1..Len(Prompt) /\ Prompt[at] \in Token
  BY <1>2, <1>3, ElementOfSeq
<1>5. /\ model' \in TextModels /\ Lockstep(model') /\ model'.final = CachesOf(model')
      /\ model'.mla = Append(model.mla, Prompt[at])
  BY <1>1, <1>2, <1>4, StepType, StepLockstep
<1>6. model'.mla = SubSeq(Prompt, 1, at) /\ Len(model'.mla) = at
  <2>1. SubSeq(Prompt, 1, n + 1) = Append(SubSeq(Prompt, 1, n), Prompt[n + 1])
    BY <1>3, <1>4, TakeOneMore
  <2>2. Len(SubSeq(Prompt, 1, at)) = at
    BY <1>3, <1>4, TakeProperties
  <2> QED
    BY <1>2, <1>5, <2>1, <2>2
<1> HIDE DEF at
<1>7. TypeOK' /\ PrimedCachesInStep' /\ IsContinuation(weights, budget, tokens)'
  BY <1>1, <1>5 DEF GreedyInvariant, TypeOK, PrimedCachesInStep, Lockstep, IsContinuation
<1>8. CASE at = Len(Prompt)
  <2>1. pc' = "argmax" /\ model'.mla = Prompt \o tokens'
    BY <1>1, <1>2, <1>3, <1>6, <1>8, TakeAll, ConcatEmptySeq
  <2>2. Len(tokens') < budget' /\ ~EndsEos(tokens')
    BY <1>1, <1>2, GreedyAssumption, EmptySeq DEF GreedyInvariant, TypeOK, EndsEos
  <2>3. AtArgmax'
    BY <1>5, <2>1, <2>2 DEF AtArgmax, CachesOf
  <2> QED
    BY <1>7, <2>1, <2>3 DEF GreedyInvariant, InPrime, InPrompt, AtStep, AtEnd
<1>9. CASE at # Len(Prompt)
  <2>1. pc' = "prompt" /\ at < Len(Prompt)
    BY <1>1, <1>3, <1>4, <1>9 DEF at
  <2>2. InPrompt'
    BY <1>1, <1>2, <1>6, <2>1 DEF InPrompt
  <2> QED
    BY <1>7, <2>1, <2>2 DEF GreedyInvariant, InPrime, AtArgmax, AtStep, AtEnd
<1> QED
  BY <1>8, <1>9

(* argmax() pushes the next token of target-only generation. *)
LEMMA PushedToken ==
  ASSUME GreedyInvariant, PushArgmax
  PROVE  /\ tokens \in Seq(Token) /\ Len(tokens) \in Nat /\ budget \in Nat
         /\ ~EndsEos(tokens) /\ Len(tokens) < budget
         /\ Argmax(weights, model) \in Token
         /\ tokens' = Append(tokens, Argmax(weights, model))
         /\ tokens' \in Seq(Token) /\ Len(tokens') = Len(tokens) + 1 /\ tokens' # << >>
         /\ AllButLast(tokens') = tokens
         /\ EndsEos(tokens') <=> Argmax(weights, model) \in Eos
         /\ IsContinuation(weights, budget, tokens')
         /\ model.mla = Prompt \o tokens
<1> DEFINE e == Argmax(weights, model)
<1>1. /\ pc = "argmax" /\ tokens' = Append(tokens, e)
      /\ tokens \in Seq(Token) /\ budget \in Nat /\ Lockstep(model)
      /\ model.mla = Prompt \o tokens /\ model.final = CachesOf(model)
      /\ ~EndsEos(tokens) /\ Len(tokens) < budget
      /\ IsContinuation(weights, budget, tokens)
  BY GreedyAssumption DEF PushArgmax, GreedyInvariant, TypeOK, AtArgmax, PrimedCachesInStep
<1>2. e \in Token /\ e = Greedy(weights, tokens)
  BY <1>1, ArgmaxType, ArgmaxIsGreedy
<1> HIDE DEF e
<1>3. /\ tokens' \in Seq(Token) /\ Len(tokens') = Len(tokens) + 1 /\ Len(tokens) \in Nat
      /\ tokens'[Len(tokens')] = e /\ AllButLast(tokens') = tokens
  BY <1>1, <1>2, AllButLastAppend, LenProperties
<1>4. tokens' # << >>
  BY <1>3, EmptySeq
<1>5. EndsEos(tokens') <=> e \in Eos
  BY <1>3, <1>4 DEF EndsEos
<1>6. IsContinuation(weights, budget, tokens')
  BY <1>1, <1>2, AppendContinues
<1> QED
  BY <1>1, <1>2, <1>3, <1>4, <1>5, <1>6 DEF e

LEMMA GreedyPush ==
  ASSUME GreedyInvariant, PushArgmax PROVE GreedyInvariant'
<1> DEFINE e == Argmax(weights, model)
<1>1. /\ pc = "argmax"
      /\ pc' = IF e \in Eos \/ Len(tokens') = budget THEN "done" ELSE "step"
      /\ UNCHANGED <<weights, budget, model>>
  BY DEF PushArgmax, input
<1>2. /\ tokens' \in Seq(Token) /\ Len(tokens) \in Nat /\ budget \in Nat
      /\ Len(tokens') = Len(tokens) + 1 /\ Len(tokens) < budget
      /\ EndsEos(tokens') <=> e \in Eos
      /\ IsContinuation(weights, budget, tokens')
  BY PushedToken
<1>3. /\ tokens' # << >> /\ AllButLast(tokens') = tokens /\ model.mla = Prompt \o tokens
  BY PushedToken
<1> HIDE DEF e
<1>4. TypeOK'
  BY <1>1, <1>2 DEF GreedyInvariant, TypeOK
<1>5. PrimedCachesInStep'
  BY <1>1 DEF GreedyInvariant, PrimedCachesInStep
<1>6. IsContinuation(weights, budget, tokens)'
  BY <1>1, <1>2 DEF IsContinuation
<1>7. OneBehind'
  BY <1>1, <1>3 DEF OneBehind, AllButLast
<1>8. CASE e \in Eos \/ Len(tokens') = budget
  <2>1. Complete(budget', tokens')
    BY <1>1, <1>2, <1>8 DEF Complete
  <2> QED
    BY <1>1, <1>4, <1>5, <1>6, <1>7, <1>8, <2>1
    DEF GreedyInvariant, InPrime, InPrompt, AtArgmax, AtStep, AtEnd, Complete, EndsEos
<1>9. CASE ~(e \in Eos \/ Len(tokens') = budget)
  <2>1. ~EndsEos(tokens') /\ Len(tokens') < budget'
    BY <1>1, <1>2, <1>9
  <2> QED
    BY <1>1, <1>4, <1>5, <1>6, <1>7, <1>9, <2>1
    DEF GreedyInvariant, InPrime, InPrompt, AtArgmax, AtStep, AtEnd, EndsEos
<1> QED
  BY <1>8, <1>9

LEMMA GreedyStep ==
  ASSUME GreedyInvariant, StepGenerated PROVE GreedyInvariant'
<1> DEFINE last == tokens[Len(tokens)]
<1>1. /\ pc = "step" /\ pc' = "argmax" /\ model' = Step(model, last, FALSE)
      /\ UNCHANGED <<weights, budget, tokens>>
  BY DEF StepGenerated, input
<1>2. /\ model \in TextModels /\ Lockstep(model) /\ tokens \in Seq(Token) /\ tokens # << >>
      /\ model.mla = Prompt \o AllButLast(tokens)
      /\ ~EndsEos(tokens) /\ Len(tokens) < budget
  BY <1>1 DEF GreedyInvariant, TypeOK, AtStep, OneBehind, PrimedCachesInStep
<1>3. Len(tokens) \in Nat \ {0} /\ last \in Token
  BY <1>2, EmptySeq, LenProperties, ElementOfSeq
<1> HIDE DEF last
<1>4. /\ model' \in TextModels /\ Lockstep(model') /\ model'.final = CachesOf(model')
      /\ model'.mla = Append(model.mla, last)
  BY <1>1, <1>2, <1>3, StepType, StepLockstep
<1>5. model'.mla = Prompt \o tokens
  <2>1. Len(tokens) - 1 \in 0..(Len(tokens) - 1) /\ (Len(tokens) - 1) + 1 = Len(tokens)
    BY <1>3
  <2>2. SubSeq(tokens, 1, Len(tokens)) = Append(AllButLast(tokens), last)
    BY <1>2, <2>1, TakeOneMore DEF AllButLast, last
  <2>3. tokens = Append(AllButLast(tokens), last)
    BY <1>2, <2>2, TakeAll
  <2>4. AllButLast(tokens) \in Seq(Token)
    BY <1>2, <1>3, <2>1, TakeProperties DEF AllButLast
  <2>5. Prompt \o Append(AllButLast(tokens), last) = Append(Prompt \o AllButLast(tokens), last)
    BY <1>3, <2>4, TextModelAssumption, ConcatAppend
  <2> QED
    BY <1>2, <1>4, <2>3, <2>5
<1>6. TypeOK' /\ PrimedCachesInStep' /\ IsContinuation(weights, budget, tokens)'
  BY <1>1, <1>4 DEF GreedyInvariant, TypeOK, PrimedCachesInStep, Lockstep, IsContinuation
<1>7. AtArgmax'
  BY <1>1, <1>2, <1>4, <1>5 DEF AtArgmax, CachesOf, EndsEos
<1> QED
  BY <1>1, <1>6, <1>7 DEF GreedyInvariant, InPrime, InPrompt, AtStep, AtEnd

LEMMA GreedyThrow ==
  ASSUME GreedyInvariant, Throw PROVE GreedyInvariant'
<1>1. /\ pc \notin {"done", "thrown"} /\ pc' = "thrown" /\ UNCHANGED <<weights, budget, tokens>>
      /\ model' \in IF pc = "argmax" THEN {model} ELSE Torn(model, StepToken)
  BY DEF Throw, input
<1>2. StepToken \in Token
  <2>1. CASE pc = "prompt"
    <3>1. Prompt \in Seq(Token) /\ Len(Prompt) \in Nat /\ Len(model.mla) \in Nat
      BY TextModelAssumption, LenProperties DEF GreedyInvariant, TypeOK, TextModels
    <3>2. Len(model.mla) + 1 \in 1..Len(Prompt)
      BY <2>1, <3>1 DEF GreedyInvariant, InPrompt
    <3> QED
      BY <2>1, <3>1, <3>2, ElementOfSeq DEF StepToken
  <2>2. CASE pc = "step"
    <3>1. tokens \in Seq(Token) /\ tokens # << >>
      BY <2>2 DEF GreedyInvariant, TypeOK, AtStep, OneBehind
    <3>2. Len(tokens) \in 1..Len(tokens)
      BY <3>1, EmptySeq, LenProperties
    <3> QED
      BY <2>2, <3>1, <3>2, ElementOfSeq DEF StepToken
  <2>3. CASE pc \notin {"prompt", "step"}
    BY <2>3, TextModelAssumption DEF StepToken
  <2> QED
    BY <2>1, <2>2, <2>3
<1>3. model' \in TextModels
  <2>1. model \in TextModels
    BY DEF GreedyInvariant, TypeOK
  <2> QED
    BY <1>1, <1>2, <2>1, TornType
<1>4. TypeOK' /\ IsContinuation(weights, budget, tokens)'
  BY <1>1, <1>3 DEF GreedyInvariant, TypeOK, IsContinuation
<1> QED
  BY <1>1, <1>4 DEF GreedyInvariant, PrimedCachesInStep, InPrime, InPrompt, AtArgmax, AtStep, AtEnd

LEMMA GreedyInductive == Spec => []GreedyInvariant
<1>1. GreedyInvariant /\ [Next]_vars => GreedyInvariant'
  <2> SUFFICES ASSUME GreedyInvariant, [Next]_vars
               PROVE  GreedyInvariant'
    OBVIOUS
  <2>1. CASE PrimeCaptureKda
    BY <2>1, GreedyPrime
  <2>2. CASE StepPrompt
    BY <2>2, GreedyPrompt
  <2>3. CASE PushArgmax
    BY <2>3, GreedyPush
  <2>4. CASE StepGenerated
    BY <2>4, GreedyStep
  <2>5. CASE Throw
    BY <2>5, GreedyThrow
  <2>6. CASE Stopped \/ UNCHANGED vars
    <3>1. UNCHANGED <<weights, budget, pc, model, tokens>>
      BY <2>6 DEF Stopped, vars
    <3>2. TypeOK' /\ PrimedCachesInStep'
      BY <3>1 DEF GreedyInvariant, TypeOK, PrimedCachesInStep
    <3>3. IsContinuation(weights, budget, tokens)'
      BY <3>1 DEF GreedyInvariant, IsContinuation
    <3>4. InPrime' /\ InPrompt' /\ AtArgmax'
      BY <3>1 DEF GreedyInvariant, InPrime, InPrompt, AtArgmax, CachesOf, EndsEos
    <3>5. AtStep' /\ AtEnd'
      BY <3>1 DEF GreedyInvariant, AtStep, AtEnd, OneBehind, AllButLast, Complete, EndsEos
    <3> QED
      BY <3>2, <3>3, <3>4, <3>5 DEF GreedyInvariant
  <2> QED
    BY <2>1, <2>2, <2>3, <2>4, <2>5, <2>6 DEF Next
<1> QED
  BY <1>1, GreedyInit, PTL DEF Spec

(* The prime step's KDA state survives into the request and its latents do *)
(* not: the two caches and the counter stay one primed token apart         *)
(* (text_forward.cpp:711-717).                                             *)
THEOREM GreedyCachesInStep == Spec => []PrimedCachesInStep
<1>1. GreedyInvariant => PrimedCachesInStep
  BY DEF GreedyInvariant
<1> QED
  BY <1>1, GreedyInductive, PTL

-----------------------------------------------------------------------------
(* The specification's own copy of TextModel is the decoder's. *)
LEMMA SameModel ==
  ASSUME NEW w, NEW n, NEW toks
  PROVE  /\ Contract!IsContinuation(w, n, toks) <=> IsContinuation(w, n, toks)
         /\ Contract!Complete(n, toks) <=> Complete(n, toks)
         /\ Contract!Verdict(n, toks) = Verdict(n, toks)
         /\ Contract!AllButLast(toks) = AllButLast(toks)
<1>1. ASSUME NEW s PROVE Contract!Greedy(w, s) = Greedy(w, s)
  BY DEF Contract!Greedy, Greedy, Contract!BestRow, BestRow
<1>2. Contract!EndsEos(toks) <=> EndsEos(toks)
  BY DEF Contract!EndsEos, EndsEos
<1> QED
  BY <1>1, <1>2 DEF Contract!IsContinuation, IsContinuation, Contract!Complete, Complete,
                    Contract!Verdict, Verdict, Contract!AllButLast, AllButLast

(* A pushed token is one step along the continuation: the last one ends    *)
(* the run, with the caches one behind.                                    *)
LEMMA PushRefines ==
  ASSUME GreedyInvariant, GreedyInvariant', PushArgmax
  PROVE  Contract!Emit \/ Contract!Finish
<1>1. /\ pc = "argmax" /\ pc' \in {"done", "step"} /\ UNCHANGED <<weights, budget>>
  BY DEF PushArgmax, input
<1>2. /\ tokens \in Seq(Token) /\ Len(tokens) \in Nat /\ budget \in Nat
      /\ ~EndsEos(tokens) /\ Len(tokens) < budget
      /\ Argmax(weights, model) \in Token
      /\ tokens' = Append(tokens, Argmax(weights, model))
      /\ Len(tokens') = Len(tokens) + 1
  BY PushedToken
<1>3. AllButLast(tokens') = tokens /\ IsContinuation(weights, budget, tokens')
  BY PushedToken
<1>4. SubSeq(tokens', 1, Len(tokens)) = tokens
  BY <1>2, <1>3 DEF AllButLast
<1>5. Contract!Grows
  BY <1>2, <1>3, <1>4, SameModel DEF Contract!Grows
<1>6. ~Contract!Complete(budget, tokens)
  <2>1. ~Complete(budget, tokens)
    BY <1>2 DEF Complete
  <2> QED
    BY <2>1, SameModel
<1>7. CASE pc' = "step"
  BY <1>1, <1>5, <1>6, <1>7 DEF Contract!Emit
<1>8. CASE pc' = "done"
  <2>1. Complete(budget', tokens') /\ model'.mla = Prompt \o AllButLast(tokens')
    BY <1>8 DEF GreedyInvariant, AtEnd, OneBehind, Complete, AllButLast, EndsEos
  <2>2. /\ Contract!Complete(budget, tokens')
        /\ Verdict(budget', tokens') = Contract!Verdict(budget, tokens')
        /\ model'.mla = Prompt \o Contract!AllButLast(tokens')
    BY <1>1, <2>1, SameModel
  <2> QED
    BY <1>1, <1>5, <1>6, <1>8, <2>2 DEF Contract!Finish, Verdict, EndsEos
<1> QED
  BY <1>1, <1>7, <1>8

LEMMA GreedyStepRefines ==
  GreedyInvariant /\ GreedyInvariant' /\ [Next]_vars => [Contract!Next]_Contract!tvars
<1> SUFFICES ASSUME GreedyInvariant, GreedyInvariant', [Next]_vars
             PROVE  Contract!Next \/ UNCHANGED Contract!tvars
  OBVIOUS
<1>1. CASE PrimeCaptureKda \/ StepPrompt \/ StepGenerated
  <2>1. /\ pc \notin {"done", "thrown"} /\ pc' \notin {"done", "thrown"}
        /\ UNCHANGED <<weights, budget, tokens>>
    BY <1>1 DEF PrimeCaptureKda, StepPrompt, StepGenerated, input
  <2> QED
    BY <2>1 DEF Contract!tvars
<1>2. CASE PushArgmax
  BY <1>2, PushRefines DEF Contract!Next
<1>3. CASE Throw
  <2>1. /\ pc \notin {"done", "thrown"} /\ pc' = "thrown"
        /\ UNCHANGED <<weights, budget, tokens>>
    BY <1>3 DEF Throw, input
  <2> QED
    BY <2>1 DEF Contract!Abort, Contract!Next
<1>4. CASE Stopped \/ UNCHANGED vars
  <2>1. UNCHANGED <<weights, budget, pc, model, tokens>>
    BY <1>4 DEF Stopped, vars
  <2> QED
    BY <2>1 DEF Contract!tvars, Verdict, EndsEos
<1> QED
  BY <1>1, <1>2, <1>3, <1>4 DEF Next

(* The greedy decoder emits target-only generation token by token, stops   *)
(* at the first stop token or at the budget, and hands over caches that    *)
(* cover all tokens but the last, or throws (text_forward.cpp:1668-1683).  *)
THEOREM GreedyKeepsContract == Spec => KeepsContract
<1>1. Init => Contract!Init
  BY DEF Init, Contract!Init
<1> QED
  BY <1>1, GreedyStepRefines, GreedyInductive, PTL DEF Spec, KeepsContract, Contract!Spec
=============================================================================
