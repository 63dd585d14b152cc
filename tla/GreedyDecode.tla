----------------------------- MODULE GreedyDecode -----------------------------
(***************************************************************************)
(* greedy_tokens (src/src/text_forward.cpp): target-only generation, the   *)
(* decoder of modes greedy and tp2 and of the two-host entry point.        *)
(***************************************************************************)
EXTENDS TextModel

CONSTANT Budgets  \* the values of new_tokens considered
ASSUME GreedyAssumption == Budgets \subseteq Nat \ {0}

VARIABLES
  weights,  \* the checkpoint
  budget,   \* new_tokens
  pc,       \* "prime", "prompt", "argmax", "step", "done", "thrown"
  model,    \* the TextModel
  tokens    \* generated

vars == <<weights, budget, pc, model, tokens>>
input == <<weights, budget>>

Init ==
  /\ weights \in Models
  /\ budget \in Budgets
  /\ pc = "prime"
  /\ model = Fresh
  /\ tokens = << >>

PrimeCaptureKda ==
  /\ pc = "prime"
  /\ ~Refuses(model)
  /\ model' = Prime(model)
  /\ pc' = "prompt"
  /\ UNCHANGED <<input, tokens>>

StepPrompt ==
  /\ pc = "prompt"
  /\ ~Refuses(model)
  /\ LET at == Len(model.mla) + 1
     IN  /\ model' = Step(model, Prompt[at], TRUE)
         /\ pc' = IF at = Len(Prompt) THEN "argmax" ELSE "prompt"
  /\ UNCHANGED <<input, tokens>>

(* Slip: a stop token does not stop. *)
PushPastEos ==
  /\ pc = "argmax"
  /\ tokens' = Append(tokens, Argmax(weights, model))
  /\ pc' = IF Len(tokens') = budget THEN "done" ELSE "step"
  /\ UNCHANGED <<input, model>>

(* push_back, then the break on a stop token, then the look at the budget. *)
PushArgmax ==
  /\ pc = "argmax"
  /\ tokens' = Append(tokens, Argmax(weights, model))
  /\ pc' = IF Argmax(weights, model) \in Eos \/ Len(tokens') = budget
           THEN "done" ELSE "step"
  /\ UNCHANGED <<input, model>>

StepGenerated ==
  /\ pc = "step"
  /\ ~Refuses(model)
  /\ model' = Step(model, tokens[Len(tokens)], FALSE)
  /\ pc' = "argmax"
  /\ UNCHANGED <<input, tokens>>

(* The token a step would be given now. *)
StepToken ==
  CASE pc = "prompt" -> Prompt[Len(model.mla) + 1]
    [] pc = "step" -> tokens[Len(tokens)]
    [] OTHER -> RowZero

(* The rank link fails, a tensor is missing or the indexer bound is passed. *)
Throw ==
  /\ pc \notin {"done", "thrown"}
  /\ model' \in IF pc = "argmax" THEN {model} ELSE Torn(model, StepToken)
  /\ pc' = "thrown"
  /\ UNCHANGED <<input, tokens>>

Stopped == pc \in {"done", "thrown"} /\ UNCHANGED vars

Next ==
  \/ PrimeCaptureKda \/ StepPrompt \/ PushArgmax \/ StepGenerated
  \/ Throw \/ Stopped

Spec == Init /\ [][Next]_vars

-----------------------------------------------------------------------------
TypeOK ==
  /\ weights \in Models /\ budget \in Budgets
  /\ pc \in {"prime", "prompt", "argmax", "step", "done", "thrown"}
  /\ model \in TextModels
  /\ tokens \in Seq(Token)

(* The prime step's KDA state survives into the request, its latents do    *)
(* not, and from then on the two caches and the counter move together, one *)
(* token per step (text_forward.cpp:711-717).                              *)
PrimedCachesInStep ==
  pc \notin {"prime", "thrown"} => Lockstep(model)

Contract == INSTANCE TargetContinuation WITH
  outcome <- CASE pc = "done" -> Verdict(budget, tokens)
               [] pc = "thrown" -> "thrown"
               [] OTHER -> "running",
  stepped <- IF pc = "done" THEN model.mla ELSE << >>

(* The greedy decoder emits target-only generation, stops where it stops   *)
(* and hands over a cache that covers all emitted tokens but the last.     *)
KeepsContract == Contract!Spec
=============================================================================
