-------------------------- MODULE TargetContinuation --------------------------
(***************************************************************************)
(* What a generation promises its caller, whatever loop produces it: the   *)
(* emitted tokens only ever grow along target-only greedy generation, the  *)
(* run ends exactly where that ends (a stop token or the budget), and at   *)
(* that point the persistent sequence state covers the prompt and every    *)
(* emitted token but the last.  A run may instead end in an exception.     *)
(***************************************************************************)
EXTENDS TextModel

CONSTANT Budgets

VARIABLES
  weights,  \* the checkpoint
  budget,   \* new_tokens
  tokens,   \* emitted so far
  outcome,  \* "running", "eos", "budget", "none" or "thrown"
  stepped   \* the sequence state handed over at the end, << >> until then

tvars == <<weights, budget, tokens, outcome, stepped>>

Init ==
  /\ weights \in Models
  /\ budget \in Budgets
  /\ tokens = << >>
  /\ outcome = "running"
  /\ stepped = << >>

(* tokens' is a longer prefix of the same continuation. *)
Grows ==
  /\ Len(tokens') > Len(tokens)
  /\ SubSeq(tokens', 1, Len(tokens)) = tokens
  /\ IsContinuation(weights, budget, tokens')

Emit ==
  /\ outcome = "running" /\ ~Complete(budget, tokens)
  /\ Grows
  /\ UNCHANGED <<weights, budget, outcome, stepped>>

Finish ==
  /\ outcome = "running"
  /\ \/ Grows /\ ~Complete(budget, tokens)
     \/ UNCHANGED tokens
  /\ Complete(budget, tokens')
  /\ outcome' = Verdict(budget, tokens')
  /\ stepped' = Prompt \o AllButLast(tokens')
  /\ UNCHANGED <<weights, budget>>

Abort ==
  /\ outcome = "running"
  /\ outcome' = "thrown"
  /\ UNCHANGED <<weights, budget, tokens, stepped>>

Next == Emit \/ Finish \/ Abort

Spec == Init /\ [][Next]_tvars
=============================================================================
