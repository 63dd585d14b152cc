------------------------------ MODULE DflashLoop ------------------------------
(***************************************************************************)
(* generate_dflash_continuation (src/include/ninfer_glm53/dflash_loop.hpp) *)
(* over a TextModel, preceded by the prime step of dflash_tokens.  Every   *)
(* call that changes the model is a step of its own, so an exception can   *)
(* come between any two of them or inside one.  The draft is external to   *)
(* the loop: its proposals are arbitrary.                                  *)
(***************************************************************************)
EXTENDS TextModel, Commit

CONSTANTS
  K,        \* kDflashProposals (7)
  Budgets   \* the values of new_tokens considered

ASSUME DflashAssumption ==
  /\ K \in 1..MaxDraft
  /\ Budgets \subseteq Nat

VARIABLES
  weights,       \* the checkpoint
  budget,        \* new_tokens
  pc,            \* "prime", "prompt", "top", "verify", "materialize", "done", "thrown"
  model,         \* the TextModel
  tokens,        \* out.tokens
  finish,        \* out.finish, "none" while it is empty
  anchor,        \* the round's argmax
  proposals,     \* out.last_proposals
  snapshot,      \* save() before the verify steps
  posterior,     \* argmax after the anchor and after each proposal
  pending,       \* accepted tokens of the round still to be stepped
  materialized,  \* out.materialized_generated
  accepted,      \* out.accepted_drafts
  rounds         \* out.verify_rounds

vars == <<weights, budget, pc, model, tokens, finish, anchor, proposals, snapshot,
          posterior, pending, materialized, accepted, rounds>>

input == <<weights, budget>>
output == <<tokens, finish, materialized, accepted, rounds>>
scratch == <<anchor, proposals, snapshot, posterior, pending>>

Drafts == [1..K -> Token]
NoSnapshot == Save(Fresh)

Init ==
  /\ weights \in Models
  /\ budget \in Budgets
  /\ pc = "prime"
  /\ model = Fresh
  /\ tokens = << >> /\ finish = "none" /\ materialized = << >>
  /\ accepted = 0 /\ rounds = 0
  /\ anchor = RowZero /\ proposals = << >> /\ snapshot = NoSnapshot
  /\ posterior = << >> /\ pending = << >>

-----------------------------------------------------------------------------
PrimeCaptureKda ==
  /\ pc = "prime"
  /\ ~Refuses(model)
  /\ model' = Prime(model)
  /\ pc' = "prompt"
  /\ UNCHANGED <<input, output, scratch>>

(* Taps are recorded while the prompt is stepped. *)
StepPrompt ==
  /\ pc = "prompt"
  /\ ~Refuses(model)
  /\ LET at == Len(model.mla) + 1
     IN  /\ model' = Step(model, Prompt[at], TRUE)
         /\ pc' = IF at = Len(Prompt) THEN "top" ELSE "prompt"
  /\ UNCHANGED <<input, output, scratch>>

(* The while condition. *)
ExitLoop ==
  /\ pc = "top"
  /\ Len(tokens) >= budget
  /\ pc' = "done"
  /\ UNCHANGED <<input, model, output, scratch>>

(* The anchor is emitted and not stepped: it is a stop token, or it is the *)
(* last one the budget allows.                                             *)
EmitAnchor(why) ==
  /\ tokens' = Append(tokens, anchor')
  /\ finish' = why
  /\ pc' = "done"
  /\ UNCHANGED <<input, model, proposals, snapshot, posterior, pending,
                 materialized, accepted, rounds>>

StopAtEos ==
  /\ pc = "top" /\ Len(tokens) < budget
  /\ anchor' = Argmax(weights, model)
  /\ anchor' \in Eos
  /\ EmitAnchor("eos")

StopAtBudget ==
  /\ pc = "top" /\ Len(tokens) < budget
  /\ anchor' = Argmax(weights, model)
  /\ anchor' \notin Eos
  /\ Len(tokens) + 1 = budget
  /\ EmitAnchor("budget")

(* A round opens: propose, then save. *)
Propose ==
  /\ pc = "top" /\ Len(tokens) < budget
  /\ anchor' = Argmax(weights, model)
  /\ anchor' \notin Eos
  /\ Len(tokens) + 1 # budget
  /\ proposals' \in Drafts
  /\ snapshot' = Save(model)
  /\ posterior' = << >>
  /\ pc' = "verify"
  /\ UNCHANGED <<input, model, output, pending>>

(* The tokens the verify phase steps. *)
VerifyPath == <<anchor>> \o proposals

VerifyStep ==
  /\ pc = "verify" /\ Len(posterior) <= K
  /\ ~Refuses(model)
  /\ model' = Step(model, VerifyPath[Len(posterior) + 1], FALSE)
  /\ posterior' = Append(posterior, Argmax(weights, model'))
  /\ UNCHANGED <<input, pc, output, anchor, proposals, snapshot, pending>>

(* Slips: a round is not cut at the budget; nor after its stop token. *)
NoTruncate(round, remaining) == round
KeepPastEos(round) == round

(* round.resize(remaining), then the cut after the first stop token. *)
Truncate(round, remaining) ==
  IF Len(round) > remaining THEN SubSeq(round, 1, remaining) ELSE round

CutAfterEos(round) ==
  IF \E i \in 1..Len(round) : round[i] \in Eos
  THEN SubSeq(round, 1, CHOOSE i \in 1..Len(round) :
                          /\ round[i] \in Eos
                          /\ \A j \in 1..(i - 1) : round[j] \notin Eos)
  ELSE round

Round(commit) ==
  CutAfterEos(Truncate(<<anchor>> \o commit, budget - Len(tokens)))

(* Slip: the last token is stepped too. *)
MaterializeAll(round, terminal) == round

(* Terminal rounds keep their last token out of the caches. *)
Materialize(round, terminal) ==
  IF terminal THEN SubSeq(round, 1, Len(round) - 1) ELSE round

(* Slips: the round's own next token is counted as a draft; a verified     *)
(* round is tried again.                                                   *)
CommitCountsBonus ==
  /\ pc = "verify" /\ Len(posterior) = K + 1
  /\ LET commit == Accepted(proposals, posterior)
         round == Round(commit)
         terminal == EndsEos(round) \/ Len(tokens) + Len(round) >= budget
     IN  /\ tokens' = tokens \o round
         /\ accepted' = accepted + Len(commit)
         /\ pending' = Materialize(round, terminal)
  /\ rounds' = rounds + 1 /\ model' = Restore(model, snapshot) /\ pc' = "materialize"
  /\ UNCHANGED <<input, finish, materialized, anchor, proposals, snapshot, posterior>>

CommitRetries ==
  /\ pc = "verify" /\ Len(posterior) = K + 1
  /\ model' = Restore(model, snapshot)
  /\ pc' = "top"
  /\ UNCHANGED <<input, output, scratch>>

(* commit_dflash2, restore, and the round's bookkeeping.  finish is set in *)
(* the code after the materialize steps; LastStep does it.                 *)
CommitRound ==
  /\ pc = "verify" /\ Len(posterior) = K + 1
  /\ LET commit == Accepted(proposals, posterior)
         round == Round(commit)
         terminal == EndsEos(round) \/ Len(tokens) + Len(round) >= budget
     IN  /\ tokens' = tokens \o round
         /\ accepted' = accepted + CommonPrefix(commit, proposals)
         /\ pending' = Materialize(round, terminal)
  /\ rounds' = rounds + 1
  /\ model' = Restore(model, snapshot)
  /\ pc' = "materialize"
  /\ UNCHANGED <<input, finish, materialized, anchor, proposals, snapshot, posterior>>

(* After the round's last step the loop ends or goes round again. *)
LastStep ==
  IF Complete(budget, tokens)
  THEN /\ finish' = IF EndsEos(tokens) THEN "eos" ELSE "budget"
       /\ pc' = "done"
  ELSE /\ pc' = "top"
       /\ UNCHANGED finish

(* Slip: the restore comes after the kept tokens were stepped. *)
MaterializeThenRestore ==
  /\ pc = "materialize"
  /\ ~Refuses(model)
  /\ model' = IF Tail(pending) = << >> THEN Restore(Step(model, Head(pending), FALSE), snapshot)
              ELSE Step(model, Head(pending), FALSE)
  /\ materialized' = Append(materialized, Head(pending))
  /\ pending' = Tail(pending)
  /\ IF pending' = << >> THEN LastStep ELSE UNCHANGED <<pc, finish>>
  /\ UNCHANGED <<input, tokens, accepted, rounds, anchor, proposals, snapshot, posterior>>

MaterializeStep ==
  /\ pc = "materialize"
  /\ ~Refuses(model)
  /\ model' = Step(model, Head(pending), FALSE)
  /\ materialized' = Append(materialized, Head(pending))
  /\ pending' = Tail(pending)
  /\ IF pending' = << >> THEN LastStep ELSE UNCHANGED <<pc, finish>>
  /\ UNCHANGED <<input, tokens, accepted, rounds, anchor, proposals, snapshot, posterior>>

-----------------------------------------------------------------------------
(* The token a step would be given now. *)
StepToken ==
  CASE pc = "prime" -> RowZero
    [] pc = "prompt" -> Prompt[Len(model.mla) + 1]
    [] pc = "materialize" -> Head(pending)
    [] OTHER -> RowZero

(* A step, argmax or propose throws outside the try block (the rank link   *)
(* fails, a tensor is missing, the indexer bound is passed): nothing is    *)
(* restored.                                                               *)
Throw ==
  /\ pc \in {"prime", "prompt", "top", "materialize"}
  /\ model' \in IF pc = "top" THEN {model} ELSE Torn(model, StepToken)
  /\ pc' = "thrown"
  /\ UNCHANGED <<input, output, scratch>>

(* Where the try block can throw: part-way through a step, in the argmax   *)
(* after it, or in the commit.                                             *)
Interrupted ==
  IF Len(posterior) <= K
  THEN LET token == VerifyPath[Len(posterior) + 1]
       IN  Torn(model, token) \cup {Step(model, token, FALSE)}
  ELSE {model}

(* Slip: the handler only rethrows. *)
VerifyThrowsBare ==
  /\ pc = "verify"
  /\ model' \in Interrupted
  /\ pc' = "thrown"
  /\ UNCHANGED <<input, output, scratch>>

(* The handler restores, then rethrows. *)
VerifyThrows ==
  /\ pc = "verify"
  /\ \E torn \in Interrupted : model' = Restore(torn, snapshot)
  /\ pc' = "thrown"
  /\ UNCHANGED <<input, output, scratch>>

Stopped == pc \in {"done", "thrown"} /\ UNCHANGED vars

Next ==
  \/ PrimeCaptureKda \/ StepPrompt
  \/ ExitLoop \/ StopAtEos \/ StopAtBudget
  \/ Propose \/ VerifyStep \/ CommitRound \/ MaterializeStep
  \/ Throw \/ VerifyThrows
  \/ Stopped

Spec == Init /\ [][Next]_vars

(* The loop is one thread: while a call is possible one is made. *)
FairSpec == Spec /\ WF_vars(Next)

-----------------------------------------------------------------------------
TypeOK ==
  /\ weights \in Models /\ budget \in Budgets
  /\ pc \in {"prime", "prompt", "top", "verify", "materialize", "done", "thrown"}
  /\ model \in TextModels
  /\ tokens \in Seq(Token) /\ finish \in {"none", "eos", "budget"}
  /\ anchor \in Token
  /\ proposals = << >> \/ proposals \in Drafts
  /\ snapshot \in [kda : Seq(Token), mla : Seq(Token), seen : Nat]
  /\ posterior \in Seq(Token) /\ pending \in Seq(Token) /\ materialized \in Seq(Token)
  /\ accepted \in Nat /\ rounds \in Nat

(* Gate 3 of README.md:51: whatever the draft proposes and wherever the    *)
(* budget or a stop token falls inside a round, the emitted tokens are     *)
(* target-only greedy generation's, cut where it stops                     *)
(* (dflash_loop.hpp:75-98).                                                *)
MatchesTargetOnly == IsContinuation(weights, budget, tokens)

(* The caches target-only generation holds after stepping toks. *)
HoldsExactly(toks) ==
  /\ model.mla = Prompt \o toks
  /\ model.kda = <<RowZero>> \o model.mla
  /\ model.seen = Len(model.kda)

(* No rejected proposal and no unstepped token is ever left in a cache:    *)
(* between rounds the KDA and MLA caches cover exactly the emitted tokens, *)
(* at the end all of them but the last (dflash_loop.hpp:26-28, 73,         *)
(* 102-104), and they move together even while verifying.                  *)
CachesFollowOutput ==
  /\ pc = "top" => HoldsExactly(tokens)
  /\ pc = "done" => HoldsExactly(AllButLast(tokens))
  /\ pc \in {"top", "verify", "materialize", "done"} =>
       /\ model.kda = <<RowZero>> \o model.mla
       /\ model.seen = Len(model.kda)
  /\ pc = "done" => materialized = AllButLast(tokens)
  /\ pc \notin {"prime", "prompt", "thrown"} => model.taps = Prompt

(* restore() does not bring back the hidden vector argmax() reads: it      *)
(* still belongs to a proposal the target rejected.  Every argmax of the   *)
(* loop nevertheless follows a step that rewrote it from the live caches   *)
(* (text_forward.cpp:656-663, 747-751, dflash_loop.hpp:38, 56-63).         *)
ArgmaxReadsLiveState == pc = "top" => model.final = CachesOf(model)

(* A run that returns says truthfully why it stopped, so generate_text     *)
(* never reaches its "dflash_unfinished" branch (text_forward.cpp:         *)
(* 1996-2007).                                                             *)
FinishIsTruthful ==
  pc = "done" /\ budget > 0 =>
    \/ finish = "eos" /\ EndsEos(tokens)
    \/ finish = "budget" /\ Len(tokens) = budget /\ ~EndsEos(tokens)

(* What dflash_accept is computed from (text_forward.cpp:2012-2015): each  *)
(* round matches at most K drafts and emits at least two tokens, and every *)
(* emitted token is an anchor, an accepted draft or a round's own next     *)
(* token, plus at most one anchor that opened no round.                    *)
RoundAccounting ==
  /\ accepted <= K * rounds
  /\ 2 * rounds <= Len(tokens)
  /\ Len(tokens) <= accepted + 2 * rounds + (IF pc = "done" THEN 1 ELSE 0)

(* Verifying runs ahead of the emitted tokens, by no more than the look-   *)
(* ahead of the last round that may open; as long as that fits under the   *)
(* indexer bound no run is refused that target-only generation would       *)
(* complete (text_forward.cpp:1077, dflash_loop.hpp:44-61).                *)
Lookahead(n) == Len(Prompt) + (IF n >= 2 THEN n + K - 1 ELSE 0)

StepDue ==
  \/ pc \in {"prime", "prompt", "materialize"}
  \/ pc = "verify" /\ Len(posterior) <= K

NeverRefused ==
  Lookahead(budget) <= IndexTopk /\ StepDue => ~Refuses(model)

(* When a verify step throws, the caches are handed back as they were when *)
(* the round opened, whatever the failing step had already written: no     *)
(* speculative token survives the exception (dflash_loop.hpp:69-72).       *)
VerifyThrowRollsBack ==
  [][pc = "verify" /\ pc' = "thrown" => HoldsExactly(tokens)']_vars

(* Every run returns or throws: a round always makes progress. *)
Terminates == <>(pc \in {"done", "thrown"})

(* The loop implements the promise both decoders make. *)
Contract == INSTANCE TargetContinuation WITH
  outcome <- CASE pc = "done" -> finish
               [] pc = "thrown" -> "thrown"
               [] OTHER -> "running",
  stepped <- IF pc = "done" THEN model.mla ELSE << >>

KeepsContract == Contract!Spec
=============================================================================
