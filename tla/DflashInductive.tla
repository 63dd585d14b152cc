---------------------------- MODULE DflashInductive ----------------------------
(***************************************************************************)
(* What is true between any two calls of generate_dflash_continuation: the *)
(* strengthening of its safety properties that every step preserves.       *)
(***************************************************************************)
EXTENDS DflashLoop

InPrime == pc = "prime" => model = Fresh /\ tokens = << >> /\ materialized = << >>

InPrompt ==
  pc = "prompt" =>
    /\ Lockstep(model)
    /\ tokens = << >> /\ materialized = << >>
    /\ Len(model.mla) < Len(Prompt)
    /\ model.mla = SubSeq(Prompt, 1, Len(model.mla))
    /\ model.taps = model.mla

(* A budget of zero is the only one that is spent when a round may open. *)
AtTop ==
  pc = "top" =>
    /\ materialized = tokens
    /\ ~EndsEos(tokens)
    /\ Len(tokens) < budget \/ (budget = 0 /\ tokens = << >>)

InVerify ==
  pc = "verify" =>
    /\ proposals \in Drafts
    /\ ~EndsEos(tokens) /\ Len(tokens) + 2 <= budget /\ materialized = tokens
    /\ anchor \notin Eos /\ anchor = Greedy(weights, tokens)
    /\ snapshot.mla = Prompt \o tokens /\ Lockstep(snapshot)
    /\ Len(posterior) <= K + 1
    /\ model.mla = Prompt \o (tokens \o SubSeq(VerifyPath, 1, Len(posterior)))
    /\ \A i \in 1..Len(posterior) :
         posterior[i] = Greedy(weights, tokens \o SubSeq(VerifyPath, 1, i))

(* The tokens a finished or unfinished run holds in its caches. *)
Due == IF Complete(budget, tokens) THEN AllButLast(tokens) ELSE tokens

InMaterialize ==
  pc = "materialize" =>
    /\ pending # << >>
    /\ model.mla \o pending = Prompt \o Due
    /\ materialized \o pending = Due
    /\ budget > 0 /\ tokens # << >>

Inductive ==
  /\ TypeOK /\ MatchesTargetOnly
  /\ CachesFollowOutput /\ ArgmaxReadsLiveState /\ FinishIsTruthful
  /\ InPrime /\ InPrompt /\ AtTop /\ InVerify /\ InMaterialize
=============================================================================
