------------------------------ MODULE TextModel ------------------------------
(***************************************************************************)
(* The sequence state of one TextModel (src/src/text_forward.cpp) and what *)
(* its public members do to it.  Numbers are abstracted away: a cache is   *)
(* the list of tokens it was built from, so two caches are equal exactly   *)
(* when they were built by the same steps, and the logits of a step are an *)
(* arbitrary function (Predict) of the caches that step read.              *)
(*                                                                         *)
(*   kda    tokens folded into the KDA conv and recurrent state since the  *)
(*          constructor: a recurrence never forgets, it is only replaced   *)
(*   mla    tokens whose latents the MLA caches hold                       *)
(*   seen   the step counter seen_                                         *)
(*   final  the caches the last completed step left, which is what final_, *)
(*          the vector argmax() reads, was computed from.  save() does not *)
(*          copy it and restore() does not put it back                     *)
(*   taps   tokens whose layer outputs record_tap() kept for the draft     *)
(***************************************************************************)
EXTENDS Integers, Sequences

CONSTANTS
  Token,            \* token ids
  Eos,              \* the ids is_generation_eos accepts
  RowZero,          \* id 0: prime_capture_kda's token and argmax()'s default
  Prompt,           \* the fixed prompt's ids
  Models,           \* checkpoints
  Predict(_, _, _), \* checkpoint, KDA history, MLA history -> winning row
  IndexTopk         \* the indexer bound on cached latents

ASSUME TextModelAssumption ==
  /\ Eos \subseteq Token
  /\ RowZero \in Token
  /\ Prompt \in Seq(Token) /\ Prompt # << >>
  /\ IndexTopk \in Nat

Caches == [kda : Seq(Token), mla : Seq(Token)]
TextModels == [kda : Seq(Token), mla : Seq(Token), seen : Nat,
               final : Caches, taps : Seq(Token)]

CachesOf(m) == [kda |-> m.kda, mla |-> m.mla]

(* The constructor: zeroed KDA state, no latents, final_ all zero. *)
Fresh == [kda |-> << >>, mla |-> << >>, seen |-> 0,
          final |-> [kda |-> << >>, mla |-> << >>], taps |-> << >>]

(* mla() appends the latent first and refuses the sequence afterwards. *)
Refuses(m) == Len(m.mla) >= IndexTopk

(* step(token) when it returns; capture is capture_taps_. *)
Step(m, token, capture) ==
  LET kda == Append(m.kda, token)
      mla == Append(m.mla, token)
  IN  [kda |-> kda, mla |-> mla, seen |-> m.seen + 1,
       final |-> [kda |-> kda, mla |-> mla],
       taps |-> IF capture THEN Append(m.taps, token) ELSE m.taps]

(* What a step that throws part-way through the layers can leave: the      *)
(* layers it reached hold the token, the others do not, and final_ is      *)
(* scratch.  KDA layers come first, so latents never grow alone.  The taps *)
(* of an unfinished step are not followed: its exception ends the request. *)
Torn(m, token) ==
  LET kda == Append(m.kda, token)
      mla == Append(m.mla, token)
  IN  {m, [m EXCEPT !.kda = kda], [m EXCEPT !.kda = kda, !.mla = mla]}

(* Slip: the prime step's latents stay. *)
PrimeKeepsLatents(m) == Step(m, RowZero, FALSE)

(* prime_capture_kda: a step of token 0 whose latents are dropped. *)
Prime(m) == [Step(m, RowZero, FALSE) EXCEPT !.mla = << >>]

(* argmax() starts from row 0 and moves only to a greater logit, so a step *)
(* whose logits do not compare (NaN) yields row 0.                         *)
BestRow(w, kda, mla) ==
  IF Predict(w, kda, mla) \in Token THEN Predict(w, kda, mla) ELSE RowZero

(* argmax() reads final_, never the caches. *)
Argmax(w, m) == BestRow(w, m.final.kda, m.final.mla)

(* Slip: the latents are not cut back. *)
RestoreKda(m, snap) == [m EXCEPT !.kda = snap.kda, !.seen = snap.seen]

(* save() and restore(): the caches and the counter, nothing else. *)
Save(m) == [kda |-> m.kda, mla |-> m.mla, seen |-> m.seen]
Restore(m, snap) == [m EXCEPT !.kda = snap.kda, !.mla = snap.mla, !.seen = snap.seen]

(* The KDA state is one primed token ahead of the MLA latents. *)
Lockstep(m) == m.kda = <<RowZero>> \o m.mla /\ m.seen = Len(m.kda)

-----------------------------------------------------------------------------
(* What the program is measured against: target-only greedy generation,    *)
(* the token the checkpoint predicts after the primed prompt and toks.     *)

Greedy(w, toks) == BestRow(w, <<RowZero>> \o (Prompt \o toks), Prompt \o toks)

(* toks is what target-only generation emits within the budget: each token *)
(* is predicted from the ones before it and nothing follows a stop token.  *)
IsContinuation(w, budget, toks) ==
  /\ Len(toks) <= budget
  /\ \A i \in 1..Len(toks) : toks[i] = Greedy(w, SubSeq(toks, 1, i - 1))
  /\ \A i \in 1..(Len(toks) - 1) : toks[i] \notin Eos

EndsEos(toks) == toks # << >> /\ toks[Len(toks)] \in Eos

(* Target-only generation has stopped after toks. *)
Complete(budget, toks) == EndsEos(toks) \/ Len(toks) >= budget

Verdict(budget, toks) ==
  CASE EndsEos(toks) -> "eos"
    [] ~EndsEos(toks) /\ budget = 0 -> "none"
    [] OTHER -> "budget"

(* The last emitted token is never stepped. *)
AllButLast(toks) == SubSeq(toks, 1, Len(toks) - 1)
=============================================================================
