---------------------------- MODULE RankedForward ----------------------------
(***************************************************************************)
(* Two ranks running the same decode (text_forward.cpp, generate_text in   *)
(* mode tp2 or dflash).  Each holds the whole model and every buffer; of a *)
(* linear operator a rank computes its half of the rows and gather_rows    *)
(* brings the other half.  A gather is one step here: it ends when both    *)
(* ranks have sent and received, whatever each believes it is gathering.   *)
(* The bytes, the stalls and the failures of the link are RankLink's.      *)
(*                                                                         *)
(* How many gathers a step makes depends on the rank's own cache length,   *)
(* and what a rank does after an argmax on its own copy of the logits:     *)
(* nothing but the order of the instructions keeps the two in step.        *)
(***************************************************************************)
EXTENDS LayerPrograms, Integers

CONSTANTS
  IndexTopk,  \* the indexer bound on cached latents
  MaxHeads    \* bound: argmax calls per run

ASSUME RankedForwardAssumption == IndexTopk \in Nat \ {0} /\ MaxHeads \in Nat \ {0}

Rank == {0, 1}
Verdict == {"step", "rewind", "propose", "stop"}
Nothing == <<0, <<"nothing">>>>

VARIABLES
  verdict,  \* what the tokens chosen at each argmax make the decoder do next
  phase,    \* [Rank -> "run" | "sent" | "stopped" | "failed"]
  stage,    \* [Rank -> "prime" | "prompt" | "head" | "draft" | "decode"]
  pc,       \* [Rank -> next instruction of the stage's program]
  steps,    \* [Rank -> steps begun], the n of a value <<n, op>>
  argmaxes, \* [Rank -> argmax calls begun]
  cached,   \* [Rank -> latents every MLA cache holds]
  kept,     \* [Rank -> latents in the snapshot a rollback returns to]
  held      \* [Rank -> [Buffers -> the values of its lower and upper rows]]

vars == <<verdict, phase, stage, pc, steps, argmaxes, cached, kept, held>>

(* Sequences, so that TLC lays every program out once. *)
PromptProgram == StepProgram(1, TRUE)
StepPrograms == <<>> \o [tokens \in 1 .. IndexTopk + 1 |-> StepProgram(tokens, FALSE)]

Program(r) ==
  CASE stage[r] = "head" -> HeadProgram
    [] stage[r] = "draft" -> DraftProgram
    [] stage[r] = "prompt" -> PromptProgram
    [] OTHER -> StepPrograms[cached[r] + 1]
Instruction(r) == Program(r)[pc[r]]
Value(r) == <<steps[r], Instruction(r).op>>
Running(r) == phase[r] = "run" /\ pc[r] <= Len(Program(r))

Init ==
  /\ verdict \in [1 .. MaxHeads - 1 -> Verdict]
  /\ phase = [r \in Rank |-> "run"]
  /\ stage = [r \in Rank |-> "prime"]
  /\ pc = [r \in Rank |-> 1]
  /\ steps = [r \in Rank |-> 1]
  /\ argmaxes = [r \in Rank |-> 0]
  /\ cached = [r \in Rank |-> 0]
  /\ kept = [r \in Rank |-> 0]
  /\ held = [r \in Rank |-> [b \in Buffers |-> <<Nothing, Nothing>>]]

-----------------------------------------------------------------------------
(* The indexer bound: a step that caches one latent too many throws where  *)
(* the first MLA layer stores it.                                          *)
Overfull(r) == /\ cached[r] + 1 > IndexTopk
               /\ Len(Instruction(r).op) = 2 /\ Instruction(r).op[2] = "latent"

(* An operator every rank computes in full. *)
Execute(r) ==
  /\ Running(r) /\ ~Instruction(r).gathered
  /\ IF Overfull(r)
     THEN phase' = [phase EXCEPT ![r] = "failed"] /\ UNCHANGED <<pc, held>>
     ELSE /\ held' = [held EXCEPT ![r][Instruction(r).out] = <<Value(r), Value(r)>>]
          /\ pc' = [pc EXCEPT ![r] = @ + 1]
          /\ UNCHANGED phase
  /\ UNCHANGED <<verdict, stage, steps, argmaxes, cached, kept>>

(* apply_rows: rank 0 computes the rows below the middle, rank 1 the rest. *)
Multiply(r) ==
  /\ Running(r) /\ Instruction(r).gathered
  /\ held' = [held EXCEPT ![r][Instruction(r).out][r + 1] = Value(r)]
  /\ phase' = [phase EXCEPT ![r] = "sent"]
  /\ UNCHANGED <<verdict, stage, pc, steps, argmaxes, cached, kept>>

(* gather_rows on both sides: each receives what the other computed. *)
Gather ==
  /\ \A r \in Rank : phase[r] = "sent"
  /\ held' = [r \in Rank |->
        [held[r] EXCEPT ![Instruction(r).out][2 - r] =
           held[1 - r][Instruction(1 - r).out][2 - r]]]
  /\ phase' = [r \in Rank |-> "run"]
  /\ pc' = [r \in Rank |-> pc[r] + 1]
  /\ UNCHANGED <<verdict, stage, steps, argmaxes, cached, kept>>

(* The end of a program: prime_capture_kda empties the latents again, the  *)
(* prompt and every later step keep theirs and are followed by an argmax,  *)
(* and a proposal by a snapshot and the step that verifies it.             *)
EndStep(r) ==
  /\ phase[r] = "run" /\ pc[r] > Len(Program(r)) /\ stage[r] # "head"
  /\ stage' = [stage EXCEPT ![r] = CASE @ = "prime" -> "prompt"
                                     [] @ = "draft" -> "decode"
                                     [] OTHER -> "head"]
  /\ cached' = [cached EXCEPT ![r] = CASE stage[r] = "prime" -> 0
                                       [] stage[r] = "draft" -> @
                                       [] OTHER -> @ + 1]
  /\ kept' = [kept EXCEPT ![r] = IF stage[r] = "draft" THEN cached[r] ELSE @]
  /\ steps' = [steps EXCEPT ![r] = IF stage'[r] = "head" THEN @ ELSE @ + 1]
  /\ argmaxes' = [argmaxes EXCEPT ![r] = IF stage'[r] = "head" THEN @ + 1 ELSE @]
  /\ pc' = [pc EXCEPT ![r] = 1]
  /\ UNCHANGED <<verdict, phase, held>>

(* Slip: each rank picks by the rows it computed. *)
DecisionsOnOwnRows(r) == IF argmaxes[r] = MaxHeads THEN {"stop"} ELSE Verdict

(* The token a rank picks is a function of the logits it holds: on whole   *)
(* logits both pick alike, on torn ones anything may come out.             *)
Decisions(r) ==
  LET logits == held[r]["logits"] IN
  IF argmaxes[r] = MaxHeads THEN {"stop"}
  ELSE IF logits[1] = logits[2] THEN {verdict[argmaxes[r]]} ELSE Verdict

(* What follows an argmax: end of sequence or budget, a proposal, the next *)
(* step, or a rollback to the last snapshot and a step from there.         *)
Choose(r) ==
  /\ phase[r] = "run" /\ stage[r] = "head" /\ pc[r] > Len(Program(r))
  /\ \E choice \in Decisions(r) :
       IF choice = "stop"
       THEN /\ phase' = [phase EXCEPT ![r] = "stopped"]
            /\ UNCHANGED <<stage, pc, steps, cached>>
       ELSE /\ cached' = [cached EXCEPT ![r] = IF choice = "rewind" THEN kept[r] ELSE @]
            /\ stage' = [stage EXCEPT ![r] = IF choice = "propose" THEN "draft" ELSE "decode"]
            /\ steps' = [steps EXCEPT ![r] = IF choice = "propose" THEN @ ELSE @ + 1]
            /\ pc' = [pc EXCEPT ![r] = 1]
            /\ UNCHANGED phase
  /\ UNCHANGED <<verdict, argmaxes, kept, held>>

Over == \A r \in Rank : phase[r] \in {"stopped", "failed"}
Rest == Over /\ UNCHANGED vars

Next ==
  \/ \E r \in Rank : Execute(r) \/ Multiply(r) \/ EndStep(r) \/ Choose(r)
  \/ Gather
  \/ Rest

Spec == Init /\ [][Next]_vars

-----------------------------------------------------------------------------
(* The taps a proposal is conditioned on are the prompt's, the second step. *)
Due(r, buffer) == IF buffer = "taps" THEN 2 ELSE steps[r]

(* No instruction reads a buffer that something else has overwritten in    *)
(* the meantime, that a gather has not completed, or that a previous step  *)
(* left behind: on both ranks, both halves of every operand are the value  *)
(* this step computed for it (the shared scratch of text_forward.cpp).     *)
OperandsAreTheirs ==
  \A r \in Rank : Running(r) =>
    \A read \in Instruction(r).reads : \A rows \in {1, 2} :
      held[r][read[1]][rows] = <<Due(r, read[1]), read[2]>>

(* Ranks that meet in a gather are gathering the same value, and no rank   *)
(* waits for one that has left: the lengths of the two caches, which set   *)
(* the number of gathers of a step, never come apart.                      *)
GathersAgree ==
  /\ (\A r \in Rank : phase[r] = "sent") =>
       Value(0) = Value(1) /\ Instruction(0).rows = Instruction(1).rows
  /\ \A r \in Rank : phase[r] = "sent" => phase[1 - r] \in {"run", "sent"}

(* Every access stays inside the vector the constructor sized: the scratch *)
(* is sized by the attention widths, and the MLPs, the router and the KDA  *)
(* gates use it too.                                                       *)
AccessesFit ==
  \A r \in Rank : Running(r) =>
    /\ Instruction(r).out \in DOMAIN Capacity =>
         Instruction(r).rows <= Capacity[Instruction(r).out]
    /\ \A read \in Instruction(r).reads :
         read[1] \in DOMAIN Capacity => read[3] <= Capacity[read[1]]
=============================================================================
