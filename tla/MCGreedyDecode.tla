---------------------------- MODULE MCGreedyDecode ----------------------------
(* The checkpoints of MCDflashLoop, and a prompt of two tokens: one more    *)
(* than the shipped prompt, so that a prompt step follows a prompt step.    *)
EXTENDS GreedyDecode, SequencesExt

CONSTANT Rows  \* entries of a checkpoint's table
ASSUME RowsAssumption == Rows \in Nat \ {0}

MCPrompt == <<1, 0>>
MCModels == [0..(Rows - 1) -> Token \cup {-1}]

Hash(seq) == FoldLeft(LAMBDA acc, token : (2 * acc + token + 1) % 97, 7, seq)
MCPredict(w, kda, mla) == w[(Hash(kda) + 5 * Hash(mla)) % Rows]
=============================================================================
