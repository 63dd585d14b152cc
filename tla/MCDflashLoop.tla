---------------------------- MODULE MCDflashLoop ----------------------------
(***************************************************************************)
(* A checkpoint is a table of Len rows and its logits depend on both cache *)
(* histories, position by position, so that a cache holding one wrong      *)
(* token, or one token too few, usually predicts something else.  -1 is a  *)
(* step whose logits do not compare.                                       *)
(***************************************************************************)
EXTENDS DflashInductive, SequencesExt

CONSTANT Rows  \* entries of a checkpoint's table
ASSUME RowsAssumption == Rows \in Nat \ {0}

MCPrompt == <<1>>
MCModels == [0..(Rows - 1) -> Token \cup {-1}]

Hash(seq) == FoldLeft(LAMBDA acc, token : (2 * acc + token + 1) % 97, 7, seq)
MCPredict(w, kda, mla) == w[(Hash(kda) + 5 * Hash(mla)) % Rows]
=============================================================================
