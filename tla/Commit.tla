-------------------------------- MODULE Commit --------------------------------
(***************************************************************************)
(* The temperature-0 acceptance rule of src/src/speculative.cpp as pure    *)
(* operators.  A rank record is the array the commit writes and the number *)
(* of its slots that count; slots past that number keep what they held.    *)
(***************************************************************************)
EXTENDS Integers, Sequences

CONSTANTS
  MaxCommit,  \* slots of a RankRecord (16)
  MaxDraft    \* longest draft commit_dflash2 takes (8)

ASSUME CommitAssumption ==
  /\ MaxCommit \in Nat /\ MaxDraft \in Nat
  /\ MaxDraft < MaxCommit

(* Length of the longest common prefix. *)
CommonPrefix(s, t) ==
  CHOOSE m \in 0..Len(s) :
    /\ m <= Len(t)
    /\ \A i \in 1..m : s[i] = t[i]
    /\ m < Len(s) /\ m < Len(t) => s[m + 1] # t[m + 1]

(* commit_same_tokens takes the two views only when they are equal. *)
SameTokens(view0, view1) == Len(view0) <= MaxCommit /\ view0 = view1

Write(record, view) ==
  [committed |-> Len(view),
   tokens |-> [i \in 1..MaxCommit |-> IF i <= Len(view) THEN view[i] ELSE record.tokens[i]]]

(* commit_dflash2 refuses an empty or over-long draft. *)
DraftOk(draft) == Len(draft) \in 1..MaxDraft

(* Slip: the first rejected draft token is committed. *)
AcceptedWithMiss(draft, target) ==
  LET matched == CommonPrefix(draft, target)
  IN  Append(SubSeq(draft, 1, matched),
             IF matched < Len(draft) THEN draft[matched + 1] ELSE target[matched + 1])

(* The matched draft tokens, then the target's own next token: target[0]   *)
(* when nothing matches, the bonus when everything does.                   *)
Accepted(draft, target) ==
  LET matched == CommonPrefix(draft, target)
  IN  Append(SubSeq(draft, 1, matched), target[matched + 1])
=============================================================================
