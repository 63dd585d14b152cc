------------------------------ MODULE RankCommit ------------------------------
(***************************************************************************)
(* The two rank records and the two ways the program writes them:          *)
(* commit_same_tokens on the token lists the ranks report, and             *)
(* commit_dflash2 on a draft and the target's verified positions.  The     *)
(* records outlive a call, so a sequence of commits reuses the same slots. *)
(***************************************************************************)
EXTENDS Commit

CONSTANTS
  TokenId,  \* token ids
  Blank     \* what an unwritten slot holds (a RankRecord starts all zero)

VARIABLES
  rank0, rank1,  \* the records
  result         \* [agree, tokens] of the last call

cvars == <<rank0, rank1, result>>

(* A list of at most n tokens. *)
Lists(n) == UNION {[1..len -> TokenId] : len \in 0..n}

Records == [committed : 0..MaxCommit, tokens : [1..MaxCommit -> TokenId \cup {Blank}]]

CommitInit ==
  /\ rank0 = [committed |-> 0, tokens |-> [i \in 1..MaxCommit |-> Blank]]
  /\ rank1 = rank0
  /\ result = [agree |-> FALSE, tokens |-> << >>]

(* Slip: rank 0 is written before the views are compared. *)
CommitRank0First(view0, view1) ==
  /\ rank0' = IF Len(view0) <= MaxCommit THEN Write(rank0, view0) ELSE rank0
  /\ rank1' = IF SameTokens(view0, view1) THEN Write(rank1, view1) ELSE rank1

(* Both records are written, or neither. *)
CommitViews(view0, view1) ==
  IF SameTokens(view0, view1)
  THEN /\ rank0' = Write(rank0, view0)
       /\ rank1' = Write(rank1, view1)
  ELSE UNCHANGED <<rank0, rank1>>

CommitSameTokens(view0, view1) ==
  /\ CommitViews(view0, view1)
  /\ result' = [agree |-> SameTokens(view0, view1), tokens |-> << >>]

CommitDflash2(draft, target) ==
  IF DraftOk(draft)
  THEN LET view == Accepted(draft, target)
       IN  /\ CommitViews(view, view)
           /\ result' = [agree |-> SameTokens(view, view), tokens |-> view]
  ELSE /\ UNCHANGED <<rank0, rank1>>
       /\ result' = [agree |-> FALSE, tokens |-> << >>]

(* Lists one longer than the limits are offered too. *)
CommitNext ==
  \/ \E view0, view1 \in Lists(MaxCommit + 1) : CommitSameTokens(view0, view1)
  \/ \E draft \in Lists(MaxDraft + 1) : \E target \in [1..(Len(draft) + 1) -> TokenId] :
       CommitDflash2(draft, target)

CommitSpec == CommitInit /\ [][CommitNext]_cvars

-----------------------------------------------------------------------------
CommitTypeOK ==
  /\ rank0 \in Records /\ rank1 \in Records
  /\ result.agree \in BOOLEAN
  /\ result.tokens \in Lists(MaxDraft + 1)

(* What commit_dflash2 reports is what target-only generation would emit:  *)
(* a prefix of the target's own tokens, of which all but the last were     *)
(* drafted, and which stops early only where the draft disagreed           *)
(* (speculative.cpp:27-38).                                                *)
DraftsFollowTarget ==
  [][\A draft \in Lists(MaxDraft) : \A target \in [1..(Len(draft) + 1) -> TokenId] :
       CommitDflash2(draft, target) /\ result'.agree =>
         LET n == Len(result'.tokens) IN
         /\ n \in 1..Len(target)
         /\ result'.tokens = SubSeq(target, 1, n)
         /\ \A i \in 1..(n - 1) : draft[i] = target[i]
         /\ n < Len(target) => draft[n] # target[n]]_cvars

(* Whatever mixture of accepted, refused and shorter commits came before,  *)
(* a commit leaves the same record on both ranks, stale slots included;    *)
(* one that reports disagreement commits nothing on either                 *)
(* (speculative.hpp:19), and one that agrees leaves its tokens on both.    *)
CommitsAreAllOrNothing ==
  [][/\ rank0' = rank1'
     /\ ~result'.agree => UNCHANGED <<rank0, rank1>>
     /\ result'.agree => \A i \in 1..Len(result'.tokens) :
          rank0'.tokens[i] = result'.tokens[i] /\ rank1'.tokens[i] = result'.tokens[i]]_cvars
=============================================================================
