----------------------------- MODULE MCRankCommit -----------------------------
(* Two token ids, records of three slots, drafts of at most two tokens: the *)
(* smallest sizes at which a partial match, a full match with its bonus, a  *)
(* stale slot and both refused lengths all occur.                           *)
EXTENDS RankCommit
=============================================================================
