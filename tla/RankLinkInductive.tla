--------------------------- MODULE RankLinkInductive ---------------------------
(***************************************************************************)
(* What is true between any two steps of the two ranks: the strengthening  *)
(* of RankLink's safety properties that every step preserves.  A cell is   *)
(* named by its transfer and its place in it; the cells on a wire are      *)
(* those that were sent and not taken, in order, and behind them the -1 of *)
(* a failing child.                                                        *)
(***************************************************************************)
EXTENDS RankLink

Types ==
  /\ drafts \in DraftCounts
  /\ pc \in [Rank -> {"fork", "absent", "reset", "run", "reap", "done", "abort", "exited"}]
  /\ at \in [Rank -> Nat \ {0}] /\ moved \in [Rank -> Nat]
  /\ wire \in [Rank -> Seq(Nat)]
  /\ holders \in [Rank -> SUBSET Rank]
  /\ dirty \in [Rank -> BOOLEAN]
  /\ payloadOk \in BOOLEAN /\ throwing \in BOOLEAN
  /\ exit \in {"none", "ok", "failed", "killed"}
  /\ outcome \in {"running", "ok", "mismatch", "threw", "refused"}

(* Who holds what, by the point each process has reached. *)
Control ==
  /\ pc[Parent] \in {"fork", "reset", "run", "reap", "done"}
  /\ pc[Child] \in {"absent", "reset", "run", "abort", "exited"}
  /\ pc[Parent] = "fork" => pc[Child] = "absent"
  /\ pc[Child] = "absent" => pc[Parent] \in {"fork", "done"}
  /\ pc[Parent] = "done" => pc[Child] \in {"absent", "exited"}
  /\ outcome = "running" <=> pc[Parent] # "done"
  /\ exit = "none" <=> pc[Child] # "exited"
  /\ Parent \in holders[Parent] <=> pc[Parent] \in {"fork", "reset", "run"}
  /\ Parent \in holders[Child] <=> pc[Parent] \in {"fork", "reset"}
  /\ Child \in holders[Child] <=> pc[Child] \in {"reset", "run", "abort"}
  /\ Child \in holders[Parent] <=> pc[Child] = "reset"

-----------------------------------------------------------------------------
Before(c, d) == c[1] < d[1] \/ (c[1] = d[1] /\ c[2] < d[2])

(* The cells among X that come before cell m of transfer n. *)
Upto(X, n, m) == {c \in X : Before(c, <<n, m>>)}

(* w carries the cells F, in their order, and Markers behind the first g. *)
Carries(w, F, g) ==
  /\ g \in 0 .. Len(w)
  /\ \E q \in [1 .. g -> F] :
       /\ \A c \in F : \E k \in 1 .. g : q[k] = c
       /\ \A k, l \in 1 .. g : k < l => Before(q[k], q[l])
       /\ \A k \in 1 .. g : w[k] = q[k][1]
  /\ \A k \in g + 1 .. Len(w) : w[k] = Marker

(* The cells rank r sends in a run, ... *)
Outgoing(r) ==
  {c \in (1 .. LastTransfer) \X Nat : c[2] < Cells(Parent, c[1]) /\ Sends(r, c[1])}

(* ... those it has sent when m of its current transfer went out, and      *)
(* those of the other rank's that it has taken.                            *)
Sent(r, m) == Upto(Outgoing(r), at[r], m)
Taken(r) == Upto(Outgoing(Peer(r)), at[r], moved[r])

Inbound(r, m, g) ==
  /\ Taken(r) \subseteq Sent(Peer(r), m)
  /\ Carries(wire[r], Sent(Peer(r), m) \ Taken(r), g)

(* The child has not failed: its counter still says what it sent. *)
Healthy == pc[Child] \in {"absent", "reset", "run"} \/ exit = "ok"

ToParent ==
  \E m, g \in Nat :
    /\ Inbound(Parent, m, g)
    /\ Healthy => m = moved[Child] /\ g = Len(wire[Parent])

ToChild ==
  /\ Upto(Outgoing(Parent), at[Child], 0) \subseteq Sent(Parent, moved[Parent])
  /\ Healthy => Inbound(Child, moved[Parent], Len(wire[Child]))

(* Once the parent has taken a marker for a row there is nothing but       *)
(* markers left, and the child, which has failed, is not ahead of it.      *)
Streams ==
  /\ ~dirty[Child]
  /\ \A i \in 1 .. Len(wire[Child]) : wire[Child][i] >= at[Child]
  /\ ~dirty[Parent] => ToParent /\ ToChild
  /\ dirty[Parent] =>
       /\ ~Healthy
       /\ at[Child] <= at[Parent]
       /\ \A i \in 1 .. Len(wire[Parent]) : wire[Parent][i] = Marker

Verdicts ==
  /\ exit = "ok" => at[Child] > LastTransfer
  /\ pc[Parent] = "reap" /\ ~throwing => at[Parent] > LastTransfer
  /\ ~payloadOk => dirty[Parent]
  /\ VerdictIsTruthful

LinkInvariant == Types /\ Control /\ Streams /\ Verdicts
=============================================================================
