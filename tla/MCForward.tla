------------------------------ MODULE MCForward ------------------------------
(***************************************************************************)
(* The forward pass of the real model, either as two ranks running it or   *)
(* as one process looking its tensors up.  The indexer bound is two        *)
(* latents, so that the second step after the prompt is refused; of the    *)
(* experts, which are alike, the first and the last are laid out.          *)
(***************************************************************************)
EXTENDS RankedForward, ForwardCatalog

LookingUp == next > 0

ForwardInit ==
  /\ Init
  /\ \/ next = 0 /\ unread = {}
     \/ CatalogInit /\ \A call \in DOMAIN verdict : verdict[call] = "stop"

ForwardNext ==
  \/ ~LookingUp /\ Next /\ UNCHANGED <<next, unread>>
  \/ LookingUp /\ CatalogNext /\ UNCHANGED vars

ForwardSpec == ForwardInit /\ [][ForwardNext]_<<vars, next, unread>>
=============================================================================
