---------------------------- MODULE ForwardCatalog ----------------------------
(***************************************************************************)
(* The forward pass over a checkpoint that the parameter catalogue         *)
(* describes: which tensors text_forward.cpp looks up, and as what, against*)
(* what parameter_schema.cpp says is stored.  The two files spell the same *)
(* names and compute the same shapes independently, and several lookups    *)
(* (the short convolutions, the draft's projections and codebooks) read    *)
(* the bytes without comparing the shape.  One process decodes one prompt  *)
(* token, takes an argmax and makes one proposal.                          *)
(***************************************************************************)
EXTENDS LayerPrograms, ParameterSchema

VARIABLES
  next,   \* the instruction about to look its tensors up, 0 before the run
  unread  \* names in the catalogue that no instruction has looked up yet

(* The target's Store and the draft's. *)
Catalog ==
  ExpectedGlm53FlashTensors(Model, Glm53FlashVisionSpec)
  \o ExpectedDflash2Tensors(Glm53FlashDflash2Spec)

Times(m, n) == m * n
Tensors == Range(Catalog)
StoredAs == {<<t.name, t.dtype, t.shape>> : t \in Tensors}
CountedAs == {<<t.name, t.dtype, <<FoldSeq(Times, 1, t.shape)>>>> : t \in Tensors}

(* Store::get with the layout the operator assumes, Store::scalar, and     *)
(* Store::load, which accepts any shape of the right length.               *)
Served(need) ==
  \E dtype \in need.dtypes :
    <<need.name, dtype, need.dims>> \in
      (IF need.by = "shape" THEN StoredAs ELSE CountedAs)

Work == StepProgram(1, TRUE) \o HeadProgram \o DraftProgram

Names == {t.name : t \in Tensors}

CatalogInit == next = 1 /\ unread = Names

LookUp ==
  /\ next \in 1 .. Len(Work)
  /\ \A need \in Work[next].needs : Served(need)
  /\ unread' = unread \ {need.name : need \in Work[next].needs}
  /\ next' = next + 1

LookedUp == next > Len(Work) /\ UNCHANGED <<next, unread>>

CatalogNext == LookUp \/ LookedUp

CatalogSpec == CatalogInit /\ [][CatalogNext]_<<next, unread>>

-----------------------------------------------------------------------------
(* Every tensor an operator looks up is in the catalogue under that name,  *)
(* stored in a type and a shape the operator reads it as: a checkpoint that*)
(* passes binding never stops or misleads the forward pass.                *)
ForwardFindsItsTensors ==
  next \in 1 .. Len(Work) => \A need \in Work[next].needs : Served(need)

(* Weights that the text path has no use for. *)
IsUnused(name) ==
  \/ name[1] \in {"visual", "visual.block"}
  \/ name[1] \in {"layer", "expert"} /\ name[2] = NextnIndex(Model)
  \/ name[1] = "layer" /\ name[3] \in
       {"self_attn.indexer." \o part : part \in
          {"wk.weight", "wq_b.weight", "weights_proj.weight", "k_norm.weight",
           "k_norm.bias", "index_kpool_compress_ape", "index_kpool_compress_gate"}}

Unused == {name \in Names : IsUnused(name)}
Faults == CatalogErrors(Catalog)

(* The forward pass drops no weight: when the decode is over, what is left *)
(* unread is the vision tower, the next-token layer and the sparse         *)
(* indexer, and nothing else; no name stands for two tensors.              *)
EveryWeightIsRead ==
  /\ next > 0 => Unused \subseteq unread
  /\ next > Len(Work) => unread = Unused
  /\ Faults = {}
=============================================================================
