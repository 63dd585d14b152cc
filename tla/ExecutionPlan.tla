---------------------------- MODULE ExecutionPlan ----------------------------
(***************************************************************************)
(* The two-rank execution plan (execution_plan.cpp): what is refused, what *)
(* is built and what an existing plan is measured against.                 *)
(***************************************************************************)
EXTENDS ModelSpec, DeploymentContract

(* The errors of validate_inputs: what a plan cannot be built from. *)
InputErrors(model, d) == ModelErrors(model) \cup Failing(
  [ranks |-> d.TP = 2 /\ d.NNODES = 2,
   limits |-> /\ d.MAX_MODEL_LEN \in 1 .. model.max_position_embeddings
              /\ d.MAX_NUM_SEQS > 0 /\ d.MAX_NUM_BATCHED_TOKENS > 0,
   method |-> d.SPEC_METHOD \in {Text("none"), Text("dflash")},
   draft |-> d.SPEC_METHOD = Text("dflash") =>
               d.DFLASH_TOKENS \in 1 .. 8 /\ d.DFLASH_DRAFT_TP = 2,
   pinned |-> d.SPEC_METHOD = Text("dflash") =>
                d.DFLASH_MODEL # Empty /\ d.DFLASH_REVISION = Text("40hex")])

PersistentState(mixer) ==
  IF mixer = "kda" THEN "kda_recurrent" ELSE "sparse_mla_kv_index"

LayerPlan(layer) ==
  [layer |-> layer.index, mixer |-> layer.mixer, ffn |-> layer.ffn,
   persistent_state |-> PersistentState(layer.mixer),
   mixer_output_collective |-> "all_reduce", ffn_output_collective |-> "all_reduce"]

NoDraft == [enabled |-> FALSE, proposal_tokens |-> 0, draft_tensor_parallel |-> 0,
            draft_model |-> Empty, draft_revision |-> Empty]

(* build_tp2_execution_plan, when the inputs are acceptable: the pinned    *)
(* head counts are even, so the refusal of odd ones never arises.          *)
BuildPlan(model, d) ==
  [world_size |-> d.TP, hyper_connection_streams |-> model.hyper_connection_streams,
   local_attention_heads |-> model.attention_heads \div 2,
   local_kv_heads |-> model.kv_heads \div 2,
   local_index_heads |-> model.index_heads \div 2,
   local_linear_attention_heads |-> model.linear_attention_heads \div 2,
   layers |-> [i \in DOMAIN model.layers |-> LayerPlan(model.layers[i])],
   speculative |->
     IF d.SPEC_METHOD = Text("dflash")
     THEN [enabled |-> TRUE, proposal_tokens |-> d.DFLASH_TOKENS,
           draft_tensor_parallel |-> d.DFLASH_DRAFT_TP,
           draft_model |-> d.DFLASH_MODEL, draft_revision |-> d.DFLASH_REVISION]
     ELSE NoDraft,
   max_context_tokens |-> d.MAX_MODEL_LEN, max_inflight_sequences |-> d.MAX_NUM_SEQS,
   max_batched_tokens |-> d.MAX_NUM_BATCHED_TOKENS]

(* Slip: a disabled plan may keep the draft's fields. *)
StaleDraftAllowed(plan, d) ==
  IF d.SPEC_METHOD = Text("dflash")
  THEN /\ plan.speculative.enabled
       /\ plan.speculative.proposal_tokens = d.DFLASH_TOKENS
       /\ plan.speculative.draft_tensor_parallel = d.DFLASH_DRAFT_TP
       /\ plan.speculative.draft_model = d.DFLASH_MODEL
       /\ plan.speculative.draft_revision = d.DFLASH_REVISION
  ELSE ~plan.speculative.enabled

DraftMatches(plan, d) ==
  /\ StaleDraftAllowed(plan, d)
  /\ d.SPEC_METHOD # Text("dflash") =>
       /\ plan.speculative.proposal_tokens = 0
       /\ plan.speculative.draft_tensor_parallel = 0
       /\ plan.speculative.draft_model = Empty
       /\ plan.speculative.draft_revision = Empty

(* The errors of validate_execution_plan: the layers, the limits and the   *)
(* draft are compared only if there are as many layers as in the model.    *)
PlanErrors(plan, model, d) ==
  LET halves(local, global) == global > 0 /\ global % 2 = 0 /\ local = global \div 2
      counted == Len(plan.layers) = Len(model.layers)
  IN InputErrors(model, d) \cup Failing(
       [world |-> plan.world_size = 2 /\ d.TP = 2,
        streams |-> /\ plan.hyper_connection_streams = 4
                    /\ model.hyper_connection_streams = 4,
        layers |-> counted,
        heads |-> counted =>
          /\ plan.world_size = 2
          /\ halves(plan.local_attention_heads, model.attention_heads)
          /\ halves(plan.local_kv_heads, model.kv_heads)
          /\ halves(plan.local_index_heads, model.index_heads)
          /\ halves(plan.local_linear_attention_heads, model.linear_attention_heads),
        topology |-> counted => \A i \in DOMAIN plan.layers :
          /\ plan.layers[i].layer = model.layers[i].index
          /\ plan.layers[i].mixer = model.layers[i].mixer
          /\ plan.layers[i].ffn = model.layers[i].ffn,
        state |-> counted => \A i \in DOMAIN plan.layers :
          plan.layers[i].persistent_state = PersistentState(model.layers[i].mixer),
        collectives |-> counted => \A i \in DOMAIN plan.layers :
          /\ plan.layers[i].mixer_output_collective = "all_reduce"
          /\ plan.layers[i].ffn_output_collective = "all_reduce",
        limits |-> counted =>
          /\ plan.max_context_tokens = d.MAX_MODEL_LEN
          /\ plan.max_inflight_sequences = d.MAX_NUM_SEQS
          /\ plan.max_batched_tokens = d.MAX_NUM_BATCHED_TOKENS,
        draft |-> counted => DraftMatches(plan, d)])
=============================================================================
