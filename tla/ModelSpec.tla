------------------------------ MODULE ModelSpec ------------------------------
(***************************************************************************)
(* The pinned description of GLM-5.3-Flash (model_spec.cpp): the numbers   *)
(* every other component computes with, and the validator that refuses any *)
(* other model.  Fields that are only compared are kept as given; floating *)
(* point constants are strings, because nothing computes with them here.   *)
(***************************************************************************)
EXTENDS Naturals, Sequences, FiniteSets

(* A sparse-attention layer every four layers, beginning at layer 3. *)
IsSparseMlaLayer(index) == index >= 3 /\ (index - 3) % 4 = 0

MakeLayers(count) ==
  [slot \in 1 .. count |->
     [index |-> slot - 1,
      mixer |-> IF IsSparseMlaLayer(slot - 1) THEN "sparse_mla" ELSE "kda",
      ffn   |-> IF slot - 1 < 3 THEN "dense" ELSE "sparse_moe"]]

Glm53FlashSpec ==
  [architecture |-> "Glm5NextForConditionalGeneration",
   hidden_size |-> 4096, intermediate_size |-> 12288, vocab_size |-> 154880,
   max_position_embeddings |-> 1048576,
   attention_heads |-> 64, kv_heads |-> 64,
   q_lora_rank |-> 1536, kv_lora_rank |-> 512,
   qk_head_dim |-> 256, qk_nope_head_dim |-> 256, qk_rope_head_dim |-> 0,
   v_head_dim |-> 256,
   index_heads |-> 32, index_head_dim |-> 128, index_topk |-> 2048,
   index_kpool |-> 4,
   linear_attention_heads |-> 64, linear_attention_head_dim |-> 128,
   short_conv_kernel_size |-> 4, kda_gate_lower_bound |-> "-5.0",
   manifold_hyper_connections |-> TRUE, hyper_connection_streams |-> 4,
   hyper_connection_epsilon |-> "1e-6",
   hyper_connection_sinkhorn_iterations |-> 20,
   routed_experts |-> 288, shared_experts |-> 1, experts_per_token |-> 8,
   moe_intermediate_size |-> 2048, dense_prefix_layers |-> 3,
   routed_scaling_factor |-> "2.5", swiglu_limit |-> "10.0",
   router |-> <<"float32", "sigmoid", "noaux_tc">>,
   indexer_flags |-> <<TRUE, TRUE, TRUE, TRUE, TRUE>>,
   nextn_predict_layers |-> 1, fp32_islands |-> <<TRUE, TRUE>>,
   layers |-> MakeLayers(45)]

CountMixer(spec, kind) ==
  Cardinality({i \in DOMAIN spec.layers : spec.layers[i].mixer = kind})

CountFfn(spec, kind) ==
  Cardinality({i \in DOMAIN spec.layers : spec.layers[i].ffn = kind})

(***************************************************************************)
(* validate_model_spec: every field must have its pinned value, every slot *)
(* must hold its own layer of the expected kinds, and the kinds must add   *)
(* up.  The result is the set of what is wrong; the code's order and       *)
(* wording of the messages are left out.                                   *)
(***************************************************************************)
ModelErrors(spec) ==
  {field \in DOMAIN Glm53FlashSpec \ {"layers"} :
     spec[field] # Glm53FlashSpec[field]}
  \cup (IF Len(spec.layers) # 45 THEN {"layer count"} ELSE {})
  \cup {<<"layer", i>> : i \in {j \in DOMAIN spec.layers :
                                  spec.layers[j] # MakeLayers(j)[j]}}
  \cup (IF CountMixer(spec, "kda") # 34 THEN {"kda count"} ELSE {})
  \cup (IF CountMixer(spec, "sparse_mla") # 11 THEN {"mla count"} ELSE {})
  \cup (IF CountFfn(spec, "dense") # 3 THEN {"dense count"} ELSE {})
  \cup (IF CountFfn(spec, "sparse_moe") # 42 THEN {"moe count"} ELSE {})
=============================================================================
