--------------------------- MODULE ParameterSchema ---------------------------
(***************************************************************************)
(* The tensors a checkpoint must hold (parameter_schema.cpp), built from   *)
(* the model, vision and draft descriptions.  A name is a tuple, so that   *)
(* layer and expert numbers stay numbers; the logical ids and the digest   *)
(* over them are left out.                                                 *)
(***************************************************************************)
EXTENDS ModelSpec, SequencesExt

CONSTANT ExpertIds  \* bound: the experts the catalogue lists

ASSUME ParameterSchemaAssumption ==
  ExpertIds \subseteq 0 .. Glm53FlashSpec.routed_experts - 1

Glm53FlashVisionSpec ==
  [depth |-> 24, hidden_size |-> 1024, num_heads |-> 16,
   intermediate_size |-> 4096, out_hidden_size |-> 4096, in_channels |-> 3,
   patch_size |-> 14, temporal_patch_size |-> 2, spatial_merge_size |-> 2,
   projection_intermediate_size |-> 10240]

Glm53FlashDflash2Spec ==
  [layers |-> 5, hidden_size |-> 4096, intermediate_size |-> 12288,
   vocab_size |-> 154880, num_heads |-> 32, num_kv_heads |-> 8, head_dim |-> 128,
   selector_rank |-> 256, conv_kernel_size |-> 2, conv_group_size |-> 16,
   block_size |-> 8, num_target_layers |-> 45,
   target_layer_ids |-> <<5, 14, 24, 33, 42>>]

(* What validate_vision_spec and validate_dflash2_spec object to. *)
VisionErrors(spec) ==
  {field \in DOMAIN Glm53FlashVisionSpec : spec[field] # Glm53FlashVisionSpec[field]}
DflashErrors(spec) ==
  {field \in DOMAIN Glm53FlashDflash2Spec : spec[field] # Glm53FlashDflash2Spec[field]}
  \cup (IF spec.num_heads * spec.head_dim # spec.hidden_size THEN {"query width"} ELSE {})

-----------------------------------------------------------------------------
Tensor(name, dtype, storage, shape) ==
  [name |-> name, dtype |-> dtype, storage |-> storage, shape |-> shape]

(* Slip: the FP32 tensors are stored as BF16 too. *)
StoredAsBf16(dtype, prefix, rows) ==
  [i \in DOMAIN rows |->
     Tensor(Append(prefix, rows[i][1]), "BF16", "native_BF16", rows[i][2])]

(* Rows <<suffix, shape>> of tensors kept in their own type. *)
Native(dtype, prefix, rows) ==
  [i \in DOMAIN rows |->
     Tensor(Append(prefix, rows[i][1]), dtype, "native_" \o dtype, rows[i][2])]
NativeBf16(prefix, rows) == Native("BF16", prefix, rows)

(* add_nvfp4: packed nibbles, a scale per sixteen of them, two scalars.    *)
(* The pinned widths are multiples of sixteen; others are not built.       *)
QuantizedLinear(prefix, rows, cols) ==
  << Tensor(Append(prefix, "weight"), "U8", "nvfp4_packed_u8", <<rows, cols \div 2>>),
     Tensor(Append(prefix, "weight_scale"), "F8_E4M3", "nvfp4_block_scale_f8",
            <<rows, cols \div 16>>),
     Tensor(Append(prefix, "weight_scale_2"), "F32", "nvfp4_global_scale_f32", <<>>),
     Tensor(Append(prefix, "input_scale"), "F32", "nvfp4_global_scale_f32", <<>>) >>

(* The experts of a layer as packed matrices. *)
QuantizedExperts(model, index) ==
  LET hidden == model.hidden_size
      moe == model.moe_intermediate_size
      tensors(e) ==
        QuantizedLinear(<<"expert", index, e, "gate_proj">>, moe, hidden)
        \o QuantizedLinear(<<"expert", index, e, "up_proj">>, moe, hidden)
        \o QuantizedLinear(<<"expert", index, e, "down_proj">>, hidden, moe)
  IN FlattenSeq([i \in 1 .. Cardinality(ExpertIds) |-> tensors(SetToSeq(ExpertIds)[i])])

(* The routed experts: quantized, except in the next-token layer. *)
Experts(model, index, nextn) ==
  LET hidden == model.hidden_size
      moe == model.moe_intermediate_size
      native(e, part, shape) ==
        NativeBf16(<<"expert", index, e, part>>, << <<"weight", shape>> >>)
      tensors(e) ==
        native(e, "gate_proj", <<moe, hidden>>) \o native(e, "up_proj", <<moe, hidden>>)
        \o native(e, "down_proj", <<hidden, moe>>)
  IN IF nextn THEN FlattenSeq([i \in 1 .. Cardinality(ExpertIds) |-> tensors(SetToSeq(ExpertIds)[i])])
     ELSE QuantizedExperts(model, index)

MoeTensors(model, index, nextn) ==
  LET hidden == model.hidden_size
      moe == model.moe_intermediate_size
  IN NativeBf16(<<"layer", index>>,
       << <<"mlp.gate.weight", <<model.routed_experts, hidden>>>>,
          <<"mlp.shared_experts.gate_proj.weight", <<moe, hidden>>>>,
          <<"mlp.shared_experts.up_proj.weight", <<moe, hidden>>>>,
          <<"mlp.shared_experts.down_proj.weight", <<hidden, moe>>>> >>)
     \o Native("F32", <<"layer", index>>,
          << <<"mlp.gate.e_score_correction_bias", <<model.routed_experts>>>> >>)
     \o Experts(model, index, nextn)

KdaTensors(model, index) ==
  LET hidden == model.hidden_size
      heads == model.linear_attention_heads
      dim == model.linear_attention_head_dim
      width == heads * dim
      conv(part) == <<"self_attn." \o part \o "_conv1d.weight",
                      <<width, 1, model.short_conv_kernel_size>>>>
      proj(part, shape) == <<"self_attn." \o part \o "_proj.weight", shape>>
  IN Native("F32", <<"layer", index>>,
       << <<"self_attn.A_log", <<heads>>>>, <<"self_attn.dt_bias", <<width>>>>,
          conv("q"), conv("k"), conv("v") >>)
     \o NativeBf16(<<"layer", index>>,
          << proj("b", <<heads, hidden>>), proj("f_a", <<dim, hidden>>),
             proj("f_b", <<width, dim>>), proj("g_a", <<dim, hidden>>),
             proj("g_b", <<width, dim>>), proj("q", <<width, hidden>>),
             proj("k", <<width, hidden>>), proj("v", <<width, hidden>>),
             <<"self_attn.o_norm.weight", <<dim>>>> >>)

SparseMlaTensors(model, index) ==
  LET hidden == model.hidden_size
      q == model.q_lora_rank
      kv == model.kv_lora_rank
      heads == model.attention_heads
      dim == model.index_head_dim
      own(part, shape) == <<"self_attn." \o part, shape>>
  IN NativeBf16(<<"layer", index>>,
       << own("q_a_proj.weight", <<q, hidden>>), own("q_a_layernorm.weight", <<q>>),
          own("q_b_proj.weight", <<heads * model.qk_head_dim, q>>),
          own("kv_a_proj_with_mqa.weight", <<kv, hidden>>),
          own("kv_a_layernorm.weight", <<kv>>),
          own("kv_b_proj.weight",
              <<heads * (model.qk_nope_head_dim + model.v_head_dim), kv>>),
          own("indexer.wk.weight", <<dim, hidden>>),
          own("indexer.wq_b.weight", <<model.index_heads * dim, q>>),
          own("indexer.weights_proj.weight", <<model.index_heads, hidden>>),
          own("indexer.k_norm.weight", <<dim>>), own("indexer.k_norm.bias", <<dim>>),
          own("indexer.index_kpool_compress_ape", <<model.index_kpool, dim>>),
          own("indexer.index_kpool_compress_gate", <<dim, hidden>>) >>)

MhcTensors(model, index) ==
  LET streams == model.hyper_connection_streams
      coeff == streams * (streams + 2)
      half(part) == << <<"hc_" \o part \o "_base", <<coeff>>>>,
                       <<"hc_" \o part \o "_fn", <<coeff, model.hidden_size * streams>>>>,
                       <<"hc_" \o part \o "_scale", <<streams - 1>>>> >>
  IN NativeBf16(<<"layer", index>>, half("attn") \o half("ffn"))

(* add_language_layer; `nextn' is the layer that predicts ahead. *)
LanguageLayer(model, layer, nextn) ==
  LET hidden == model.hidden_size
      index == layer.index
      inter == model.intermediate_size
      mixed == IF layer.mixer = "kda"
               THEN model.linear_attention_heads * model.linear_attention_head_dim
               ELSE model.attention_heads * model.v_head_dim
      dense(part, rows, cols) ==
        QuantizedLinear(<<"layer", index, "mlp." \o part \o "_proj">>, rows, cols)
  IN NativeBf16(<<"layer", index>>,
       << <<"input_layernorm.weight", <<hidden>>>>,
          <<"post_attention_layernorm.weight", <<hidden>>>>,
          <<"self_attn.o_proj.weight", <<hidden, mixed>>>> >>)
     \o (IF nextn THEN <<>> ELSE MhcTensors(model, index))
     \o (IF layer.mixer = "kda" THEN KdaTensors(model, index)
                                ELSE SparseMlaTensors(model, index))
     \o (IF layer.ffn = "dense"
         THEN dense("gate", inter, hidden) \o dense("up", inter, hidden)
              \o dense("down", hidden, inter)
         ELSE MoeTensors(model, index, nextn))
     \o (IF ~nextn THEN <<>>
         ELSE NativeBf16(<<"layer", index>>,
                << <<"eh_proj.weight", <<hidden, hidden * 2>>>>,
                   <<"enorm.weight", <<hidden>>>>, <<"hnorm.weight", <<hidden>>>>,
                   <<"shared_head.norm.weight", <<hidden>>>> >>))

VisionTensors(vision) ==
  LET hidden == vision.hidden_size
      inter == vision.intermediate_size
      out == vision.out_hidden_size
      mid == vision.projection_intermediate_size
      dim == hidden \div vision.num_heads
      block ==
        << <<"norm1.weight", <<hidden>>>>, <<"norm2.weight", <<hidden>>>>,
           <<"attn.q_norm.weight", <<dim>>>>, <<"attn.k_norm.weight", <<dim>>>>,
           <<"attn.qkv.weight", <<3 * hidden, hidden>>>>, <<"attn.qkv.bias", <<3 * hidden>>>>,
           <<"attn.proj.weight", <<hidden, hidden>>>>, <<"attn.proj.bias", <<hidden>>>>,
           <<"mlp.gate_proj.weight", <<inter, hidden>>>>, <<"mlp.gate_proj.bias", <<inter>>>>,
           <<"mlp.up_proj.weight", <<inter, hidden>>>>, <<"mlp.up_proj.bias", <<inter>>>>,
           <<"mlp.down_proj.weight", <<hidden, inter>>>>, <<"mlp.down_proj.bias", <<hidden>>>> >>
  IN FlattenSeq([i \in 1 .. vision.depth |-> NativeBf16(<<"visual.block", i - 1>>, block)])
     \o NativeBf16(<<"visual">>,
          << <<"patch_embed.proj.weight", <<hidden, vision.in_channels, vision.temporal_patch_size,
                                            vision.patch_size, vision.patch_size>>>>,
             <<"patch_embed.proj.bias", <<hidden>>>>,
             <<"downsample.weight", <<out, hidden, vision.spatial_merge_size,
                                      vision.spatial_merge_size>>>>,
             <<"downsample.bias", <<out>>>>, <<"post_layernorm.weight", <<hidden>>>>,
             <<"merger.gate_proj.weight", <<mid, out>>>>, <<"merger.up_proj.weight", <<mid, out>>>>,
             <<"merger.down_proj.weight", <<out, mid>>>>, <<"merger.proj.weight", <<out, out>>>>,
             <<"merger.post_projection_norm.weight", <<out>>>>,
             <<"merger.post_projection_norm.bias", <<out>>>> >>)

-----------------------------------------------------------------------------
(* Slip: the next-token layer takes the number of the last layer. *)
LastLayersNumber(model) == Len(model.layers) - 1

(* The next-token layer follows the numbered ones. *)
NextnIndex(model) == Len(model.layers)

(* expected_glm53_flash_tensors, for the pinned descriptions only. *)
ExpectedGlm53FlashTensors(model, vision) ==
  LET nextn == [index |-> NextnIndex(model), mixer |-> "sparse_mla", ffn |-> "sparse_moe"]
  IN IF ModelErrors(model) # {} \/ VisionErrors(vision) # {} THEN <<>> ELSE
     NativeBf16(<<>>,
       << <<"model.language_model.embed_tokens.weight", <<model.vocab_size, model.hidden_size>>>>,
          <<"model.language_model.norm.weight", <<model.hidden_size>>>>,
          <<"lm_head.weight", <<model.vocab_size, model.hidden_size>>>> >>)
     \o FlattenSeq([i \in 1 .. Len(model.layers) |-> LanguageLayer(model, model.layers[i], FALSE)])
     \o LanguageLayer(model, nextn, TRUE)
     \o VisionTensors(vision)

ExpectedDflash2Tensors(spec) ==
  LET hidden == spec.hidden_size
      inter == spec.intermediate_size
      rank == spec.selector_rank
      kernel == spec.conv_kernel_size
      wide == spec.num_heads * spec.head_dim
      narrow == spec.num_kv_heads * spec.head_dim
      conv(half) ==
        << <<half \o "_conv.base_kernel", <<kernel, kernel, hidden>>>>,
           <<half \o "_conv.kernel_projection.weight",
             <<kernel * kernel * (hidden \div spec.conv_group_size), hidden>>>> >>
      layer ==
        << <<"input_layernorm.weight", <<hidden>>>>,
           <<"post_attention_layernorm.weight", <<hidden>>>>,
           <<"self_attn.q_proj.weight", <<wide, hidden>>>>,
           <<"self_attn.k_proj.weight", <<narrow, hidden>>>>,
           <<"self_attn.v_proj.weight", <<narrow, hidden>>>>,
           <<"self_attn.o_proj.weight", <<hidden, wide>>>>,
           <<"self_attn.q_norm.weight", <<spec.head_dim>>>>,
           <<"self_attn.k_norm.weight", <<spec.head_dim>>>>,
           <<"mlp.gate_proj.weight", <<inter, hidden>>>>,
           <<"mlp.up_proj.weight", <<inter, hidden>>>>,
           <<"mlp.down_proj.weight", <<hidden, inter>>>> >> \o conv("attention") \o conv("mlp")
  IN IF DflashErrors(spec) # {} THEN <<>> ELSE
     NativeBf16(<<"draft">>,
       << <<"fc.weight", <<hidden, Len(spec.target_layer_ids) * hidden>>>>,
          <<"hidden_norm.weight", <<hidden>>>>, <<"norm.weight", <<hidden>>>>,
          <<"candidate_selector.hidden_projection.weight", <<rank, hidden>>>>,
          <<"candidate_selector.predecessor_codebook", <<spec.vocab_size, rank>>>>,
          <<"candidate_selector.successor_codebook", <<spec.vocab_size, rank>>>> >>)
     \o FlattenSeq([i \in 1 .. spec.layers |-> NativeBf16(<<"draft", i - 1>>, layer)])

(* validate_parameter_catalog over tensors that were built as above. *)
CatalogErrors(catalog) ==
  LET rank0(t) == t.shape = <<>>
      named == [i \in DOMAIN catalog |-> catalog[i].name]
  IN (IF Cardinality(Range(named)) = Len(catalog) THEN {} ELSE {"duplicate name"})
     \cup {t.name : t \in {u \in Range(catalog) :
             \/ rank0(u) # (u.storage = "nvfp4_global_scale_f32")
             \/ \E d \in Range(u.shape) : d <= 0
             \/ u.storage \in {"nvfp4_packed_u8", "nvfp4_block_scale_f8"} /\ Len(u.shape) # 2
             \/ <<u.storage, u.dtype>> \notin
                  {<<"native_BF16", "BF16">>, <<"native_F32", "F32">>,
                   <<"nvfp4_packed_u8", "U8">>, <<"nvfp4_block_scale_f8", "F8_E4M3">>,
                   <<"nvfp4_global_scale_f32", "F32">>}}}
=============================================================================
