---------------------------- MODULE LayerPrograms ----------------------------
(***************************************************************************)
(* One step of TextModel as the sequence of operators it calls             *)
(* (text_forward.cpp).  Every operator works in scratch buffers that the   *)
(* whole model shares, so the same buffer holds a query, a gate and a      *)
(* residual within one layer.  An instruction names                        *)
(*   op        the value it computes, unique within the step               *)
(*   reads     for each operand: the buffer the code reads, the value the  *)
(*             operator is meant to see there, and how many floats it reads*)
(*   out, rows the buffer written and how many floats                      *)
(*   gathered  whether the rows are shared between the ranks (apply_rows   *)
(*             followed by gather_rows) or all computed by each            *)
(*   needs     the checkpoint tensors it looks up, with the storage it     *)
(*             interprets them as                                          *)
(* What an operator computes is left out: a value is its name.  Rounding a *)
(* buffer in place is part of the operator that filled it.                 *)
(***************************************************************************)
EXTENDS ModelSpec, SequencesExt

CONSTANTS
  Model,         \* the ModelSpec the programs are laid out for
  PickedExperts  \* bound: the experts whose tensors are looked up

(* The forward pass takes the pinned specification; no other is accepted.  *)
ASSUME LayerProgramsAssumption ==
  /\ ModelErrors(Model) = {}
  /\ Model.layers \in Seq([index : Nat, mixer : STRING, ffn : STRING])
  /\ PickedExperts \subseteq 0 .. Model.routed_experts - 1

Width == Model.linear_attention_heads * Model.linear_attention_head_dim
KvWidth == Model.attention_heads * (Model.qk_head_dim + Model.v_head_dim)
Larger(x, y) == IF x > y THEN x ELSE y

(* Slip: the scratch is sized by the KDA heads alone. *)
CapacityOfKda ==
  [a |-> Width, b |-> Width, c |-> Width,
   d |-> Larger(Width, Model.intermediate_size),
   streams |-> Model.hyper_connection_streams * Model.hidden_size,
   branch |-> Model.hidden_size, collapsed |-> Model.hidden_size,
   final |-> Larger(Model.hidden_size, Width)]

(* The vectors the constructor sizes.  Everything else an instruction      *)
(* writes is a local vector that the code sizes where it fills it.         *)
Capacity ==
  LET wide == Larger(Width, KvWidth) IN
  [a |-> wide, b |-> wide, c |-> wide,
   d |-> Larger(wide, Model.intermediate_size),
   streams |-> Model.hyper_connection_streams * Model.hidden_size,
   branch |-> Model.hidden_size, collapsed |-> Model.hidden_size,
   final |-> Larger(Model.hidden_size, Width)]

Buffers == DOMAIN Capacity \cup
  {"post", "comb", "residual", "forget", "latents", "scores", "routes", "logits",
   "taps", "context", "draft", "normed", "prepared", "saved", "branched",
   "draft_logits", "path"}

-----------------------------------------------------------------------------
(* Lookups: a tensor that must have this shape, and a vector that load()   *)
(* accepts in either float storage as long as its length is right.         *)
Shaped(name, dtype, shape) ==
  [name |-> name, dtypes |-> {dtype}, by |-> "shape", dims |-> shape]
Loaded(name, count) ==
  [name |-> name, dtypes |-> {"F32", "BF16"}, by |-> "count", dims |-> <<count>>]

Local(op, reads, out, rows, needs) ==
  [op |-> op, gathered |-> FALSE, reads |-> reads, out |-> out, rows |-> rows,
   needs |-> needs]

(* linear_bf16 and linear_nvfp4: a matrix whose rows the ranks share. *)
Linear(op, needs, from, cols, out, rows) ==
  [op |-> op, gathered |-> TRUE, reads |-> {<<from[1], from[2], cols>>},
   out |-> out, rows |-> rows, needs |-> needs]

Bf16(weight, rows, cols) == {Shaped(weight, "BF16", <<rows, cols>>)}

(* Packed nibbles, block scales and two scalars, for every prefix the      *)
(* router could pick.                                                      *)
Nvfp4(prefixes, rows, cols) == UNION
  {{Shaped(p \o <<"weight">>, "U8", <<rows, cols \div 2>>),
    Shaped(p \o <<"weight_scale">>, "F8_E4M3", <<rows, cols \div 16>>),
    Shaped(p \o <<"weight_scale_2">>, "F32", <<>>),
    Shaped(p \o <<"input_scale">>, "F32", <<>>)} : p \in prefixes}

In(l, suffix) == <<"layer", l, suffix>>

-----------------------------------------------------------------------------
(* project_hc and the normalised branch input that mix() and feed() share. *)
Enter(l, half, before, norm) ==
  LET hc == Model.hyper_connection_streams
      coeff == (hc + 2) * hc
      flat == hc * Model.hidden_size
      read == {<<"streams", before, flat>>}
      needs == {Loaded(In(l, "hc_" \o half \o "_fn"), coeff * flat),
                Loaded(In(l, "hc_" \o half \o "_base"), coeff),
                Loaded(In(l, "hc_" \o half \o "_scale"), 3)}
  IN << Local(<<l, half, "post">>, read, "post", hc, needs),
        Local(<<l, half, "comb">>, read, "comb", hc * hc, {}),
        Local(<<l, half, "collapsed">>, read, "collapsed", Model.hidden_size, {}),
        Local(<<l, half, "residual">>, read, "residual", flat, {}),
        Local(<<l, half, "in">>,
              {<<"collapsed", <<l, half, "collapsed">>, Model.hidden_size>>},
              "branch", Model.hidden_size, {Loaded(In(l, norm), Model.hidden_size)}) >>

(* mhc_combine: residual streams and branch output back into the streams. *)
Leave(l, half, y) ==
  LET hc == Model.hyper_connection_streams
      flat == hc * Model.hidden_size
  IN << Local(<<l, half, "streams">>,
              {<<"residual", <<l, half, "residual">>, flat>>,
               <<"a", y, Model.hidden_size>>,
               <<"post", <<l, half, "post">>, hc>>,
               <<"comb", <<l, half, "comb">>, hc * hc>>},
              "streams", flat, {}) >>

-----------------------------------------------------------------------------
(* Slip: a scratch buffer that is in use. *)
GateInC == "c"

(* q, k and v occupy the three scratch buffers while the forget gate is    *)
(* projected, so its projection goes to final_.                            *)
GateScratch == "final"

(* kda(): branch_ in, buf_a_ out. *)
Kda(l) ==
  LET x == <<"branch", <<l, "attn", "in">>>>
      hidden == Model.hidden_size
      dim == Model.linear_attention_head_dim
      heads == Model.linear_attention_heads
      weight(name, rows, cols) ==
        Bf16(In(l, "self_attn." \o name \o "_proj.weight"), rows, cols)
      proj(name, to) ==
        Linear(<<l, name>>, weight(name, Width, hidden), x, hidden, to, Width)
      conv(name, buf) ==
        Local(<<l, name, "conv">>, {<<buf, <<l, name>>, Width>>}, buf, Width,
              {Shaped(In(l, "self_attn." \o name \o "_conv1d.weight"), "F32",
                      <<Width, 1, Model.short_conv_kernel_size>>)})
      narrow(name) ==
        Linear(<<l, name>>, weight(name, dim, hidden), x, hidden, "a", dim)
      widen(name, from, to) ==
        Linear(<<l, name>>, weight(name, Width, dim), <<"a", <<l, from>>>>, dim,
               to, Width)
  IN << proj("q", "b"), proj("k", "c"), proj("v", "d"),
        conv("q", "b"), conv("k", "c"), conv("v", "d"),
        narrow("f_a"), widen("f_b", "f_a", GateScratch),
        Local(<<l, "forget">>, {<<GateScratch, <<l, "f_b">>, Width>>}, "forget", Width,
              {Loaded(In(l, "self_attn.dt_bias"), Width),
               Loaded(In(l, "self_attn.A_log"), heads)}),
        Linear(<<l, "b">>, weight("b", heads, hidden), x, hidden, "a", heads),
        Local(<<l, "recur">>,
              {<<"b", <<l, "q", "conv">>, Width>>, <<"c", <<l, "k", "conv">>, Width>>,
               <<"d", <<l, "v", "conv">>, Width>>, <<"forget", <<l, "forget">>, Width>>,
               <<"a", <<l, "b">>, heads>>},
              "b", Width, {}),
        narrow("g_a"), widen("g_b", "g_a", "c"),
        Local(<<l, "gated">>,
              {<<"b", <<l, "recur">>, Width>>, <<"c", <<l, "g_b">>, Width>>},
              "b", Width, {Loaded(In(l, "self_attn.o_norm.weight"), dim)}),
        Linear(<<l, "mixed">>, weight("o", hidden, Width), <<"b", <<l, "gated">>>>,
               Width, "a", hidden) >>

(* mla() with `tokens' latents cached, this one included: one expansion    *)
(* of a cached latent, and one gather, per cached token.                   *)
Mla(l, tokens) ==
  LET x == <<"branch", <<l, "attn", "in">>>>
      hidden == Model.hidden_size
      q == Model.q_lora_rank
      kv == Model.kv_lora_rank
      qs == Model.attention_heads * Model.qk_head_dim
      vs == Model.attention_heads * Model.v_head_dim
      linear(name, weight, from, cols, to, rows) ==
        Linear(<<l, name>>, Bf16(In(l, "self_attn." \o weight \o ".weight"), rows, cols),
               from, cols, to, rows)
      norm(name, buf, n) ==
        Local(<<l, name, "norm">>, {<<buf, <<l, name>>, n>>}, buf, n,
              {Loaded(In(l, "self_attn." \o name \o "_layernorm.weight"), n)})
      expand(j) ==
        << [linear("kv_b", "kv_b_proj", <<"latents", <<l, "latent">>>>, kv, "d", KvWidth)
              EXCEPT !.op = <<l, "kv_b", j>>],
           Local(<<l, "scores", j>>,
                 {<<"c", <<l, "q_b">>, qs>>, <<"d", <<l, "kv_b", j>>, KvWidth>>},
                 "scores", Model.attention_heads * tokens, {}) >>
  IN << linear("q_a", "q_a_proj", x, hidden, "b", q), norm("q_a", "b", q),
        linear("q_b", "q_b_proj", <<"b", <<l, "q_a", "norm">>>>, q, "c", qs),
        linear("kv_a", "kv_a_proj_with_mqa", x, hidden, "a", kv), norm("kv_a", "a", kv),
        Local(<<l, "latent">>, {<<"a", <<l, "kv_a", "norm">>, kv>>}, "latents", kv, {}) >>
     \o FlattenSeq([j \in 1 .. tokens |-> expand(j)])
     \o << Local(<<l, "attended">>,
                 {<<"scores", <<l, "scores", tokens>>, Model.attention_heads * tokens>>},
                 "b", vs, {}),
           linear("mixed", "o_proj", <<"b", <<l, "attended">>>>, vs, "a", hidden) >>

-----------------------------------------------------------------------------
(* A gated MLP from branch_ through buf_b_, buf_c_ and buf_d_ into y; its  *)
(* values extend tag, its three matrices are looked up as gate, up, down.  *)
Gated(l, tag, inter, y, gate, up, down) ==
  LET x == <<"branch", <<l, "ffn", "in">>>> IN
  << Linear(tag \o <<"gate">>, gate, x, Model.hidden_size, "b", inter),
     Linear(tag \o <<"up">>, up, x, Model.hidden_size, "c", inter),
     Local(tag \o <<"swiglu">>,
           {<<"b", tag \o <<"gate">>, inter>>, <<"c", tag \o <<"up">>, inter>>},
           "d", inter, {}),
     Linear(tag \o <<"down">>, down, <<"d", tag \o <<"swiglu">>>>, inter, y,
            Model.hidden_size) >>

DenseMlp(l) ==
  LET inter == Model.intermediate_size
      hidden == Model.hidden_size
      prefix(part) == {<<"layer", l, "mlp." \o part>>}
  IN Gated(l, <<l, "mlp">>, inter, "a", Nvfp4(prefix("gate_proj"), inter, hidden),
           Nvfp4(prefix("up_proj"), inter, hidden),
           Nvfp4(prefix("down_proj"), hidden, inter))

(* moe(): the router reads buf_b_ before the experts reuse it; buf_a_      *)
(* accumulates, cleared first; the shared expert is BF16.                  *)
Moe(l) ==
  LET hidden == Model.hidden_size
      inter == Model.moe_intermediate_size
      k == Model.experts_per_token
      prefixes(part) == {<<"expert", l, e, part>> : e \in PickedExperts}
      shared(part) == In(l, "mlp.shared_experts." \o part \o ".weight")
      add(pick, value, more) ==
        << Local(<<l, "sum", pick>>,
                 {<<"a", <<l, "sum", pick - 1>>, hidden>>, <<"c", value, hidden>>}
                   \cup more, "a", hidden, {}) >>
      expert(pick) ==
        Gated(l, <<l, "expert", pick>>, inter, "c",
              Nvfp4(prefixes("gate_proj"), inter, hidden),
              Nvfp4(prefixes("up_proj"), inter, hidden),
              Nvfp4(prefixes("down_proj"), hidden, inter))
        \o add(pick, <<l, "expert", pick, "down">>, {<<"routes", <<l, "routes">>, k>>})
  IN << Linear(<<l, "router">>, Bf16(In(l, "mlp.gate.weight"), Model.routed_experts, hidden),
               <<"branch", <<l, "ffn", "in">>>>, hidden, "b", Model.routed_experts),
        Local(<<l, "routes">>, {<<"b", <<l, "router">>, Model.routed_experts>>},
              "routes", k, {Loaded(In(l, "mlp.gate.e_score_correction_bias"),
                                   Model.routed_experts)}),
        Local(<<l, "sum", 0>>, {}, "a", hidden, {}) >>
     \o FlattenSeq([pick \in 1 .. k |-> expert(pick)])
     \o Gated(l, <<l, "shared">>, inter, "c", Bf16(shared("gate_proj"), inter, hidden),
              Bf16(shared("up_proj"), inter, hidden),
              Bf16(shared("down_proj"), hidden, inter))
     \o add(k + 1, <<l, "shared", "down">>, {})

-----------------------------------------------------------------------------
(* mix() then feed() for one layer; `before' is what the streams hold. *)
LayerProgram(layer, before, tokens) ==
  LET l == layer.index
      k == Model.experts_per_token
  IN Enter(l, "attn", before, "input_layernorm.weight")
     \o (IF layer.mixer = "kda" THEN Kda(l) ELSE Mla(l, tokens))
     \o Leave(l, "attn", <<l, "mixed">>)
     \o Enter(l, "ffn", <<l, "attn", "streams">>, "post_attention_layernorm.weight")
     \o (IF layer.ffn = "dense" THEN DenseMlp(l) ELSE Moe(l))
     \o Leave(l, "ffn", IF layer.ffn = "dense" THEN <<l, "mlp", "down">>
                                               ELSE <<l, "sum", k + 1>>)

(* record_tap: the layers whose streams the draft is conditioned on. *)
TapLayers == <<5, 14, 24, 33, 42>>
RecordTap(l) ==
  LET flat == Model.hyper_connection_streams * Model.hidden_size
      earlier == {t \in Range(TapLayers) : t < l}
  IN IF l \notin Range(TapLayers) THEN <<>>
     ELSE << Local(<<l, "tap">>,
                   {<<"streams", <<l, "ffn", "streams">>, flat>>}
                     \cup IF earlier = {} THEN {}
                          ELSE {<<"taps", <<Max(earlier), "tap">>, Model.hidden_size>>},
                   "taps", Model.hidden_size, {}) >>

Embeddings == Shaped(<<"model.language_model.embed_tokens.weight">>, "BF16",
                     <<Model.vocab_size, Model.hidden_size>>)
OutputHead == Bf16(<<"lm_head.weight">>, Model.vocab_size, Model.hidden_size)

(* step(): the embedded token, every layer, the mean of the streams. *)
StepProgram(tokens, capture) ==
  LET flat == Model.hyper_connection_streams * Model.hidden_size
      layers == Model.layers
      left(i) == IF i = 0 THEN <<"embed">> ELSE <<layers[i].index, "ffn", "streams">>
  IN << Local(<<"embed">>, {}, "streams", flat, {Embeddings}) >>
     \o FlattenSeq([i \in 1 .. Len(layers) |->
                      LayerProgram(layers[i], left(i - 1), tokens)
                      \o IF capture THEN RecordTap(layers[i].index) ELSE <<>>])
     \o << Local(<<"hidden">>, {<<"streams", left(Len(layers)), flat>>}, "final",
                 Model.hidden_size,
                 {Loaded(<<"model.language_model.norm.weight">>, Model.hidden_size)}) >>

(* argmax(): the output head over final_, as gathered logits. *)
HeadProgram ==
  << Linear(<<"logits">>, OutputHead, <<"final", <<"hidden">>>>, Model.hidden_size,
            "logits", Model.vocab_size) >>

-----------------------------------------------------------------------------
(* propose_dflash(): the draft's sizes are constants of this file, apart   *)
(* from the DFlash2Spec that its catalogue is built from.  Its layers are  *)
(* numbered on from the model's.  Apart from the output head, which is the *)
(* target's, each rank computes all of it.                                 *)
DraftLayers == 5
Block == 8
SelectorRank == 256
DraftHidden == 4096
DraftInter == 12288
DraftHeads == 32
DraftKv == 8
DraftDim == 128

Draft(l, op, reads, out, needs) ==
  Local(<<Len(Model.layers) + l>> \o op,
        {<<r[1], <<Len(Model.layers) + r[2]>> \o r[3], Block * DraftHidden>> : r \in reads},
        out, Block * DraftHidden, needs)

(* One residual branch of draft layer l: the convolution before it keeps   *)
(* the coefficients of the convolution after it, over the same buffers in  *)
(* both branches; `before' is the label of the hidden states it starts at. *)
DraftBranch(l, half, before, norm, inner) ==
  LET name(suffix) == <<"draft", l, suffix>>
      kernel == Loaded(name(half \o "_conv.base_kernel"), 2 * 2 * DraftHidden)
      normed == <<"normed", l, <<half, "normed">>>>
  IN << Draft(l, <<half, "normed">>, {<<"draft", before[1], before[2]>>}, "normed",
              {Loaded(name(norm), DraftHidden)}),
        Draft(l, <<half, "prepared">>, {normed}, "prepared",
              {kernel} \cup Bf16(name(half \o "_conv.kernel_projection.weight"),
                                 4 * (DraftHidden \div 16), DraftHidden)),
        Draft(l, <<half, "saved">>, {normed}, "saved", {}),
        Draft(l, <<half, "branch">>,
              {<<"prepared", l, <<half, "prepared">>>>}
                \cup IF half = "attention" THEN {<<"context", 0, <<"context">>>>} ELSE {},
              "branched", inner),
        Draft(l, <<half, "out">>,
              {<<"draft", before[1], before[2]>>, <<"branched", l, <<half, "branch">>>>,
               <<"saved", l, <<half, "saved">>>>}, "draft", {kernel}) >>

DraftLayer(l) ==
  LET matrix(part, rows, cols) == Bf16(<<"draft", l, part \o "_proj.weight">>, rows, cols)
      norm(part) == {Loaded(<<"draft", l, "self_attn." \o part \o "_norm.weight">>, DraftDim)}
      wide == DraftHeads * DraftDim
      narrow == DraftKv * DraftDim
  IN DraftBranch(l, "attention",
                 IF l = 0 THEN <<0, <<"rows">>>> ELSE <<l - 1, <<"mlp", "out">>>>,
                 "input_layernorm.weight",
                 matrix("self_attn.q", wide, DraftHidden)
                 \cup matrix("self_attn.k", narrow, DraftHidden)
                 \cup matrix("self_attn.v", narrow, DraftHidden)
                 \cup matrix("self_attn.o", DraftHidden, wide)
                 \cup norm("q") \cup norm("k"))
     \o DraftBranch(l, "mlp", <<l, <<"attention", "out">>>>,
                    "post_attention_layernorm.weight",
                    matrix("mlp.gate", DraftInter, DraftHidden)
                    \cup matrix("mlp.up", DraftInter, DraftHidden)
                    \cup matrix("mlp.down", DraftHidden, DraftInter))

(* One slot of the path: the target's logits of the slot, gathered, and    *)
(* the best of their first sixteen by the codebooks and the predecessor.   *)
DraftSlot(slot) ==
  LET l == DraftLayers
      label(op) == <<Len(Model.layers) + l>> \o op
      book(name) == Bf16(<<"draft", "candidate_selector." \o name>>, Model.vocab_size, SelectorRank)
  IN << Linear(label(<<"logits", slot>>), OutputHead, <<"draft", label(<<"final">>)>>,
               DraftHidden, "draft_logits", Model.vocab_size),
        Draft(l, <<"path", slot>>,
              {<<"draft_logits", l, <<"logits", slot>>>>, <<"draft", l, <<"final">>>>}
                \cup IF slot = 1 THEN {} ELSE {<<"path", l, <<"path", slot - 1>>>>},
              "path",
              book("predecessor_codebook") \cup book("successor_codebook")
              \cup Bf16(<<"draft", "candidate_selector.hidden_projection.weight">>,
                        SelectorRank, DraftHidden)) >>

DraftProgram ==
  LET taps == Len(TapLayers)
      last == DraftLayers - 1
  IN << Local(<<Len(Model.layers), "context">>,
              {<<"taps", <<TapLayers[taps], "tap">>, Model.hidden_size>>},
              "context", DraftHidden,
              Bf16(<<"draft", "fc.weight">>, DraftHidden, taps * DraftHidden)
              \cup {Loaded(<<"draft", "hidden_norm.weight">>, DraftHidden)}),
        Draft(0, <<"rows">>, {}, "draft", {Embeddings}) >>
     \o FlattenSeq([i \in 1 .. DraftLayers |-> DraftLayer(i - 1)])
     \o << Draft(DraftLayers, <<"final">>, {<<"draft", last, <<"mlp", "out">>>>}, "draft",
                 {Loaded(<<"draft", "norm.weight">>, DraftHidden)}) >>
     \o FlattenSeq([slot \in 1 .. Block - 1 |-> DraftSlot(slot)])
=============================================================================
