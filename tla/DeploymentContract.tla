-------------------------- MODULE DeploymentContract --------------------------
(***************************************************************************)
(* The deployment file and what deployment_contract.cpp makes of it.  A    *)
(* value, after comments and quotes are gone, is empty, a number or a text;*)
(* GPU_MEM_UTIL is in hundredths, MODEL is the set of the markers that are *)
(* looked for in it.  An unset key and an empty value read alike.          *)
(***************************************************************************)
EXTENDS Naturals, FiniteSets

Empty == <<>>
Num(n) == <<"num", n>>
Text(s) == <<"text", s>>
IsNum(v) == v # Empty /\ v[1] = "num"

RequiredText == {"HEAD_IP", "WORKER_IP", "HEAD_CX7_IF", "WORKER_CX7_IF", "HEAD_CX7_IB",
  "WORKER_CX7_IB", "MODEL", "SERVED_MODEL_NAME", "QUANTIZATION", "KV_CACHE_DTYPE", "SPEC_METHOD"}
OptionalText == {"MODEL_REVISION", "DFLASH_MODEL", "DFLASH_REVISION", "GLM53_INDEXER_WORKSPACE",
  "GLM53_ADAPTIVE_K", "GLM53_ADAPTIVE_K_SET"}
RequiredNumber == {"NCCL_IB_GID_INDEX", "TP", "NNODES", "MASTER_PORT", "PORT", "MAX_MODEL_LEN",
  "MAX_NUM_SEQS", "MAX_NUM_BATCHED_TOKENS", "GPU_MEM_UTIL"}
OptionalNumber == {"HEAD_GID", "WORKER_GID", "DFLASH_TOKENS", "DFLASH_DRAFT_TP"}
Flags == {"ENFORCE_EAGER", "USE_HOST_NCCL"}
Keys == RequiredText \cup OptionalText \cup RequiredNumber \cup OptionalNumber \cup Flags

(* The keys deployment_from_env throws for. *)
Unreadable(env) ==
  {k \in RequiredText \cup RequiredNumber : env[k] = Empty}
  \cup {k \in RequiredNumber \cup OptionalNumber : env[k] # Empty /\ ~IsNum(env[k])}
  \cup {k \in Flags : env[k] \notin {Empty, Num(0), Num(1), Text("true"), Text("false")}}

(* The GID of a side that sets none is the common index. *)
CommonGid(env) == env["NCCL_IB_GID_INDEX"][2]

(* deployment_from_env, for an env without unreadable keys. *)
DeploymentFromEnv(env) ==
  LET number(k, fallback) == IF env[k] = Empty THEN fallback ELSE env[k][2]
  IN [k \in Keys |->
        CASE k \in {"HEAD_GID", "WORKER_GID"} -> number(k, CommonGid(env))
          [] k \in RequiredNumber \cup {"DFLASH_TOKENS", "DFLASH_DRAFT_TP"} -> number(k, 0)
          [] k \in Flags -> env[k] \in {Num(1), Text("true")}
          [] OTHER -> env[k]]

-----------------------------------------------------------------------------
Failing(checks) == {c \in DOMAIN checks : ~checks[c]}

HostErrors(d) == Failing(
  [tp |-> d.TP = 2, nodes |-> d.NNODES = 2,
   ips |-> Empty \notin {d.HEAD_IP, d.WORKER_IP} /\ d.HEAD_IP # d.WORKER_IP,
   interfaces |-> Empty \notin {d.HEAD_CX7_IF, d.WORKER_CX7_IF},
   rdma |-> Empty \notin {d.HEAD_CX7_IB, d.WORKER_CX7_IB},
   gids |-> d.HEAD_GID = d.NCCL_IB_GID_INDEX /\ d.WORKER_GID = d.NCCL_IB_GID_INDEX])

FormatErrors(d) == Failing(
  [quantization |-> d.QUANTIZATION = Text("nvfp4"),
   kv_cache |-> d.KV_CACHE_DTYPE = Text("fp8"),
   model |-> {"GLM-5.3-Flash", "NVFP4"} \subseteq d.MODEL[2],
   exl3 |-> "EXL3" \notin d.MODEL[2],
   draft |-> d.SPEC_METHOD = Text("dflash") => d.DFLASH_MODEL # Empty,
   proposals |-> d.SPEC_METHOD = Text("dflash") => d.DFLASH_TOKENS > 0])

LimitErrors(d, model) == Failing(
  [length |-> d.MAX_MODEL_LEN \in 1 .. model.max_position_embeddings,
   sequences |-> d.MAX_NUM_SEQS > 0, batch |-> d.MAX_NUM_BATCHED_TOKENS > 0,
   memory |-> d.GPU_MEM_UTIL \in 1 .. 100,
   ports |-> d.MASTER_PORT \in 1 .. 65535 /\ d.PORT \in 1 .. 65535])

(* The errors and the warnings of validate_deployment_contract. *)
ContractErrors(d, model) == HostErrors(d) \cup FormatErrors(d) \cup LimitErrors(d, model)

(* Slip: the draft's parallelism is not compared with the baseline. *)
WarningsButDraftTp(d) == Failing(
  [revision |-> d.MODEL_REVISION # Empty, method |-> d.SPEC_METHOD = Text("dflash"),
   draft_revision |-> d.SPEC_METHOD = Text("dflash") => d.DFLASH_REVISION # Empty,
   proposals |-> d.SPEC_METHOD = Text("dflash") => d.DFLASH_TOKENS = 7])

ContractWarnings(d) ==
  WarningsButDraftTp(d)
  \cup Failing(
    [draft_tp |-> d.SPEC_METHOD = Text("dflash") => d.DFLASH_DRAFT_TP = 2,
     length |-> d.MAX_MODEL_LEN = 1000000, sequences |-> d.MAX_NUM_SEQS = 1,
     batch |-> d.MAX_NUM_BATCHED_TOKENS = 7168])
  \cup Failing(
    [memory |-> d.GPU_MEM_UTIL <= 85,
     eager |-> ~d.ENFORCE_EAGER, host_nccl |-> ~d.USE_HOST_NCCL,
     workspace |-> d.GLM53_INDEXER_WORKSPACE = Text("rightsize")])
=============================================================================
