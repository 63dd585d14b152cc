---------------------------- MODULE MCPlanProgram ----------------------------
(* The example configuration, and lines that put every key on each side of *)
(* the checks made on it.                                                  *)
EXTENDS PlanProgram, TLC

MCBaseline ==
  [k \in Keys |->
     CASE k \in {"TP", "NNODES", "DFLASH_DRAFT_TP"} -> Num(2)
       [] k \in {"NCCL_IB_GID_INDEX", "HEAD_GID", "WORKER_GID"} -> Num(3)
       [] k = "MAX_MODEL_LEN" -> Num(1000000) [] k = "MAX_NUM_SEQS" -> Num(1)
       [] k = "MAX_NUM_BATCHED_TOKENS" -> Num(7168) [] k = "GPU_MEM_UTIL" -> Num(85)
       [] k = "DFLASH_TOKENS" -> Num(7) [] k = "MASTER_PORT" -> Num(29521)
       [] k = "PORT" -> Num(8888) [] k \in Flags -> Num(0)
       [] k = "MODEL" -> <<"text", {"GLM-5.3-Flash", "NVFP4"}>>
       [] k = "QUANTIZATION" -> Text("nvfp4") [] k = "KV_CACHE_DTYPE" -> Text("fp8")
       [] k = "SPEC_METHOD" -> Text("dflash")
       [] k \in {"DFLASH_REVISION", "MODEL_REVISION"} -> Text("40hex")
       [] k = "GLM53_INDEXER_WORKSPACE" -> Text("rightsize")
       [] OTHER -> Text(k)]

MCLines ==
  {<<k, Empty>> : k \in {"HEAD_IP", "SPEC_METHOD", "TP", "HEAD_GID", "WORKER_GID",
     "DFLASH_TOKENS", "DFLASH_DRAFT_TP", "DFLASH_MODEL", "DFLASH_REVISION", "MODEL_REVISION",
     "GLM53_INDEXER_WORKSPACE", "USE_HOST_NCCL"}}
  \cup {<<k, Num(n)>> : k \in {"TP", "NNODES", "HEAD_GID", "NCCL_IB_GID_INDEX",
          "DFLASH_DRAFT_TP", "MAX_NUM_SEQS", "ENFORCE_EAGER"}, n \in {0, 1, 4}}
  \cup {<<"DFLASH_TOKENS", Num(n)>> : n \in {0, 8, 9}}
  \cup {<<"MAX_MODEL_LEN", Num(n)>> : n \in {1048576, 1048577}}
  \cup {<<"GPU_MEM_UTIL", Num(n)>> : n \in {90, 101}}
  \cup {<<"SPEC_METHOD", Text(s)>> : s \in {"none", "mtp"}}
  \cup {<<"PORT", Num(65536)>>, <<"PORT", Text("http")>>, <<"QUANTIZATION", Text("exl3")>>,
        <<"DFLASH_REVISION", Text("main")>>, <<"WORKER_IP", Text("HEAD_IP")>>,
        <<"MODEL", <<"text", {"GLM-5.3-Flash", "NVFP4", "EXL3"}>>>>}
=============================================================================
