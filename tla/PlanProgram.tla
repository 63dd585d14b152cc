----------------------------- MODULE PlanProgram -----------------------------
(***************************************************************************)
(* ninfer-glm53-plan: read the deployment file, check it, build the plan,  *)
(* check the plan.  The file is the example configuration followed by any  *)
(* few further lines; a later assignment replaces an earlier one.  Between *)
(* the build and the check another caller of the library may have edited   *)
(* the plan in one place.                                                  *)
(***************************************************************************)
EXTENDS ExecutionPlan

CONSTANTS
  Baseline,  \* [Keys -> value], configs/dgxspark_tp2.env.example
  Lines,     \* the further lines: <<key, value>>
  MaxLines   \* bound: further lines per file

ASSUME PlanProgramAssumption ==
  /\ MaxLines \in Nat
  /\ DOMAIN Baseline = Keys
  /\ \A line \in Lines : line[1] \in Keys

Model == Glm53FlashSpec
NoPlan == [layers |-> <<>>]

VARIABLES
  reached, \* "reading" | "loaded" | "checked" | "built" | "accepted" | why not
  count,   \* further lines read
  env,     \* [Keys -> value], the assignments so far
  plan

programVars == <<reached, count, env, plan>>

Deployment == DeploymentFromEnv(env)

ProgramInit == reached = "reading" /\ count = 0 /\ env = Baseline /\ plan = NoPlan

(* parse_env_file: insert_or_assign. *)
ReadLine ==
  /\ reached = "reading" /\ count < MaxLines
  /\ \E line \in Lines : env' = [env EXCEPT ![line[1]] = line[2]]
  /\ count' = count + 1
  /\ UNCHANGED <<reached, plan>>

(* A line without `=', or whose key is empty or not a word, is fatal. *)
ReadMalformed ==
  /\ reached = "reading" /\ count < MaxLines
  /\ reached' = "malformed" /\ UNCHANGED <<count, env, plan>>

EndOfFile ==
  /\ reached = "reading"
  /\ reached' = IF Unreadable(env) = {} THEN "loaded" ELSE "unreadable"
  /\ UNCHANGED <<count, env, plan>>

CheckContract ==
  /\ reached = "loaded"
  /\ reached' = IF ContractErrors(Deployment, Model) = {} THEN "checked" ELSE "refused"
  /\ UNCHANGED <<count, env, plan>>

(* build_tp2_execution_plan throws what main() reports as fatal. *)
Build ==
  /\ reached = "checked"
  /\ IF InputErrors(Model, Deployment) = {}
     THEN reached' = "built" /\ plan' = BuildPlan(Model, Deployment)
     ELSE reached' = "unbuildable" /\ UNCHANGED plan
  /\ UNCHANGED <<count, env>>

(* Every plan that differs from p in one place. *)
OneEdit(p) ==
  {[p EXCEPT ![field] = @ + n] : n \in {1, 2}, field \in
     {"world_size", "hyper_connection_streams", "local_attention_heads", "local_kv_heads",
      "local_index_heads", "local_linear_attention_heads", "max_context_tokens",
      "max_inflight_sequences", "max_batched_tokens"}}
  \cup {[p EXCEPT !.layers[i] = LayerPlan(Model.layers[j])] :
          i \in {1, 4, 5}, j \in {1, 4, 5}}
  \cup {[p EXCEPT !.layers[i][field] = "none"] : i \in {1, 45}, field \in
          {"mixer", "ffn", "persistent_state", "mixer_output_collective",
           "ffn_output_collective"}}
  \cup {[p EXCEPT !.layers = SubSeq(@, 1, n)] : n \in {0, 44}}
  \cup {[p EXCEPT !.speculative[field] = @ + 1] :
          field \in {"proposal_tokens", "draft_tensor_parallel"}}
  \cup {[p EXCEPT !.speculative[field] = Text("other")] :
          field \in {"draft_model", "draft_revision"}}
  \cup {[p EXCEPT !.speculative.enabled = ~@], [p EXCEPT !.speculative = NoDraft]}

Edit ==
  /\ reached = "built" /\ plan = BuildPlan(Model, Deployment)
  /\ plan' \in OneEdit(plan)
  /\ UNCHANGED <<reached, count, env>>

CheckPlan ==
  /\ reached = "built"
  /\ reached' = IF PlanErrors(plan, Model, Deployment) = {} THEN "accepted" ELSE "rejected"
  /\ UNCHANGED <<count, env, plan>>

ProgramEnded ==
  reached \in {"malformed", "unreadable", "refused", "unbuildable", "accepted", "rejected"}
ProgramRest == ProgramEnded /\ UNCHANGED programVars

ProgramNext ==
  \/ ReadLine \/ ReadMalformed \/ EndOfFile
  \/ CheckContract \/ Build \/ Edit \/ CheckPlan
  \/ ProgramRest

ProgramSpec == ProgramInit /\ [][ProgramNext]_programVars

-----------------------------------------------------------------------------
(* validate_execution_plan accepts the plan that would be built from the   *)
(* deployment, and no plan that differs from it in any field: the checker  *)
(* restates what the builder does and neither forgets nor adds anything.   *)
AcceptedIsBuilt ==
  reached \in {"accepted", "rejected"} =>
    (reached = "accepted" <=> plan = BuildPlan(Model, Deployment))

(* The contract check and the plan's own input check draw the line in      *)
(* different places, but nobody is refused a plan without notice: a file   *)
(* that passes the first and fails the second was warned about, or pins    *)
(* the draft to something that is not a commit.                            *)
RefusalWasAnnounced ==
  reached = "unbuildable" =>
    \/ ContractWarnings(Deployment) # {}
    \/ env["DFLASH_REVISION"] # Text("40hex")
=============================================================================
