-------------------------- MODULE TaskSignatureImpl --------------------------
(***************************************************************************)
(* The task dispatch of task-spec/task_signature_impl.cc.                  *)
(*                                                                         *)
(* A task id is the pair of an operator and a task kind (INIT, FWD, BWD),  *)
(* as the enum task_id_t names them (POOL2D_FWD_TASK_ID is <<"POOL2D",    *)
(* "FWD">>).  get_task_signature_and_impl_for_task_id maps a task id to   *)
(* the task implementation and the signature it returns, each named by    *)
(* the operator file and kind of its getter (get_pool_2d_fwd_task_impl is *)
(* <<"pool_2d", "FWD">>).  The three get_*_op_task_invocation visitors and *)
(* get_task_ids dispatch on the operator attrs, and throw or PANIC for an *)
(* attrs type they do not list; they are modelled by the sets of          *)
(* operators they list.                                                    *)
(***************************************************************************)
EXTENDS Naturals, Sequences, FiniteSets, TLC

(***************************************************************************)
(* The cases of the switch, one row per operator: the task_id_t prefix,   *)
(* the operator file whose getters the case returns, and the kinds it has *)
(* a case for.                                                             *)
(***************************************************************************)
DispatchRows ==
  { <<"ELEMENTBINARY", "element_binary", {"INIT", "FWD", "BWD"}>>,
    <<"ELEMENTUNARY",  "element_unary",  {"INIT", "FWD", "BWD"}>>,
    <<"CONV2D",        "conv_2d",        {"INIT", "FWD", "BWD"}>>,
    <<"DROPOUT",       "dropout",        {"INIT", "FWD", "BWD"}>>,
    <<"EMBED",         "embedding",      {"FWD", "BWD"}>>,
    <<"GATHER",        "gather",         {"INIT", "FWD", "BWD"}>>,
    <<"CAST",          "cast",           {"FWD", "BWD"}>>,
    <<"POOL2D",        "pool_2d",        {"INIT", "FWD", "BWD"}>>,
    <<"BATCHNORM",     "batch_norm",     {"INIT", "FWD", "BWD"}>>,
    <<"BATCHMATMUL",   "batch_matmul",   {"FWD", "BWD"}>>,
    <<"LAYERNORM",     "layer_norm",     {"INIT", "FWD", "BWD"}>>,
    <<"LINEAR",        "linear",         {"INIT", "FWD", "BWD"}>>,
    <<"FLAT",          "flat",           {"FWD", "BWD"}>>,
    <<"SOFTMAX",       "softmax",        {"INIT", "FWD", "BWD"}>>,
    <<"CONCAT",        "concat",         {"FWD", "BWD"}>>,
    <<"SPLIT",         "split",          {"FWD", "BWD"}>>,
    <<"REDUCE",        "reduce",         {"INIT", "FWD", "BWD"}>>,
    <<"RESHAPE",       "reshape",        {"FWD", "BWD"}>>,
    <<"REVERSE",       "reverse",        {"FWD", "BWD"}>>,
    <<"TOPK",          "topk",           {"FWD", "BWD"}>>,
    <<"TRANSPOSE",     "transpose",      {"FWD", "BWD"}>>,
    <<"ATTENTION",     "attention",      {"INIT", "FWD", "BWD"}>> }

\* The task ids the switch has a case for; any other PANICs.
DispatchedTaskIds == UNION {{<<r[1], k>> : k \in r[3]} : r \in DispatchRows}

\* The operator file of a task id's case.
OpFileOf(id) == (CHOOSE r \in DispatchRows : r[1] = id[1])[2]

(***************************************************************************)
(* get_task_signature_and_impl_for_task_id: every case returns the impl   *)
(* and the signature of its own operator and kind, except                  *)
(* LAYERNORM_FWD_TASK_ID, which returns get_layer_norm_fwd_task_impl()     *)
(* with get_layer_norm_init_signature().                                   *)
(***************************************************************************)
TaskSignatureAndImpl ==
  (<<"LAYERNORM", "FWD">> :> [impl |-> <<"layer_norm", "FWD">>,
                              signature |-> <<"layer_norm", "INIT">>])
  @@ [id \in DispatchedTaskIds |-> [impl |-> <<OpFileOf(id), id[2]>>,
                                     signature |-> <<OpFileOf(id), id[2]>>]]

\* The operators get_task_ids(ComputationGraphOpAttrs) dispatches; any other throws.
TaskIdsOps ==
  {"batch_matmul", "batch_norm", "cast", "concat", "conv_2d", "dropout",
   "element_binary", "element_unary", "embedding", "flat", "gather", "input",
   "layer_norm", "linear", "attention", "noop", "pool_2d", "reduce", "reverse",
   "reshape", "split", "softmax", "topk", "transpose", "weight"}

\* The operators get_init_op_task_invocation dispatches; any other PANICs.
InitInvocationOps ==
  {"batch_norm", "conv_2d", "dropout", "element_binary", "element_unary", "gather",
   "layer_norm", "linear", "attention", "pool_2d", "reduce", "softmax"}

\* The operators get_forward_op_task_invocation and get_backward_op_task_invocation
\* dispatch (the same list); any other throws (forward) or PANICs (backward).
ForwardInvocationOps ==
  {"batch_matmul", "batch_norm", "cast", "concat", "conv_2d", "dropout",
   "element_binary", "element_unary", "embedding", "flat", "gather", "layer_norm",
   "linear", "attention", "pool_2d", "reduce", "reverse", "reshape", "split",
   "softmax", "topk", "transpose"}
BackwardInvocationOps == ForwardInvocationOps

\* The get_task_ids overloads of the operator files in the repository.
BatchMatmulTaskIds == {<<"BATCHMATMUL", "FWD">>, <<"BATCHMATMUL", "BWD">>}

\* Mutant: pool_2d's get_task_ids without its init task.
Pool2DTaskIdsWithoutInit == {<<"POOL2D", "FWD">>, <<"POOL2D", "BWD">>}

Pool2DTaskIds == {<<"POOL2D", "INIT">>, <<"POOL2D", "FWD">>, <<"POOL2D", "BWD">>}
ConcatTaskIds == {<<"CONCAT", "FWD">>, <<"CONCAT", "BWD">>}
SplitTaskIds == {<<"SPLIT", "FWD">>, <<"SPLIT", "BWD">>}

\* The overload the visitor reaches for each of those operators.
OpTaskIds ==
  ("batch_matmul" :> BatchMatmulTaskIds) @@ ("pool_2d" :> Pool2DTaskIds)
  @@ ("concat" :> ConcatTaskIds) @@ ("split" :> SplitTaskIds)

\* get_task_ids(op): the visitor, then the operator's overload.
GetTaskIds(op) == IF op \in TaskIdsOps THEN OpTaskIds[op] ELSE {}

=============================================================================
