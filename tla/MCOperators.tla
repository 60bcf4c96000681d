-------------------------- MODULE MCOperators --------------------------
(***************************************************************************)
(* The operator layer as one caller uses it: op-attrs shape inference      *)
(* (ShapeInference) and the task-spec operator tasks (OpTasks), one call  *)
(* at a time.  A call of either kind starts only when the caller is idle  *)
(* in both, and Return of its own module ends it.                         *)
(*                                                                         *)
(* Inputs of the shape-inference calls.  Sizes are small but distinct, so *)
(* that a dim taken from the wrong place shows; every parallel degree is  *)
(* 1 or 2, so that every check of a degree can pass and fail.  Each set   *)
(* also has inputs that fail the sequential checks (rank, datatype, a     *)
(* kernel larger than the padded input).                                   *)
(*                                                                         *)
(* Operators for the tasks: batch matmuls of every b x n x m times        *)
(* b x m x p with n, m, p in 1..2 (square and not), pools of a            *)
(* 1 x 2 x 2 x 2 input with a 1 x 1 or a 2 x 2 window, and a 3-d input the *)
(* init task cannot read four dims from, and concats of one to three       *)
(* inputs against a MAX_NUM_INPUTS of 2.                                   *)
(***************************************************************************)
EXTENDS ShapeInference

VARIABLE task

Degree == {1, 2}

\* Every parallel shape of the given sizes and datatype with degrees in Degree.
ParShapes(sizes, dt, sums, discards) ==
  {LiftWithDegrees([dims |-> sizes, dt |-> dt], s, d, g) :
     s \in sums, d \in discards, g \in [1..Len(sizes) -> Degree]}

\* Conv2D: a 2 x 2 image of 3 channels; kernels of 1 and 3 rows.
MCConv2DAttrs ==
  [out_channels: {2}, kernel_h: {1, 3}, kernel_w: {1}, stride_h: {1, 2},
   stride_w: {1}, padding_h: {0, 1}, padding_w: {0}, use_bias: BOOLEAN]

MCConv2DInputs ==
  {ps \in ParShapes(<<2, 3, 2, 2>>, "FLOAT", Degree, Degree) : ps.shard[4].degree = 1}

MCInitializers == {"none", "given"}

\* BatchMatmul: (2 x 3 x 4) and (2 x 4 x 3), and one 2-d input.
MCBatchMatmulInputs ==
  ParShapes(<<2, 3, 4>>, "FLOAT", Degree, Degree) \cup
  ParShapes(<<2, 4, 3>>, "FLOAT", Degree, Degree) \cup
  ParShapes(<<4, 3>>, "FLOAT", {1}, {1})

\* Combine along dim 0, 1 or (out of range) 2 of a 2-d tensor.
MCCombineAttrs == [combine_dim: {0, 1, 2}, combine_degree: {1, 2}]
MCCombineInputs == ParShapes(<<4, 2>>, "FLOAT", Degree, Degree)

(***************************************************************************)
(* Embedding of (batch 2 x sequence 3) token ids.  Token ids have no      *)
(* partial sums: the inputs' sum degree is 1.                              *)
(***************************************************************************)
MCEmbeddingAttrs ==
  [num_entries: {5}, out_channels: {4}, aggr: {"SUM", "AVG"}, data_type: {"FLOAT"}]
MCEmbeddingInputs ==
  ParShapes(<<2, 3>>, "INT32", {1}, Degree) \cup ParShapes(<<2, 3>>, "FLOAT", {1}, {1})

\* LayerNorm over a 2 x 3 x 4 tensor; axis 3 is out of range.
MCLayerNormAttrs == [axes: {{1}, {0, 2}, {3}}, elementwise_affine: BOOLEAN]
MCLayerNormInputs == ParShapes(<<2, 3, 4>>, "FLOAT", Degree, {1})

\* BatchNorm over (2 x 3), a 1-d tensor, and a HALF tensor.
MCBatchNormAttrs == [affine: BOOLEAN]
MCBatchNormInputs ==
  ParShapes(<<2, 3>>, "FLOAT", Degree, Degree) \cup
  ParShapes(<<4>>, "FLOAT", {1}, {1}) \cup ParShapes(<<2, 3>>, "HALF", {1}, {1})

MCAttentionInputShapes ==
  {[dims |-> d, dt |-> "FLOAT"] : d \in {<<2, 3, 4>>, <<2, 3, 5>>, <<2, 4, 4>>, <<3, 4>>}}


-----------------------------------------------------------------------------
(* The operator tasks.                                                     *)

Shape(d) == [dims |-> d, dt |-> "FLOAT"]

MCBatchMatmulShapes ==
  {<<Shape(<<2, n, m>>), Shape(<<2, m, p>>)>> : n, m, p \in 1..2}

MCPool2DAttrs ==
  [kernel_h: {1, 2}, kernel_w: {1}, stride_h: {1, 2}, stride_w: {1}, padding_h: {0},
   padding_w: {0}, pool_type: {"MAX", "AVG"}, activation: {"NONE", "RELU"}]

MCPool2DShapes ==
  {<<Shape(<<1, 2, 2, 2>>), Shape(<<1, 2, 1, 1>>)>>, <<Shape(<<1, 2, 2, 2>>), Shape(<<1, 2, 2, 2>>)>>,
   <<Shape(<<2, 2, 2>>), Shape(<<2, 1, 1>>)>>}

MCConcatOps ==
  {[inputs |-> [j \in 1..n |-> Shape(<<2, 1>>)], output |-> Shape(<<2, n>>), axis |-> 1] :
     n \in 1..3}

\* MAX_NUM_INPUTS, small enough that a concat of the inputs above exceeds it.
MCMaxNumInputs == 2

\* A 2 x 3 input split along dim 0, and a single element split along either dim.
MCSplitOps ==
  {[attrs |-> [axis |-> 0, splits |-> <<1, 1>>], input |-> Shape(<<2, 3>>), output |-> Shape(<<1, 3>>)]}
  \cup {[attrs |-> [axis |-> x, splits |-> <<1>>], input |-> Shape(<<1, 1>>), output |-> Shape(<<1, 1>>)] :
           x \in 0..1}

\* MAX_NUM_OUTPUTS.
MCMaxNumOutputs == 2

OT == INSTANCE OpTasks WITH BatchMatmulShapes <- MCBatchMatmulShapes,
        Pool2DAttrs <- MCPool2DAttrs, Pool2DShapes <- MCPool2DShapes,
        ConcatOps <- MCConcatOps, MaxNumInputs <- MCMaxNumInputs,
        SplitOps <- MCSplitOps, MaxNumOutputs <- MCMaxNumOutputs

-----------------------------------------------------------------------------
(* One caller of both.                                                     *)

OperatorsInit == Init /\ OT!Init

OperatorsNext ==
  \/ task = OT!Idle /\ Next /\ UNCHANGED task
  \/ call = Idle /\ OT!Next /\ UNCHANGED call

OperatorsSpec == OperatorsInit /\ [][OperatorsNext]_<<call, task>>

-----------------------------------------------------------------------------
(* The properties of the tasks, stated in OpTasks.                         *)

\* A forward kernel writes only forward buffers of output tensors (OpTasks).
ForwardWritesOnlyOutputs == OT!ForwardWritesOnlyOutputs

\* A batch matmul kernel that runs addresses exactly its buffers (OpTasks).
BatchMatmulKernelWithinBuffers == OT!BatchMatmulKernelWithinBuffers

\* Every invoked task id is one get_task_ids registers for its operator (OpTasks).
InvokedTaskRegistered == OT!InvokedTaskRegistered

\* A backward kernel reads gradients as gradients and writes only gradients (OpTasks).
BackwardWritesOnlyGradients == OT!BackwardWritesOnlyGradients

\* The dispatched signature declares exactly the slots the invocation binds (OpTasks).
BindingDeclaredBySignature == OT!BindingDeclaredBySignature

=============================================================================
